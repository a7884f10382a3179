---------------------------- MODULE MCSopApproval ----------------------------
(* An SOP with one approval: draft -> review -> verdict -> file.  A review   *)
(* nobody makes in time goes on to the verdict as well.  An edit takes one  *)
(* from the rejections it allows.                                           *)
EXTENDS SopEngine, TLC

Normal(cond, target) == [ error |-> FALSE, cond |-> cond, target |-> target ]

ApprovalDefinition ==
  [ nodes |-> { "draft", "review", "verdict", "file" }, start |-> "draft",
    kind |-> [ draft |-> "digital_employee", review |-> "human_employee",
               verdict |-> "human_confirm", file |-> "digital_employee" ],
    exits |-> [ draft |-> << Normal(Always, "review") >>,
                review |-> << Normal("timeout", "verdict"), Normal(Always, "verdict") >>,
                verdict |-> << Normal("approved", "file"),
                               Normal("rejected", "draft"),
                               Normal("timeout", NullTarget) >>,
                file |-> << Normal(Always, NullTarget) >> ],
    nodeTimeout |-> [ draft |-> FALSE, review |-> TRUE, verdict |-> FALSE, file |-> FALSE ],
    asyncTools |-> [ draft |-> FALSE, review |-> FALSE, verdict |-> FALSE, file |-> FALSE ],
    sopTimeout |-> TRUE, maxRetries |-> MaxRetries, maxRejections |-> MaxRejections ]

ApprovalNode == { "draft", "review", "verdict", "file" }
StricterDefinition == [ ApprovalDefinition EXCEPT !.maxRejections = MaxRejections - 1 ]
ApprovalVersions == << ApprovalDefinition, StricterDefinition >>

Threads == Permutations(Thread)
===============================================================================
