------------------------------- MODULE MCSopLive -------------------------------
(* A triage that sends a case either through an approval, review -> verdict *)
(* -> file, or through two digital employees with asynchronous tools,       *)
(* fetch -> report.  A rejection, or an approval that timed out, ends the   *)
(* execution; fetch has an error exit that nobody connected.  Nothing       *)
(* limits the SOP as a whole.                                               *)
EXTENDS SopEngine

Normal(cond, target) == [ error |-> FALSE, cond |-> cond, target |-> target ]
OnError(target) == [ error |-> TRUE, cond |-> Always, target |-> target ]

LiveNode == { "triage", "review", "verdict", "file", "fetch", "report" }

LiveDefinition ==
  [ nodes |-> LiveNode, start |-> "triage",
    kind |-> [ n \in LiveNode |-> CASE n = "review" -> "human_employee"
                                    [] n = "verdict" -> "human_confirm"
                                    [] OTHER -> "digital_employee" ],
    exits |-> [ triage |-> << Normal("delicate", "review"), Normal(Always, "fetch") >>,
                review |-> << Normal(Always, "verdict") >>,
                verdict |-> << Normal("approved", "file"), Normal("rejected", NullTarget),
                               Normal("timeout", NullTarget) >>,
                file |-> << Normal(Always, NullTarget) >>,
                fetch |-> << Normal(Always, "report"), OnError(NullTarget) >>,
                report |-> << Normal(Always, NullTarget) >> ],
    nodeTimeout |-> [ n \in LiveNode |-> n = "review" ],
    asyncTools |-> [ n \in LiveNode |-> n \in { "fetch", "report" } ],
    sopTimeout |-> FALSE, maxRetries |-> MaxRetries, maxRejections |-> MaxRejections ]

LiveVersions == << LiveDefinition >>
===============================================================================
