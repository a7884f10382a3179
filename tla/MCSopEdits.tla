------------------------------ MODULE MCSopEdits ------------------------------
(* A definition that is edited while its execution is under way: a digital  *)
(* employee with asynchronous tools and an error exit to a switch, and an   *)
(* approval without an exit of its own for a timeout. The second version     *)
(* drops the approval, the third every node.                                *)
EXTENDS SopEngine, TLC

EditNode == { "draft", "branch", "review" }

Normal(cond, target) == [ error |-> FALSE, cond |-> cond, target |-> target ]
OnError(target) == [ error |-> TRUE, cond |-> Always, target |-> target ]

FirstVersion ==
  [ nodes |-> EditNode, start |-> "draft",
    kind |-> [ draft |-> "digital_employee", branch |-> "switch",
               review |-> "human_employee" ],
    exits |-> [ draft |-> << Normal(Always, "review"), OnError("branch") >>,
                branch |-> << Normal("retry", "review"), Normal(Always, NullTarget) >>,
                review |-> << Normal(Always, NullTarget) >> ],
    nodeTimeout |-> [ n \in EditNode |-> n = "review" ],
    asyncTools |-> [ n \in EditNode |-> n = "draft" ],
    sopTimeout |-> TRUE, maxRetries |-> 1, maxRejections |-> MaxRejections ]

SecondVersion == [ FirstVersion EXCEPT !.nodes = { "draft", "branch" }, !.maxRetries = 0 ]
ThirdVersion == [ FirstVersion EXCEPT !.nodes = {}, !.start = NoNode ]

EditVersions == << FirstVersion, SecondVersion, ThirdVersion >>
Threads == Permutations(Thread)
===============================================================================
