----------------------------- MODULE SopLifecycle -----------------------------
(***************************************************************************)
(* What the engine promises of one execution, whoever acts on it: the      *)
(* status starts "pending" and only ever follows an edge of                *)
(* VALID_TRANSITIONS.  SopEngine is shown to implement this specification. *)
(***************************************************************************)
EXTENDS SopStatus

VARIABLE status

Init == status = "pending"

Move(to) ==
  /\ to \in ValidTransitions[status]
  /\ status' = to

Next == \E to \in Status : Move(to)

Spec == Init /\ [][Next]_status
===============================================================================
