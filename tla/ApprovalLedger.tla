---------------------------- MODULE ApprovalLedger ----------------------------
(***************************************************************************)
(* What the pause rows (sop_pause_states) promise about approvals: one is  *)
(* asked for once and settled once, by an approver or by its timeout;      *)
(* its decision never changes; and whoever resumes the execution does so   *)
(* with a decision the rows hold.  SopEngine implements it.                *)
(***************************************************************************)
CONSTANTS Pauses, Decisions, Undecided

VARIABLES
  opened,     \* the approvals asked for
  decision,   \* of each: Undecided, or what was decided
  heeded,     \* the decisions somebody is resuming the execution with
  applied     \* the approvals with which it was resumed

ledger == << opened, decision, heeded, applied >>

Init ==
  /\ opened = {} /\ heeded = {} /\ applied = {}
  /\ decision = [ p \in Pauses |-> Undecided ]

Open(p) ==
  /\ p \notin opened
  /\ opened' = opened \cup { p }
  /\ UNCHANGED << decision, applied >>

\* First-Wins: who finds it undecided settles it.
Settle(p) ==
  /\ p \in opened /\ decision[p] = Undecided
  /\ \E d \in Decisions : decision' = [ decision EXCEPT ![p] = d ]
  /\ UNCHANGED << opened, applied >>

\* Possibly again: a recovery may resume with an approval applied before.
Apply(p) ==
  /\ << p, decision[p] >> \in heeded
  /\ applied' = applied \cup { p }
  /\ UNCHANGED << opened, decision >>

\* Decisions are taken up, by a route, a job or a recovery, and given up, in a
\* crash or when the execution was resumed by another.
Heed == heeded' \subseteq { r \in opened' \X Decisions : decision'[r[1]] = r[2] }

Next ==
  /\ \/ \E p \in Pauses : Open(p) \/ Settle(p) \/ Apply(p)
     \/ UNCHANGED << opened, decision, applied >>
  /\ Heed

Spec == Init /\ [][Next]_ledger
===============================================================================
