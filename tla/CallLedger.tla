------------------------------ MODULE CallLedger ------------------------------
(***************************************************************************)
(* What the work log promises about the asynchronous tool calls of a node  *)
(* (lib/sop/async-tool-log.ts): a call is journaled before its tool runs,  *)
(* the tool runs at most once, and the call is closed once, as completed   *)
(* only if its tool did run.  ToolCalls implements it.                     *)
(***************************************************************************)
EXTENDS Naturals

CONSTANT Calls

VARIABLES
  open,       \* journaled and not closed
  completed,
  failed,
  runs        \* how often the tool of each call was run

ledger == << open, completed, failed, runs >>

Init ==
  /\ open = {} /\ completed = {} /\ failed = {}
  /\ runs = [ c \in Calls |-> 0 ]

Journaled == open \cup completed \cup failed

Issue(c) ==
  /\ c \notin Journaled /\ runs[c] = 0
  /\ open' = open \cup { c }
  /\ UNCHANGED << completed, failed, runs >>

\* Possibly after the call was closed: a run that nobody waits for any more.
Run(c) ==
  /\ c \in Journaled /\ runs[c] = 0
  /\ runs' = [ runs EXCEPT ![c] = 1 ]
  /\ UNCHANGED << open, completed, failed >>

Close(c) ==
  /\ c \in open
  /\ open' = open \ { c }
  /\ \/ runs[c] = 1 /\ completed' = completed \cup { c } /\ UNCHANGED failed
     \/ failed' = failed \cup { c } /\ UNCHANGED completed
  /\ UNCHANGED runs

Next == \E c \in Calls : Issue(c) \/ Run(c) \/ Close(c)

Spec == Init /\ [][Next]_ledger
===============================================================================
