---------------------------- MODULE ResultDelivery ----------------------------
(***************************************************************************)
(* Who tells the user the result of an SOP started from a conversation.    *)
(*                                                                         *)
(* The conversation (lib/conversation/sop-bridge.ts) waits for a while and *)
(* replies in its turn, or hands the delivery over to the engine by        *)
(* setting push_by_engine; the handlers that resume the execution          *)
(* (lib/sop/engine.ts) end with notifySopResult, which pushes the result   *)
(* if that flag is set.  The nodes are abstracted: a run of executeSop     *)
(* ends or suspends the execution as it likes.                             *)
(***************************************************************************)
EXTENDS SopStatus, Naturals

CONSTANTS
  Resume,     \* the handlers that may resume the execution at one time
  \* bounds of the model
  MaxResumes, MaxFaults

ASSUME BoundAssumption == MaxResumes \in Nat /\ MaxFaults \in Nat

VARIABLES
  status,   \* sop_executions.status
  push,     \* sop_executions.push_by_engine
  conv,     \* where the conversation is in executeSopFromConversation
  first,    \* the executeSop it started: "idle", "runs" or "returned"
  resume,   \* where each resuming handler is
  resumes,  \* how often the execution was resumed
  faults,   \* how often the conversation threw
  replies,  \* results given in the conversation's turn
  pushes    \* results pushed to the channel

vars == << status, push, conv, first, resume, resumes, faults, replies, pushes >>

ConvPlace == { "trigger", "suppress", "wait", "hand", "recheck", "async",
               "replied", "refused", "failed", "done" }
ResumePlace == { "idle", "route", "redo", "execute", "notify" }

Terminal == status \in SopTerminalStatuses

\* The row takes the edge, or stays as it is.
Transition(from, to) == status' = AfterTransition(status, from, to)
GoTo(h, place) == resume' = [ resume EXCEPT ![h] = place ]

Init ==
  /\ status = "pending" /\ push = TRUE
  /\ conv = "trigger" /\ first = "idle" /\ resume = [ h \in Resume |-> "idle" ]
  /\ resumes = 0 /\ faults = 0 /\ replies = 0 /\ pushes = 0

counters == << resumes, faults, replies, pushes >>

-------------------------------------------------------------------------------
(* The conversation: executeSopFromConversation.                           *)

\* pending -> running; the turn reports a refusal if the row was cancelled.
Trigger ==
  /\ conv = "trigger"
  /\ Transition("pending", "running")
  /\ conv' = IF Transits(status, "pending", "running") THEN "suppress" ELSE "refused"
  /\ UNCHANGED << push, first, resume, counters >>

\* The engine's push is suppressed before executeSop is called.
Suppress ==
  /\ conv = "suppress"
  /\ push' = FALSE
  /\ conv' = "wait" /\ first' = "runs"
  /\ UNCHANGED << status, resume, counters >>

\* waitForCompletion sees a terminal status: the result is given in the turn.
Reply ==
  /\ conv = "wait" /\ Terminal
  /\ replies' = replies + 1 /\ conv' = "replied"
  /\ UNCHANGED << status, push, first, resume, resumes, faults, pushes >>

\* It waits for a person, or the grace window is over: no longer wait.
GiveUp ==
  /\ conv = "wait" /\ ~Terminal
  /\ conv' = "hand"
  /\ UNCHANGED << status, push, first, resume, counters >>

\* Mutant: an execution that ended in the poll gap is left to the engine.
NeverRecheck ==
  /\ conv = "hand"
  /\ IF ~push /\ ~Terminal THEN push' = TRUE ELSE UNCHANGED push
  /\ conv' = "done"
  /\ UNCHANGED << status, first, resume, counters >>

\* Mutant: only a running execution is handed over.
HandIfRunning ==
  /\ conv = "hand"
  /\ IF ~push /\ status = "running"
     THEN push' = TRUE /\ conv' = "async"
     ELSE UNCHANGED push /\ conv' = "recheck"
  /\ UNCHANGED << status, first, resume, counters >>

\* One UPDATE: the flag is set again unless the execution has ended.
Hand ==
  /\ conv = "hand"
  /\ IF ~push /\ ~Terminal
     THEN push' = TRUE /\ conv' = "async"
     ELSE UNCHANGED push /\ conv' = "recheck"
  /\ UNCHANGED << status, first, resume, counters >>

\* It ended in the poll gap: reply after all.
Recheck ==
  /\ conv = "recheck"
  /\ IF Terminal
     THEN replies' = replies + 1 /\ conv' = "replied"
     ELSE UNCHANGED replies /\ conv' = "async"
  /\ UNCHANGED << status, push, first, resume, resumes, faults, pushes >>

\* The callback on the promise of the first executeSop pushes the result if
\* there is one by then, whatever push_by_engine says.
FirstReturned ==
  /\ conv = "async" /\ first = "returned"
  /\ conv' = "done"
  /\ pushes' = IF Terminal THEN pushes + 1 ELSE pushes
  /\ UNCHANGED << status, push, first, resume, resumes, faults, replies >>

\* A statement throws before the hand-off: the turn reports an error.
BridgeThrows ==
  /\ conv \in { "suppress", "wait", "hand", "recheck" } /\ faults < MaxFaults
  /\ faults' = faults + 1 /\ conv' = "failed"
  /\ UNCHANGED << status, push, first, resume, resumes, replies, pushes >>

-------------------------------------------------------------------------------
(* The engine.                                                             *)

\* What a run of executeSop ends with.  A transition the map or the row
\* refuses changes nothing, and the run ends all the same.
Outcomes == { "completed", "error", "timed_out", "paused_for_human", "paused_for_tool" }

FirstRuns ==
  /\ first = "runs"
  /\ \E to \in Outcomes : Transition("running", to)
  /\ first' = "returned"
  /\ UNCHANGED << push, conv, resume, counters >>

\* resumeSopFromPause wins the row ...
HumanResume(h) ==
  /\ resume[h] = "idle" /\ resumes < MaxResumes
  /\ Transits(status, "paused_for_human", "running")
  /\ Transition("paused_for_human", "running")
  /\ GoTo(h, "route") /\ resumes' = resumes + 1
  /\ UNCHANGED << push, conv, first, faults, replies, pushes >>

\* ... and has nowhere to go on, completes the execution, or executes it.
Route(h) ==
  /\ resume[h] = "route"
  /\ \/ GoTo(h, "idle") /\ UNCHANGED status
     \/ GoTo(h, "notify") /\ Transition("running", "completed")
     \/ GoTo(h, "execute") /\ UNCHANGED status
  /\ UNCHANGED << push, conv, first, counters >>

\* resumeSopFromAsyncTool wins the row ...
ToolResume(h) ==
  /\ resume[h] = "idle" /\ resumes < MaxResumes
  /\ Transits(status, "paused_for_tool", "running")
  /\ Transition("paused_for_tool", "running")
  /\ GoTo(h, "redo") /\ resumes' = resumes + 1
  /\ UNCHANGED << push, conv, first, faults, replies, pushes >>

\* ... and executes the node again: the node is gone, it suspends or fails,
\* of which nobody is notified, it completes the execution, or goes on.
Redo(h) ==
  /\ resume[h] = "redo"
  /\ \/ GoTo(h, "idle") /\ UNCHANGED status
     \/ GoTo(h, "idle") /\ \E to \in Paused \cup { "error" } : Transition("running", to)
     \/ GoTo(h, "notify") /\ Transition("running", "completed")
     \/ GoTo(h, "execute") /\ UNCHANGED status
  /\ UNCHANGED << push, conv, first, counters >>

Execute(h) ==
  /\ resume[h] = "execute"
  /\ \E to \in Outcomes : Transition("running", to)
  /\ GoTo(h, "notify")
  /\ UNCHANGED << push, conv, first, counters >>

\* Mutant: the delivery gate is not looked at.
NotifiesAnyway == Terminal

Notifies == Terminal /\ push

\* notifySopResult reads status and flag in one query.
Notify(h) ==
  /\ resume[h] = "notify"
  /\ pushes' = IF Notifies THEN pushes + 1 ELSE pushes
  /\ GoTo(h, "idle")
  /\ UNCHANGED << status, push, conv, first, resumes, faults, replies >>

\* Ends of the execution outside these: one rejection too many, a time limit
\* of the pause or of the SOP, a cancel.
EndsElsewhere ==
  /\ ~Terminal
  /\ \/ Transition("paused_for_human", "failed")
     \/ Transition(status, "timed_out")
     \/ Transition(status, "cancelled")
  /\ UNCHANGED << push, conv, first, resume, counters >>

-------------------------------------------------------------------------------
Converse == Trigger \/ Suppress \/ Reply \/ GiveUp \/ Hand \/ Recheck \/ FirstReturned
Continue(h) == Route(h) \/ Redo(h) \/ Execute(h) \/ Notify(h)

Next ==
  \/ Converse \/ BridgeThrows \/ FirstRuns \/ EndsElsewhere
  \/ \E h \in Resume : HumanResume(h) \/ ToolResume(h) \/ Continue(h)

Spec == Init /\ [][Next]_vars

\* Every await returns, in the conversation and in the engine.  Nobody has to
\* decide, to cancel, or to answer a tool call.
FairSpec ==
  /\ Spec
  /\ WF_vars(Converse) /\ WF_vars(FirstRuns)
  /\ \A h \in Resume : WF_vars(Continue(h))

-------------------------------------------------------------------------------
(* Properties.                                                             *)

\* Types; and no run of the engine is under way before the conversation has
\* suppressed the push.
TypeOK ==
  /\ status \in Status /\ push \in BOOLEAN
  /\ conv \in ConvPlace /\ first \in { "idle", "runs", "returned" }
  /\ resume \in [ Resume -> ResumePlace ]
  /\ resumes \in Nat /\ faults \in Nat /\ replies \in Nat /\ pushes \in Nat
  /\ conv \in { "trigger", "suppress" } =>
       first = "idle" /\ \A h \in Resume : resume[h] = "idle"

\* sop-bridge.ts: the guard on the status makes the hand-off atomic. A result
\* given in the conversation's turn is given once and never pushed as well,
\* however the end of the execution falls between poll, hand-off and notifier.
ReplyExcludesPush == replies > 0 => replies = 1 /\ pushes = 0

\* A hand-off refused by the guard always finds the result to reply with.
RefusedHandHasResult == conv = "recheck" => Terminal

\* The result of an execution that is neither suspended nor cancelled is
\* delivered exactly once, in the turn or by the callback, wherever in the
\* waiting it ends; unless the turn has already reported an error.
Told == conv \in { "refused", "failed" }
DeliveredOnceUnsuspended ==
  [](status \notin Paused)
    => (Terminal ~> status = "cancelled" \/ Told \/ [](replies + pushes = 1))

\* sop-executions.ts: the flip and the gate guarantee exactly-once delivery.
\* Here: no result is delivered twice.
NeverDeliveredTwice == replies + pushes <= 1

\* ... and no result is lost: unless the execution was cancelled, the user is
\* told how it ended.
ResultDelivered ==
  Terminal ~> status = "cancelled" \/ Told \/ replies + pushes > 0
===============================================================================
