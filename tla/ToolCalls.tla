------------------------------- MODULE ToolCalls -------------------------------
(***************************************************************************)
(* The asynchronous tool calls of one node of an SOP: how a round of calls *)
(* is dispatched (lib/sop/async-tool-dispatch.ts), who runs a tool, the    *)
(* several handlers that may settle a call (the exec worker and its        *)
(* 'failed' handler, the callback of a pod, the watchdog), and how the     *)
(* execution suspended for the round is resumed.                           *)
(*                                                                         *)
(* The engine is reduced to the driver that dispatches rounds; SopEngine   *)
(* has the rest of it, and takes the settling of a call for one step.      *)
(***************************************************************************)
EXTENDS Naturals, FiniteSets

CONSTANTS
  Queued,     \* calls of api and http tools, run by the platform itself
  Pod,        \* calls of script tools, run in a sandbox that calls back
  Immediate,  \* calls that fail on the spot: unknown tool, no identity
  NoCall,     \* the driver is at no call
  Attempts,   \* how often the watchdog queue tries a job
  MaxFaults   \* bound: exceptions, crashes and lost requests

Calls == Queued \cup Pod \cup Immediate

ASSUME KindAssumption ==
  /\ Queued \cap Pod = {} /\ Queued \cap Immediate = {} /\ Pod \cap Immediate = {}
  /\ NoCall \notin Calls
ASSUME NumberAssumption == Attempts \in Nat \ {0} /\ MaxFaults \in Nat

VARIABLES
  redis,     \* whether REDIS_URL is configured; never changes
  status,    \* of the execution, "ended" for whatever follows the node
  drv,       \* the driver: its place, its call, whether the round has calls
  issued,    \* the call ids drawn so far
  row,       \* metadata.status of the work log of each call
  dog,       \* the watchdog job of each call
  tries,     \* how often that job has failed
  job,       \* the exec job of each call
  pod,       \* the sandbox of each call
  runs,      \* how often the tool of each call was run
  pc,        \* where each handler that settles a call is
  outcome,   \* how the tool of each call ended, until that is written
  guards,    \* drivers that have suspended and not yet counted
  wakers,    \* resumes under way
  faults,
  stranded   \* a fault has taken a step on which a wake-up may depend

queue == << dog, tries, job, pod >>
settling == << pc, outcome >>
resuming == << guards, wakers >>
vars == << redis, status, drv, issued, row, queue, runs, settling, resuming,
           faults, stranded >>

Source == { "exec", "failed", "dog", "post" }
Place == { "idle", "run", "apply", "count" }
DriverPlace == { "none", "loop", "row", "send", "unwind" }
Settled == { "completed", "failed" }

Pending == { c \in Calls : row[c] = "pending" }

Init ==
  /\ redis \in BOOLEAN
  /\ status = "running"
  /\ drv = [ at |-> "loop", call |-> NoCall, sent |-> FALSE ]
  /\ issued = {}
  /\ row = [ c \in Calls |-> "none" ]
  /\ dog = [ c \in Calls |-> "none" ] /\ tries = [ c \in Calls |-> 0 ]
  /\ job = [ c \in Calls |-> "none" ] /\ pod = [ c \in Calls |-> "none" ]
  /\ runs = [ c \in Calls |-> 0 ]
  /\ pc = [ s \in Source |-> [ c \in Calls |-> "idle" ] ]
  /\ outcome = [ c \in Calls |-> "failed" ]
  /\ guards = 0 /\ wakers = 0 /\ faults = 0 /\ stranded = FALSE

HandlerTo(s, c, place) == pc' = [ pc EXCEPT ![s][c] = place ]
DriverAt(place, c) == drv' = [ drv EXCEPT !.at = place, !.call = c ]
NoDriver == [ at |-> "none", call |-> NoCall, sent |-> FALSE ]

Fault ==
  /\ faults < MaxFaults
  /\ faults' = faults + 1

-------------------------------------------------------------------------------
(* The driver: runAsyncToolLoop and the dispatch of each kind of call.     *)

\* registerWatchdog: an error of the queue is swallowed, and the call goes
\* without.
Arm(c) ==
  \/ /\ dog' = [ dog EXCEPT ![c] = IF redis /\ c \notin Immediate THEN "waiting" ELSE @ ]
     /\ UNCHANGED faults
  \/ redis /\ c \notin Immediate /\ Fault /\ UNCHANGED dog

\* The model asks for one more tool in this round; the call gets a fresh id,
\* a pod tool its sandbox.
NextCall(c) ==
  /\ drv.at = "loop" /\ c \notin issued
  /\ issued' = issued \cup { c }
  /\ drv' = [ at |-> "row", call |-> c, sent |-> TRUE ]
  /\ pod' = [ pod EXCEPT ![c] = IF c \in Pod THEN "up" ELSE @ ]
  /\ Arm(c)
  /\ UNCHANGED << redis, status, row, tries, job, runs, settling, resuming, stranded >>

\* writePendingToolCallLog; an immediate failure then POSTs its own callback.
Journal(c) ==
  /\ drv.at = "row" /\ drv.call = c
  /\ row' = [ row EXCEPT ![c] = "pending" ]
  /\ IF c \in Immediate
     THEN DriverAt("loop", NoCall) /\ HandlerTo("post", c, "apply")
     ELSE DriverAt("send", c) /\ UNCHANGED pc
  /\ UNCHANGED << redis, status, issued, queue, runs, outcome, resuming, faults, stranded >>

\* enqueueOrRunAsyncToolExec: a job, or a detached run without Redis.
Enqueue(c) ==
  /\ drv.at = "send" /\ drv.call = c /\ c \in Queued
  /\ DriverAt("loop", NoCall)
  /\ IF redis
     THEN job' = [ job EXCEPT ![c] = "waiting" ] /\ UNCHANGED << runs, pc >>
     ELSE runs' = [ runs EXCEPT ![c] = @ + 1 ] /\ HandlerTo("exec", c, "run") /\ UNCHANGED job
  /\ UNCHANGED << redis, status, issued, row, dog, tries, pod, outcome, resuming,
                  faults, stranded >>

\* The files are written and the tool is started in its pod; the answer to
\* the launch may be lost, or come too late, after the tool has started.
Launch(c) ==
  /\ drv.at = "send" /\ drv.call = c /\ c \in Pod
  /\ runs' = [ runs EXCEPT ![c] = @ + 1 ]
  /\ pod' = [ pod EXCEPT ![c] = IF @ = "gone" THEN @ ELSE "running" ]
  /\ \/ DriverAt("loop", NoCall) /\ UNCHANGED faults
     \/ DriverAt("unwind", c) /\ Fault
  /\ UNCHANGED << redis, status, issued, row, dog, tries, job, settling, resuming, stranded >>

\* The setup of a pod fails, or the insertion of its row.
PodSetupFails(c) ==
  /\ drv.at \in { "row", "send" } /\ drv.call = c /\ c \in Pod
  /\ Fault
  /\ DriverAt("unwind", c)
  /\ UNCHANGED << redis, status, issued, row, queue, runs, settling, resuming, stranded >>

\* The catch of dispatchPodToolAsync: the pod goes, its row fails if it is
\* still pending.  Nobody counts here; the driver's own guard will.
Unwind(c) ==
  /\ drv.at = "unwind" /\ drv.call = c
  /\ DriverAt("loop", NoCall)
  /\ pod' = [ pod EXCEPT ![c] = "gone" ]
  /\ row' = [ row EXCEPT ![c] = IF @ = "pending" THEN "failed" ELSE @ ]
  /\ UNCHANGED << redis, status, issued, dog, tries, job, runs, settling, resuming,
                  faults, stranded >>

\* Any other exception of a dispatch fails the node: the tool has no
\* manifest, the row cannot be inserted, the job cannot be added.
DispatchThrows ==
  /\ \/ drv.at = "loop"
     \/ drv.at = "row" /\ drv.call \notin Pod
     \/ drv.at = "send" /\ drv.call \in Queued
  /\ Fault
  /\ status' = "ended" /\ drv' = NoDriver
  /\ UNCHANGED << redis, issued, row, queue, runs, settling, resuming, stranded >>

\* The round is out: running -> paused_for_tool; its guard is still to come.
Suspend ==
  /\ drv.at = "loop" /\ drv.sent
  /\ drv' = NoDriver /\ guards' = guards + 1
  /\ status' = "paused_for_tool"
  /\ UNCHANGED << redis, issued, row, queue, runs, settling, wakers, faults, stranded >>

\* The model answers without asking for a tool.
Finish ==
  /\ drv.at = "loop" /\ ~drv.sent
  /\ drv' = NoDriver /\ status' = "ended"
  /\ UNCHANGED << redis, issued, row, queue, runs, settling, resuming, faults, stranded >>

\* Mutant: the guard resumes only if no call of the task failed.
GuardIfAllCompleted ==
  /\ guards > 0
  /\ guards' = guards - 1
  /\ wakers' = IF \A c \in Calls : row[c] \in { "none", "completed" } THEN wakers + 1 ELSE wakers
  /\ UNCHANGED << redis, status, drv, issued, row, queue, runs, settling, faults, stranded >>

\* resumeIfToolsAlreadySettled
Guard ==
  /\ guards > 0
  /\ guards' = guards - 1
  /\ wakers' = IF Pending = {} THEN wakers + 1 ELSE wakers
  /\ UNCHANGED << redis, status, drv, issued, row, queue, runs, settling, faults, stranded >>

\* Mutant: a resume drives on whatever the status is.
WakeAnyway ==
  /\ wakers > 0
  /\ wakers' = wakers - 1
  /\ drv' = [ NoDriver EXCEPT !.at = "loop" ]
  /\ status' = IF status = "paused_for_tool" THEN "running" ELSE status
  /\ UNCHANGED << redis, issued, row, queue, runs, settling, guards, faults, stranded >>

\* resumeSopFromAsyncTool: the first one takes the status and drives on.
Wake ==
  /\ wakers > 0
  /\ wakers' = wakers - 1
  /\ IF status = "paused_for_tool"
     THEN status' = "running" /\ drv' = [ NoDriver EXCEPT !.at = "loop" ]
     ELSE UNCHANGED << status, drv >>
  /\ UNCHANGED << redis, issued, row, queue, runs, settling, guards, faults, stranded >>

-------------------------------------------------------------------------------
(* The tools.                                                              *)

\* The exec worker takes the job and runs the tool.
TakeJob(c) ==
  /\ job[c] = "waiting"
  /\ job' = [ job EXCEPT ![c] = "taken" ]
  /\ runs' = [ runs EXCEPT ![c] = @ + 1 ]
  /\ HandlerTo("exec", c, "run")
  /\ UNCHANGED << redis, status, drv, issued, row, dog, tries, pod, outcome, resuming,
                  faults, stranded >>

\* The tool ends, well or badly; it may never do so.
ToolEnds(c, how) ==
  /\ pc["exec"][c] = "run"
  /\ HandlerTo("exec", c, "apply")
  /\ outcome' = [ outcome EXCEPT ![c] = how ]
  /\ UNCHANGED << redis, status, drv, issued, row, queue, runs, resuming, faults, stranded >>

\* The relay in the pod POSTs the result.
PodEnds(c, how) ==
  /\ pod[c] = "running"
  /\ pod' = [ pod EXCEPT ![c] = "posted" ]
  /\ HandlerTo("post", c, "apply")
  /\ outcome' = [ outcome EXCEPT ![c] = how ]
  /\ UNCHANGED << redis, status, drv, issued, row, dog, tries, job, runs, resuming,
                  faults, stranded >>

\* The watchdog's delay is over.  It is far longer than the insertion of the
\* row that follows its registration.
DogFires(c) ==
  /\ dog[c] = "waiting" /\ ~(drv.call = c /\ drv.at = "row")
  /\ dog' = [ dog EXCEPT ![c] = "active" ]
  /\ HandlerTo("dog", c, "apply")
  /\ UNCHANGED << redis, status, drv, issued, row, tries, job, pod, runs, outcome,
                  resuming, faults, stranded >>

-------------------------------------------------------------------------------
(* The handlers that settle a call.                                        *)

\* The watchdog and the 'failed' handler report a failure of their own.
Reported(s, c) == IF s \in { "dog", "failed" } THEN "failed" ELSE outcome[c]

\* Mutant: the UPDATE has lost its condition on the pending status.
ApplyAnyway(s, c) ==
  /\ pc[s][c] = "apply"
  /\ row' = [ row EXCEPT ![c] = Reported(s, c) ]
  /\ HandlerTo(s, c, "count") /\ outcome' = [ outcome EXCEPT ![c] = "failed" ]
  /\ UNCHANGED << redis, status, drv, issued, queue, runs, resuming, faults, stranded >>

\* applyTerminal: the first UPDATE wins; the others have nothing left to do.
\* The outcome is used up.
Apply(s, c) ==
  /\ pc[s][c] = "apply"
  /\ IF row[c] = "pending"
     THEN row' = [ row EXCEPT ![c] = Reported(s, c) ] /\ HandlerTo(s, c, "count") /\ UNCHANGED dog
     ELSE /\ HandlerTo(s, c, "idle")
          /\ dog' = [ dog EXCEPT ![c] = IF s = "dog" THEN "done" ELSE @ ]
          /\ UNCHANGED row
  /\ outcome' = [ outcome EXCEPT ![c] = "failed" ]
  /\ UNCHANGED << redis, status, drv, issued, tries, job, pod, runs, resuming,
                  faults, stranded >>

\* A job that waits is removed; one that runs cannot be.
DogAfter(s, c) == IF s = "dog" \/ dog[c] = "waiting" THEN "done" ELSE dog[c]

\* Mutant: a handler that is not the last of the round keeps its pod.
CountAndKeepPod(s, c) ==
  /\ pc[s][c] = "count"
  /\ HandlerTo(s, c, "idle")
  /\ dog' = [ dog EXCEPT ![c] = DogAfter(s, c) ]
  /\ pod' = [ pod EXCEPT ![c] = IF c \in Pod /\ Pending = {} THEN "gone" ELSE @ ]
  /\ wakers' = IF Pending = {} THEN wakers + 1 ELSE wakers
  /\ UNCHANGED << redis, status, drv, issued, row, tries, job, runs, outcome, guards,
                  faults, stranded >>

\* The calls of the task still pending are counted in a second statement, the
\* watchdog's timer is cancelled and the pod torn down; if nothing was left
\* the execution is resumed, in a promise nobody awaits.
Count(s, c) ==
  /\ pc[s][c] = "count"
  /\ HandlerTo(s, c, "idle")
  /\ dog' = [ dog EXCEPT ![c] = DogAfter(s, c) ]
  /\ pod' = [ pod EXCEPT ![c] = IF c \in Pod THEN "gone" ELSE @ ]
  /\ wakers' = IF Pending = {} THEN wakers + 1 ELSE wakers
  /\ UNCHANGED << redis, status, drv, issued, row, tries, job, runs, outcome, guards,
                  faults, stranded >>

-------------------------------------------------------------------------------
(* Faults.                                                                 *)

\* Whether the watchdog will still look at the call.
Netted(c) == dog[c] \in { "waiting", "active" }

\* A job whose handler throws, or whose replica dies, is not tried again
\* (attempts 1, maxStalledCount 0): the queue's 'failed' handler reports it.
\* The comments on the dispatch, which have it run again, are wrong; those on
\* the queue have it right.  A detached run is lost.
ExecDies(c) ==
  /\ pc["exec"][c] \in { "run", "apply", "count" }
  /\ Fault
  /\ pc' = [ pc EXCEPT !["exec"][c] = "idle",
                       !["failed"][c] = IF redis THEN "apply" ELSE @ ]
  /\ job' = [ job EXCEPT ![c] = IF redis THEN "failed" ELSE @ ]
  /\ stranded' = (stranded \/ pc["exec"][c] = "count")
  /\ UNCHANGED << redis, status, drv, issued, row, dog, tries, pod, runs, outcome, resuming >>

\* The 'failed' handler logs what it throws; nobody repeats a POST.
ReportDies(s, c) ==
  /\ s \in { "failed", "post" } /\ pc[s][c] \in { "apply", "count" }
  /\ Fault
  /\ HandlerTo(s, c, "idle")
  /\ stranded' = (stranded \/ pc[s][c] = "count")
  /\ UNCHANGED << redis, status, drv, issued, row, queue, runs, outcome, resuming >>

\* Mutant: the watchdog queue gives up after the first attempt.
DogDiesOnce(c) ==
  /\ pc["dog"][c] \in { "apply", "count" }
  /\ Fault
  /\ tries' = [ tries EXCEPT ![c] = @ + 1 ]
  /\ dog' = [ dog EXCEPT ![c] = "done" ]
  /\ HandlerTo("dog", c, "idle")
  /\ stranded' = (stranded \/ pc["dog"][c] = "count")
  /\ UNCHANGED << redis, status, drv, issued, row, job, pod, runs, outcome, resuming >>

\* The watchdog queue tries a job again, up to its number of attempts.
DogDies(c) ==
  /\ pc["dog"][c] \in { "apply", "count" }
  /\ Fault
  /\ tries' = [ tries EXCEPT ![c] = @ + 1 ]
  /\ dog' = [ dog EXCEPT ![c] = IF tries[c] + 1 < Attempts THEN "waiting" ELSE "done" ]
  /\ HandlerTo("dog", c, "idle")
  /\ stranded' = (stranded \/ pc["dog"][c] = "count")
  /\ UNCHANGED << redis, status, drv, issued, row, job, pod, runs, outcome, resuming >>

\* The replica of the driver, or of a resume, dies or loses its database.
DriverDies ==
  /\ Fault /\ stranded' = TRUE
  /\ \/ drv.at # "none" /\ drv' = NoDriver /\ UNCHANGED resuming
     \/ guards > 0 /\ guards' = guards - 1 /\ UNCHANGED << drv, wakers >>
     \/ wakers > 0 /\ wakers' = wakers - 1 /\ UNCHANGED << drv, guards >>
  /\ UNCHANGED << redis, status, issued, row, queue, runs, settling >>

-------------------------------------------------------------------------------
Dispatching(c) ==
  NextCall(c) \/ Journal(c) \/ Enqueue(c) \/ Launch(c) \/ PodSetupFails(c) \/ Unwind(c)

Driving == (\E c \in Calls : Dispatching(c)) \/ Suspend \/ Finish

Settling(s, c) == Apply(s, c) \/ Count(s, c)

Next ==
  \/ Driving \/ DispatchThrows \/ Guard \/ Wake \/ DriverDies
  \/ \E c \in Calls :
       \/ TakeJob(c) \/ DogFires(c) \/ ExecDies(c) \/ DogDies(c)
       \/ \E how \in Settled : ToolEnds(c, how) \/ PodEnds(c, how)
       \/ \E s \in Source : Settling(s, c) \/ ReportDies(s, c)

Spec == Init /\ [][Next]_vars

\* What the platform does by itself: awaits return, workers take the jobs they
\* find, delayed jobs fire.  That a tool ends is promised by nobody.
Platform ==
  \/ Driving \/ Guard \/ Wake
  \/ \E c \in Calls :
       TakeJob(c) \/ DogFires(c) \/ \E s \in Source : Settling(s, c)

\* While the platform can take a step it takes one.  No step can be repeated
\* for ever, so that each is taken in the end.
Fairness == WF_vars(Platform)

FairSpec == Spec /\ Fairness

-------------------------------------------------------------------------------
(* Properties.                                                             *)

\* Types; a driver drives a running execution, and where it is at a call it has
\* drawn the id of that call.
TypeOK ==
  /\ redis \in BOOLEAN /\ stranded \in BOOLEAN
  /\ status \in { "running", "paused_for_tool", "ended" }
  /\ drv \in [ at : DriverPlace, call : Calls \cup { NoCall }, sent : BOOLEAN ]
  /\ drv.at # "none" => status = "running"
  /\ drv.at \in { "row", "send", "unwind" } => drv.call \in issued
  /\ issued \in SUBSET Calls
  /\ row \in [ Calls -> { "none", "pending" } \cup Settled ]
  /\ dog \in [ Calls -> { "none", "waiting", "active", "done" } ]
  /\ job \in [ Calls -> { "none", "waiting", "taken", "failed" } ]
  /\ pod \in [ Calls -> { "none", "up", "running", "posted", "gone" } ]
  /\ tries \in [ Calls -> Nat ] /\ runs \in [ Calls -> Nat ]
  /\ pc \in [ Source -> [ Calls -> Place ] ]
  /\ outcome \in [ Calls -> Settled ]
  /\ guards \in Nat /\ wakers \in Nat /\ faults \in 0 .. MaxFaults

Ledger == INSTANCE CallLedger WITH
  open <- Pending,
  completed <- { c \in Calls : row[c] = "completed" },
  failed <- { c \in Calls : row[c] = "failed" }

\* Whatever crashes, however late a job, a callback or a watchdog comes, a
\* tool runs at most once and only after its call was journaled, and a call is
\* closed once: by the first of its handlers, as completed only if it ran.
\* At most once is what queue.ts says of the queue (83-89, 241-243) and what
\* its options do; async-tool-dispatch.ts (10-11, 328-330) says that a restart
\* in the middle of a call runs the job again, which is RestartReruns below.
ImplementsLedger == Ledger!Spec

\* A call with a watchdog does not stay pending for ever, though its tool
\* hangs, its pod dies, its POST is lost or the driver crashes behind it.
WatchedCallsClose ==
  \A c \in Queued \cup Pod : (row[c] = "pending" /\ Netted(c)) ~> row[c] # "pending"

\* An execution stays suspended for ever only because of a call without a
\* watchdog, or because a handler died between closing its call and resuming.
PauseEnds ==
  <>[](status = "paused_for_tool")
    => <>[](stranded \/ \E c \in Pending : dog[c] = "none")

\* The sandbox of a call that is closed is torn down, unless a handler died.
PodsFreed ==
  \A c \in Pod : (row[c] \in Settled) ~> (pod[c] = "gone" \/ stranded)

\* The comments on the exec worker and on its 'failed' handler: a throw after
\* the run fails the job, the handler turns that into a failed callback, so the
\* SOP still resumes, even if a result had been applied before the throw.
FailedJobResumes ==
  \A c \in Queued :
    (job[c] = "failed" /\ status = "paused_for_tool" /\ Pending = {})
      ~> status # "paused_for_tool"

\* async-tool-dispatch.ts, of the run that stands in for the queue when there
\* is no Redis: it is lost on restart, but the watchdog still fails the pending
\* row so that the SOP does not hang for ever.
Lost(c) == ~redis /\ row[c] = "pending" /\ runs[c] = 1 /\ pc["exec"][c] = "idle"
LostRunsClose == \A c \in Queued : Lost(c) ~> row[c] # "pending"

\* async-tool-dispatch.ts: because the job lives in Redis, a restart in the
\* middle of a call runs it again.
RestartReruns ==
  \A c \in Queued : (job[c] = "failed" /\ row[c] = "pending") ~> runs[c] > 1
===============================================================================
