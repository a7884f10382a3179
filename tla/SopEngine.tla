------------------------------ MODULE SopEngine ------------------------------
(***************************************************************************)
(* The SOP execution engine (apps/crewmeld/lib/sop/engine.ts) and the      *)
(* handlers that call it, for one execution.                               *)
(*                                                                         *)
(* The database row, the pause rows, the tool-call rows and the delayed    *)
(* jobs are shared; every handler that runs (the start of an execution,    *)
(* an approval, a timeout job, a tool callback, a cancel, a recovery) is a *)
(* thread that takes one step per database call it awaits, so any two of   *)
(* them interleave.  A thread keeps in memory the snapshot it loaded, and  *)
(* persistSnapshot overwrites the row's snapshot with it whatever the row  *)
(* holds by then.                                                          *)
(***************************************************************************)
EXTENDS SopStatus, ExitResolver, FiniteSets

CONSTANTS
  Node,             \* the node ids of any version of the definition
  Value,            \* what the output of a working node can hold, as exits see it
  Definitions,      \* the successive versions of the SOP definition, a sequence
  Thread,           \* the handler invocations that may be in flight together
  MaxRetries,       \* the largest maxRetries of any version
  MaxRejections,    \* the largest maxRejectionCycles of any version
  ScheduledTrigger, \* TRUE: started by the scheduled-tasks execute route
  SlowNodes,        \* TRUE: a handler may outlast the stale threshold of recovery
  \* bounds of the model
  MaxPauses, MaxTasks, MaxCalls, MaxCrashes, MaxRecoveries, MaxFaults, MaxCancels

NoNode == "no node"
Kind == { "digital_employee", "human_employee", "human_confirm", "switch" }
Decision == { "approved", "rejected", "timeout" }
NoDecision == "undecided"
NodeStatus == { "none", "running", "completed", "error" }
Target == Node \cup { NullTarget, UndefinedTarget }
Exit == [ error : BOOLEAN, cond : Value \cup Decision \cup { Always }, target : Target ]

\* A version of the definition: its nodes, the node without incoming edge,
\* and per node the type, the exits, whether timeoutMinutes is set, and
\* whether its tools run asynchronously; and whether the SOP has a time limit,
\* its maxRetries and its maxRejectionCycles.
Definition ==
  [ nodes : SUBSET Node, start : Node \cup { NoNode },
    kind : [ Node -> Kind ], exits : [ Node -> Seq(Exit) ],
    nodeTimeout : [ Node -> BOOLEAN ], asyncTools : [ Node -> BOOLEAN ],
    sopTimeout : BOOLEAN, maxRetries : 0 .. MaxRetries,
    maxRejections : 0 .. MaxRejections ]

PauseId == 1 .. MaxPauses
TaskId == 1 .. MaxTasks

ASSUME NodeAssumption ==
  /\ NoNode \notin Node
  /\ Node \cap { NullTarget, UndefinedTarget } = {}
ASSUME DefinitionAssumption ==
  /\ Definitions \in Seq(Definition)
  /\ Len(Definitions) > 0
ASSUME BoundAssumption ==
  /\ MaxRetries \in Nat /\ MaxRejections \in Nat
  /\ MaxPauses \in Nat /\ MaxTasks \in Nat /\ MaxCalls \in Nat
  /\ MaxCrashes \in Nat /\ MaxRecoveries \in Nat /\ MaxFaults \in Nat
  /\ MaxCancels \in Nat
  /\ ScheduledTrigger \in BOOLEAN /\ SlowNodes \in BOOLEAN

VARIABLES
  status,     \* sop_executions.status
  snap,       \* sop_executions.state_snapshot
  rejections, \* sop_executions.rejection_count
  version,    \* the current version of the definition
  pauses,     \* sop_pause_states, in insertion order
  jobs,       \* the pauses with a node-timeout job in the queue
  sopJob,     \* TRUE while the SOP-level timeout job is in the queue
  pending,    \* per node task, its tool calls whose work_log is still pending
  tasks,      \* the number of node tasks created
  calls,      \* the number of tool calls dispatched
  late,       \* TRUE once the SOP's time limit has passed
  stale,      \* TRUE when updated_at is older than the recovery threshold
  meta,       \* the status the execution's live stream shows (Redis)
  triggered,  \* "no", then "started" or "refused" when the trigger is handled
  used,       \* how often each bounded event has happened
  th,         \* the threads
  applied     \* history: the pauses whose ruling won the status

vars == << status, snap, rejections, version, pauses, jobs, sopJob, pending,
           tasks, calls, late, stale, meta, triggered, used, th,
           applied >>

-------------------------------------------------------------------------------
(* Snapshots. executionPath is kept without its repetitions, in the order  *)
(* of each node's last visit: that is all its readers look at.             *)

Snapshot ==
  [ cur : Node \cup { NoNode }, ns : [ Node -> NodeStatus ],
    retry : [ Node -> 0 .. MaxRetries ],
    dec : [ Node -> Decision \cup { NoDecision } ], path : Seq(Node) ]

BlankSnapshot(n) ==
  [ cur |-> n, ns |-> [ m \in Node |-> "none" ], retry |-> [ m \in Node |-> 0 ],
    dec |-> [ m \in Node |-> NoDecision ], path |-> << >> ]

OnPath(path, n) == \E i \in DOMAIN path : path[i] = n

\* executionPath.push(n)
Push(path, n) ==
  IF OnPath(path, n)
  THEN LET i == CHOOSE j \in DOMAIN path : path[j] = n
       IN  Append(SubSeq(path, 1, i - 1) \o SubSeq(path, i + 1, Len(path)), n)
  ELSE Append(path, n)

\* if (!executionPath.includes(n)) executionPath.push(n)
PushIfAbsent(path, n) == IF OnPath(path, n) THEN path ELSE Append(path, n)

\* findPreviousHumanDecision, with executeHumanConfirmNode's default: the
\* decision of the last node of the path that has one.
PreviousDecision(s) ==
  LET decided == { i \in DOMAIN s.path : s.dec[s.path[i]] # NoDecision }
  IN  IF decided = {} THEN { "timeout" }
      ELSE { s.dec[s.path[i]] : i \in { j \in decided : \A k \in decided : k <= j } }

\* The snapshot executeSop starts from when the row's has no currentNodeId.
StartSnapshot(s, def) == IF s.cur = NoNode THEN BlankSnapshot(def.start) ELSE s

\* Mutant: every entry of a node resets its state.
EnterNodeAfresh(s, n) == [ s EXCEPT !.cur = n, !.ns[n] = "running", !.retry[n] = 0 ]

\* First entry of a node resets its state; after an error retryCount is kept.
EnterNode(s, n) ==
  [ s EXCEPT !.cur = n, !.ns[n] = "running",
             !.retry[n] = IF s.ns[n] = "error" THEN @ ELSE 0 ]

FinishNode(s, n) == [ s EXCEPT !.ns[n] = "completed", !.path = Push(@, n) ]

RetryNode(s, n) == [ s EXCEPT !.ns[n] = "error", !.retry[n] = @ + 1 ]

ErrorExitNode(s, n) == [ s EXCEPT !.ns[n] = "error", !.path = Push(@, n) ]

\* What resumeSopFromPause writes of the ruling before it routes.
RuleNode(s, r) ==
  [ s EXCEPT !.dec[r.node] = r.decision, !.ns[r.node] = "completed",
             !.path = PushIfAbsent(@, r.node) ]

\* The node states of a resumed tool node: pushed only if absent.
FinishResumed(s, n) == [ s EXCEPT !.ns[n] = "completed", !.path = PushIfAbsent(@, n) ]

-------------------------------------------------------------------------------
(* Exits as the engine evaluates them for a result.                        *)

Holds(exits, out) == { i \in DOMAIN exits : exits[i].cond = out }

\* The target of the exit taken for result out; no exit and a null target
\* are the same to every caller.
TargetOf(def, n, out) ==
  LET i == EvaluateExits(def.exits[n], Holds(def.exits[n], out))
  IN  IF i = 0 THEN NullTarget ELSE def.exits[n][i].target

ErrorTargetOf(def, n) ==
  LET i == ResolveErrorExit(def.exits[n])
  IN  IF i = 0 THEN NullTarget ELSE def.exits[n][i].target

\* An undefined field is dropped when the snapshot is stored.
AsNode(target) == IF FalsyTarget(target) THEN NoNode ELSE target

\* processNodeTimeout's test for an exit to take.
HasTimeoutExit(def, n) ==
  \E i \in DOMAIN def.exits[n] :
    /\ def.exits[n][i].cond \in Decision
    /\ def.exits[n][i].target # NullTarget

\* What executeNode may return as output for a node, given the snapshot.
Outputs(def, n, s) ==
  CASE def.kind[n] \in { "digital_employee", "switch" } -> Value
    [] def.kind[n] = "human_confirm"                    -> PreviousDecision(s)
    [] OTHER                                            -> {}

\* executeNode's system errors, which the engine retries, come from a digital
\* employee; its business errors also from a switch that asks the LLM of the
\* digital employee that ran last.
MayFail(def, n) == def.kind[n] = "digital_employee"
MayFailForGood(def, n, s) ==
  \/ MayFail(def, n)
  \/ /\ def.kind[n] = "switch" /\ s.path # << >>
     /\ s.path[Len(s.path)] \in def.nodes /\ MayFail(def, s.path[Len(s.path)])

DigitalOnPath(def, s) ==
  { n \in def.nodes : def.kind[n] = "digital_employee" /\ OnPath(s.path, n) }

-------------------------------------------------------------------------------
(* Threads.                                                                *)

Ruling == [ pause : PauseId, node : Node, decision : Decision ]
NoRuling == [ pause |-> 0, node |-> NoNode, decision |-> NoDecision ]
RulingOf(p, d) == [ pause |-> p, node |-> pauses[p].node, decision |-> d ]

\* The places a thread can be at, by the function that is running.
InExecuteSop == { "load", "loop", "execute", "arm", "dispatch", "suspend",
                  "save", "guard", "complete" }
InResume == { "resume", "reject", "retake", "resumeSave", "route" }
InToolResume == { "count", "wake", "wakeCas", "redo" }
InTimeout == { "timeoutRead", "timeoutEnd" }
InCancel == { "cancel" }
Place == { "idle" } \cup InExecuteSop \cup InResume \cup InToolResume
           \cup InTimeout \cup InCancel

\* mode tells in which function executeNode was called: "loop" executeSop,
\* "wake" resumeSopFromAsyncTool.
ThreadState ==
  [ pc : Place, mode : { "loop", "wake" }, ver : DOMAIN Definitions,
    mem : Snapshot, at : Node \cup { NoNode }, ruling : Ruling \cup { NoRuling },
    seen : Status, counted : Nat, task : 0 .. MaxTasks, pause : 0 .. MaxPauses ]

Idle ==
  [ pc |-> "idle", mode |-> "loop", ver |-> 1, mem |-> BlankSnapshot(NoNode),
    at |-> NoNode, ruling |-> NoRuling, seen |-> "pending", counted |-> 0,
    task |-> 0, pause |-> 0 ]

At(t, place) == th[t].pc = place
Become(t, local) == th' = [ th EXCEPT ![t] = local ]
Goto(t, place) == th' = [ th EXCEPT ![t].pc = place ]
Finish(t) == Become(t, Idle)
DefOf(t) == Definitions[th[t].ver]

\* transitionStatus; a successful UPDATE also sets updated_at.
Transition(from, to) ==
  /\ status' = AfterTransition(status, from, to)
  /\ stale' = (stale /\ ~Transits(status, from, to))

\* persistSnapshot: unconditional, by id.
Persist(s) == snap' = s /\ stale' = FALSE

Init ==
  /\ status = "pending" /\ snap = BlankSnapshot(NoNode) /\ rejections = 0
  /\ version = 1
  /\ pauses = << >> /\ jobs = {} /\ sopJob = Definitions[1].sopTimeout
  /\ pending = [ k \in TaskId |-> 0 ] /\ tasks = 0 /\ calls = 0
  /\ late = FALSE /\ stale = FALSE /\ meta = "none" /\ triggered = "no"
  /\ used = [ crashes |-> 0, recoveries |-> 0, faults |-> 0, cancels |-> 0 ]
  /\ th = [ t \in Thread |-> Idle ] /\ applied = {}

\* The groups of variables most actions leave alone.
row == << status, snap, rejections >>
approvals == << pauses, jobs, applied >>
tools == << pending, tasks, calls >>
surroundings == << version, sopJob, late, triggered, used >>

-------------------------------------------------------------------------------
(* Starting an execution.                                                  *)

\* The trigger's row is in place; pending -> running, then executeSop.
Start(t) ==
  /\ At(t, "idle") /\ triggered = "no" /\ status = "pending"
  /\ Transition("pending", "running")
  /\ triggered' = "started"
  /\ Become(t, [ Idle EXCEPT !.pc = "load" ])
  /\ UNCHANGED << snap, rejections, approvals, tools, version, sopJob, late, meta, used >>

\* A cancel came first. Every trigger but the scheduled-tasks route gives up.
StartRefused(t) ==
  /\ At(t, "idle") /\ triggered = "no" /\ status # "pending"
  /\ triggered' = "refused"
  /\ IF ScheduledTrigger THEN Become(t, [ Idle EXCEPT !.pc = "load" ]) ELSE th' = th
  /\ UNCHANGED << row, approvals, tools, version, sopJob, late, stale, meta, used >>

-------------------------------------------------------------------------------
(* executeSop.                                                             *)

\* Load row and definition; a row without currentNodeId starts afresh.  The
\* row's status is not looked at.
Load(t) ==
  LET s == StartSnapshot(snap, Definitions[version]) IN
  /\ At(t, "load")
  /\ s.cur # NoNode
  /\ Become(t, [ Idle EXCEPT !.pc = "loop", !.ver = version, !.mem = s, !.at = s.cur ])
  /\ meta' = "active"
  /\ UNCHANGED << row, approvals, tools, surroundings, stale >>

LoadWithoutStartNode(t) ==
  /\ At(t, "load")
  /\ StartSnapshot(snap, Definitions[version]).cur = NoNode
  /\ Transition("running", "error")
  /\ Finish(t)
  /\ UNCHANGED << snap, rejections, approvals, tools, surroundings, meta >>

TimedOut(t) == late /\ DefOf(t).sopTimeout

\* The time limit, found at the head of the loop or on a node's error.
LimitReached(t) ==
  /\ TimedOut(t)
  /\ \/ At(t, "loop")
     \/ /\ th[t].pc \in { "execute", "dispatch" } /\ th[t].mode = "loop"
        /\ MayFailForGood(DefOf(t), th[t].at, th[t].mem)
  /\ Transition("running", "timed_out")
  /\ meta' = "timed_out"
  /\ Finish(t)
  /\ UNCHANGED << snap, rejections, approvals, tools, surroundings >>

NodeMissing(t) ==
  /\ At(t, "loop") /\ ~TimedOut(t)
  /\ th[t].at \notin DefOf(t).nodes
  /\ Transition("running", "error")
  /\ Finish(t)
  /\ UNCHANGED << snap, rejections, approvals, tools, surroundings, meta >>

AtNode(t) == At(t, "loop") /\ ~TimedOut(t) /\ th[t].at \in DefOf(t).nodes

\* The approval gate rejects what precedes a human_employee node and names
\* a digital employee at fault: its error exit is taken instead ...
GateReroute(t) ==
  /\ AtNode(t) /\ DefOf(t).kind[th[t].at] = "human_employee"
  /\ \E faulty \in DigitalOnPath(DefOf(t), th[t].mem) :
       LET target == ErrorTargetOf(DefOf(t), faulty)
           s == [ th[t].mem EXCEPT !.cur = th[t].at, !.ns[faulty] = "error" ]
       IN  /\ ~FalsyTarget(target)
           /\ Persist(s)
           /\ th' = [ th EXCEPT ![t].mem = s, ![t].at = target ]
  /\ UNCHANGED << status, rejections, approvals, tools, surroundings, meta >>

\* ... or, without one, the execution ends in error.
GateTerminate(t) ==
  /\ AtNode(t) /\ DefOf(t).kind[th[t].at] = "human_employee"
  /\ \E faulty \in DigitalOnPath(DefOf(t), th[t].mem) :
       FalsyTarget(ErrorTargetOf(DefOf(t), faulty))
  /\ Transition("running", "error")
  /\ Finish(t)
  /\ UNCHANGED << snap, rejections, approvals, tools, surroundings, meta >>

\* The gate, if any, passes: record that the node runs and execute it.
Enter(t) ==
  LET s == EnterNode(th[t].mem, th[t].at) IN
  /\ AtNode(t)
  /\ Persist(s)
  /\ th' = [ th EXCEPT ![t].mem = s, ![t].pc = "execute" ]
  /\ UNCHANGED << status, rejections, approvals, tools, surroundings, meta >>

\* The node's result, with executeHumanConfirmNode's note of the decision.
Decided(t, out) ==
  IF DefOf(t).kind[th[t].at] = "human_confirm"
  THEN [ th[t].mem EXCEPT !.dec[th[t].at] = out ] ELSE th[t].mem

\* The node finishes: record it, choose the exit, go on or complete.
NodeDone(t) ==
  /\ At(t, "execute")
  /\ \E out \in Outputs(DefOf(t), th[t].at, th[t].mem) :
       LET target == TargetOf(DefOf(t), th[t].at, out)
           s == FinishNode(Decided(t, out), th[t].at)
       IN  /\ Persist(s)
           /\ IF FalsyTarget(target)
              THEN th' = [ th EXCEPT ![t].mem = s, ![t].pc = "complete" ]
              ELSE th' = [ th EXCEPT ![t].mem = s, ![t].pc = "loop", ![t].at = target ]
  /\ UNCHANGED << status, rejections, approvals, tools, surroundings, meta >>

Complete(t) ==
  /\ At(t, "complete")
  /\ Transition("running", "completed")
  /\ meta' = IF th[t].mode = "loop" THEN "complete" ELSE meta
  /\ Finish(t)
  /\ UNCHANGED << snap, rejections, approvals, tools, surroundings >>

\* A node executing in the loop, or failing while it dispatches its tools.
Executing(t) == th[t].pc \in { "execute", "dispatch" } /\ th[t].mode = "loop"

\* Mutant: off by one.
RetriesLeftAtLimit(t) == th[t].mem.retry[th[t].at] <= DefOf(t).maxRetries

RetriesLeft(t) == th[t].mem.retry[th[t].at] < DefOf(t).maxRetries

\* A system error with retries left: same node again.
NodeRetry(t) ==
  LET n == th[t].at
      s == RetryNode(th[t].mem, n)
  IN  /\ Executing(t) /\ ~TimedOut(t) /\ MayFail(DefOf(t), n) /\ RetriesLeft(t)
      /\ Persist(s)
      /\ th' = [ th EXCEPT ![t].mem = s, ![t].pc = "loop", ![t].task = 0 ]
      /\ UNCHANGED << status, rejections, approvals, tools, surroundings, meta >>

\* A business error, or retries exhausted: the error exit, if connected ...
NodeErrorExit(t) ==
  LET n == th[t].at
      s == ErrorExitNode(th[t].mem, n)
      target == ErrorTargetOf(DefOf(t), n)
  IN  /\ Executing(t) /\ ~TimedOut(t) /\ MayFailForGood(DefOf(t), n, th[t].mem)
      /\ ~FalsyTarget(target)
      /\ Persist(s)
      /\ th' = [ th EXCEPT ![t].mem = s, ![t].pc = "loop", ![t].at = target, ![t].task = 0 ]
      /\ UNCHANGED << status, rejections, approvals, tools, surroundings, meta >>

\* ... or the end of the execution.
NodeFatal(t) ==
  /\ Executing(t) /\ ~TimedOut(t) /\ MayFailForGood(DefOf(t), th[t].at, th[t].mem)
  /\ FalsyTarget(ErrorTargetOf(DefOf(t), th[t].at))
  /\ Transition("running", "error")
  /\ Finish(t)
  /\ UNCHANGED << snap, rejections, approvals, tools, surroundings, meta >>

\* executeHumanEmployeeNode inserts the pause row ...
AskHuman(t) ==
  LET n == th[t].at IN
  /\ th[t].pc \in { "execute", "redo" } /\ n \in DefOf(t).nodes
  /\ DefOf(t).kind[n] = "human_employee"
  /\ Len(pauses) < MaxPauses
  /\ pauses' = Append(pauses, [ node |-> n, st |-> "waiting", decision |-> NoDecision,
                                expires |-> DefOf(t).nodeTimeout[n] ])
  /\ th' = [ th EXCEPT ![t].pause = Len(pauses) + 1, ![t].task = 0,
                       ![t].pc = IF DefOf(t).nodeTimeout[n] THEN "arm" ELSE "suspend" ]
  /\ UNCHANGED << row, jobs, applied, tools, surroundings, stale, meta >>

\* ... then the job for its timeout.
Arm(t) ==
  /\ At(t, "arm")
  /\ jobs' = jobs \cup { th[t].pause }
  /\ th' = [ th EXCEPT ![t].pc = "suspend", ![t].pause = 0 ]
  /\ UNCHANGED << row, pauses, applied, tools, surroundings, stale, meta >>

\* The node's tool loop dispatches one more call of the round: a pending
\* work_log row. The first one of a fresh execution creates its task.
Dispatch(t) ==
  LET n == th[t].at
      k == IF At(t, "execute") THEN tasks + 1 ELSE th[t].task
  IN  /\ th[t].pc \in { "execute", "redo", "dispatch" } /\ n \in DefOf(t).nodes
      /\ DefOf(t).kind[n] = "digital_employee" /\ DefOf(t).asyncTools[n]
      /\ k \in TaskId /\ calls < MaxCalls
      /\ tasks' = IF At(t, "execute") THEN k ELSE tasks
      /\ calls' = calls + 1
      /\ pending' = [ pending EXCEPT ![k] = @ + 1 ]
      /\ th' = [ th EXCEPT ![t].pc = "dispatch", ![t].task = k ]
      /\ UNCHANGED << row, approvals, surroundings, stale, meta >>

\* The launch of a call in its pod fails: its row is failed on the spot, and
\* nobody is woken.
DispatchFailed(t) ==
  /\ At(t, "dispatch") /\ pending[th[t].task] > 0
  /\ pending' = [ pending EXCEPT ![th[t].task] = @ - 1 ]
  /\ UNCHANGED << row, approvals, tasks, calls, surroundings, stale, meta, th >>

\* executeNode returned paused: running -> paused_for_{human,tool} ...
Suspend(t) ==
  /\ th[t].pc \in { "suspend", "dispatch" }
  /\ Transition("running",
                IF At(t, "dispatch") THEN "paused_for_tool" ELSE "paused_for_human")
  /\ Goto(t, "save")
  /\ UNCHANGED << snap, rejections, approvals, tools, surroundings, meta >>

\* ... and only then the snapshot.
Save(t) ==
  /\ At(t, "save")
  /\ Persist(th[t].mem)
  /\ IF th[t].task # 0 THEN Goto(t, "guard") ELSE Finish(t)
  /\ UNCHANGED << status, rejections, approvals, tools, surroundings, meta >>

\* Mutant: no race guard.
GuardNothing(t) ==
  /\ At(t, "guard")
  /\ Finish(t)
  /\ UNCHANGED << row, approvals, tools, surroundings, stale, meta >>

\* resumeIfToolsAlreadySettled.
Guard(t) ==
  /\ At(t, "guard")
  /\ IF pending[th[t].task] = 0
     THEN Become(t, [ Idle EXCEPT !.pc = "wake", !.task = th[t].task ])
     ELSE Finish(t)
  /\ UNCHANGED << row, approvals, tools, surroundings, stale, meta >>

\* Something in the loop throws: the catch clause.
Throw(t) ==
  /\ th[t].pc \in InExecuteSop \ { "load" } /\ th[t].mode = "loop"
  /\ used.faults < MaxFaults
  /\ used' = [ used EXCEPT !.faults = @ + 1 ]
  /\ Transition("running", "error")
  /\ meta' = "error"
  /\ Finish(t)
  /\ UNCHANGED << snap, rejections, approvals, tools, version, sopJob, late, triggered >>

-------------------------------------------------------------------------------
(* Approvals: the decide routes and resumeSopFromPause.                    *)

\* Mutant: no First-Wins, a pause can be decided again.
DecidableAgain(p) == pauses[p].st \in { "waiting", "decided" }

Decidable(p) == pauses[p].st = "waiting"

\* First-Wins: only a waiting pause can be decided.  The handler drops the
\* timeout job and resumes in the background.
Decide(t) ==
  /\ At(t, "idle")
  /\ \E p \in DOMAIN pauses, d \in { "approved", "rejected" } :
       /\ Decidable(p)
       /\ pauses' = [ pauses EXCEPT ![p].st = "decided", ![p].decision = d ]
       /\ jobs' = jobs \ { p }
       /\ Become(t, [ Idle EXCEPT !.pc = "resume", !.ruling = RulingOf(p, d) ])
  /\ UNCHANGED << row, applied, tools, surroundings, stale, meta >>

\* Mutant: every decision counts as one.
CountsAnyDecision(r) == r.decision \in Decision

CountsAsRejection(r) == r.decision = "rejected"

\* Load the row and write the ruling into the snapshot, in memory.
ResumeLoad(t) ==
  LET r == th[t].ruling IN
  /\ At(t, "resume")
  /\ th' = [ th EXCEPT ![t].mem = RuleNode(snap, r), ![t].counted = rejections,
                       ![t].pc = IF CountsAsRejection(r) THEN "reject" ELSE "retake" ]
  /\ UNCHANGED << row, approvals, tools, surroundings, stale, meta >>

\* Mutant: off by one.
OneMoreThanTooMany(t) == th[t].counted + 1 > Definitions[version].maxRejections

\* The definition is read again, and with it the limit of this moment.
OneTooMany(t) == th[t].counted + 1 >= Definitions[version].maxRejections

\* One rejection too many: failed, and the count in the same UPDATE.
RejectLimit(t) ==
  /\ At(t, "reject") /\ OneTooMany(t)
  /\ Transition("paused_for_human", "failed")
  /\ rejections' = IF Transits(status, "paused_for_human", "failed")
                   THEN th[t].counted + 1 ELSE rejections
  /\ Finish(t)
  /\ UNCHANGED << snap, approvals, tools, surroundings, meta >>

\* The count of an allowed rejection is written before the status is won.
CountRejection(t) ==
  /\ At(t, "reject") /\ ~OneTooMany(t)
  /\ rejections' = th[t].counted + 1
  /\ Goto(t, "retake")
  /\ UNCHANGED << status, snap, approvals, tools, surroundings, stale, meta >>

\* paused_for_human -> running; who does not get it gives up for good.
Retake(t) ==
  /\ At(t, "retake")
  /\ Transition("paused_for_human", "running")
  /\ IF Transits(status, "paused_for_human", "running")
     THEN Goto(t, "resumeSave") /\ applied' = applied \cup { th[t].ruling.pause }
     ELSE Finish(t) /\ UNCHANGED applied
  /\ UNCHANGED << snap, rejections, pauses, jobs, tools, surroundings, meta >>

ResumeSave(t) ==
  /\ At(t, "resumeSave")
  /\ Persist(th[t].mem)
  /\ Goto(t, "route")
  /\ UNCHANGED << status, rejections, approvals, tools, surroundings, meta >>

\* The definition as it is now: the node is gone, the exit is an endpoint
\* (null, not undefined), or the next node is executed by executeSop.
Route(t) ==
  LET def == Definitions[version]
      r == th[t].ruling
      target == TargetOf(def, r.node, r.decision)
      s == [ th[t].mem EXCEPT !.cur = AsNode(target) ]
  IN  /\ At(t, "route")
      /\ \/ /\ r.node \notin def.nodes
            /\ Finish(t)
            /\ UNCHANGED << status, stale, snap >>
         \/ /\ r.node \in def.nodes /\ target = NullTarget
            /\ Transition("running", "completed")
            /\ Finish(t)
            /\ UNCHANGED snap
         \/ /\ r.node \in def.nodes /\ target # NullTarget
            /\ Persist(s)
            /\ Become(t, [ Idle EXCEPT !.pc = "load" ])
            /\ UNCHANGED status
      /\ UNCHANGED << rejections, approvals, tools, surroundings, meta >>
-------------------------------------------------------------------------------
(* Async tools: the callback of a call and resumeSopFromAsyncTool.         *)

\* One pending call ends, by its callback or by the watchdog.
ToolCallback(t) ==
  /\ At(t, "idle")
  /\ \E k \in TaskId :
       /\ pending[k] > 0
       /\ pending' = [ pending EXCEPT ![k] = @ - 1 ]
       /\ Become(t, [ Idle EXCEPT !.pc = "count", !.task = k ])
  /\ UNCHANGED << row, approvals, tasks, calls, surroundings, stale, meta >>

\* The handler then counts what is left of the call's task.
Count(t) ==
  /\ At(t, "count")
  /\ IF pending[th[t].task] = 0 THEN Goto(t, "wake") ELSE Finish(t)
  /\ UNCHANGED << row, approvals, tools, surroundings, stale, meta >>

\* The snapshot is read before the status is won.
WakeLoad(t) ==
  /\ At(t, "wake")
  /\ IF snap.cur = NoNode
     THEN Finish(t)
     ELSE th' = [ th EXCEPT ![t].pc = "wakeCas", ![t].mem = snap, ![t].at = snap.cur ]
  /\ UNCHANGED << row, approvals, tools, surroundings, stale, meta >>

Woken(t) == /\ Transits(status, "paused_for_tool", "running")
            /\ th[t].at \in Definitions[version].nodes

\* First-Wins: paused_for_tool -> running.  A node the current definition
\* lost ends the handler with the row left running.
WakeCas(t) ==
  /\ At(t, "wakeCas")
  /\ Transition("paused_for_tool", "running")
  /\ IF Woken(t)
     THEN th' = [ th EXCEPT ![t].pc = "redo", ![t].mode = "wake", ![t].ver = version ]
     ELSE Finish(t)
  /\ UNCHANGED << snap, rejections, approvals, tools, surroundings, meta >>

\* The node, executed again from its work logs, finishes.
RedoDone(t) ==
  /\ At(t, "redo")
  /\ \E out \in Outputs(DefOf(t), th[t].at, th[t].mem) :
       LET target == TargetOf(DefOf(t), th[t].at, out)
           s == FinishResumed(Decided(t, out), th[t].at)
       IN  IF target = NullTarget
           THEN /\ Persist(s)
                /\ th' = [ th EXCEPT ![t].mem = s, ![t].pc = "complete" ]
           ELSE /\ Persist([ s EXCEPT !.cur = AsNode(target) ])
                /\ Become(t, [ Idle EXCEPT !.pc = "load" ])
  /\ UNCHANGED << status, rejections, approvals, tools, surroundings, meta >>

\* The node fails: no retry and no error exit here.
RedoFail(t) ==
  /\ th[t].pc \in { "redo", "dispatch" } /\ th[t].mode = "wake"
  /\ MayFailForGood(DefOf(t), th[t].at, th[t].mem)
  /\ Transition("running", "error")
  /\ Finish(t)
  /\ UNCHANGED << snap, rejections, approvals, tools, surroundings, meta >>

-------------------------------------------------------------------------------
(* Timeouts: workers/timeout-worker.ts.                                    *)

\* Mutant: silence is consent.
ApprovedByTimeout == "approved"

TimeoutDecision == "timeout"

\* Mutant: the job does not look whether the pause still waits.
TakeTimeoutAnyway(t, p) ==
  /\ pauses' = [ pauses EXCEPT ![p].st = "timeout", ![p].decision = TimeoutDecision ]
  /\ Become(t, [ Idle EXCEPT !.pc = "timeoutRead", !.ruling = RulingOf(p, TimeoutDecision) ])

\* A node job fires: it takes the pause if still waiting, else does nothing.
TakeTimeout(t, p) ==
  IF pauses[p].st = "waiting"
  THEN /\ pauses' = [ pauses EXCEPT ![p].st = "timeout", ![p].decision = TimeoutDecision ]
       /\ Become(t, [ Idle EXCEPT !.pc = "timeoutRead",
                                  !.ruling = RulingOf(p, TimeoutDecision) ])
  ELSE UNCHANGED << pauses, th >>

NodeTimeout(t) ==
  /\ At(t, "idle")
  /\ \E p \in jobs : TakeTimeout(t, p) /\ jobs' = jobs \ { p }
  /\ UNCHANGED << row, applied, tools, surroundings, stale, meta >>

\* Row and definition are read: resume along a timeout exit, or time out.
TimeoutRead(t) ==
  LET def == Definitions[version]
      n == th[t].ruling.node
  IN  /\ At(t, "timeoutRead")
      /\ IF n \in def.nodes /\ HasTimeoutExit(def, n)
         THEN Goto(t, "resume")
         ELSE Become(t, [ Idle EXCEPT !.pc = "timeoutEnd", !.seen = status ])
      /\ UNCHANGED << row, approvals, tools, surroundings, stale, meta >>

\* Mutant: the status it started from is taken for granted.
TimeoutEndWhileRunning(t) ==
  /\ At(t, "timeoutEnd")
  /\ Transition("running", "timed_out")
  /\ Finish(t)
  /\ UNCHANGED << snap, rejections, approvals, tools, surroundings, meta >>

TimeoutEnd(t) ==
  /\ At(t, "timeoutEnd")
  /\ Transition(th[t].seen, "timed_out")
  /\ Finish(t)
  /\ UNCHANGED << snap, rejections, approvals, tools, surroundings, meta >>

\* The SOP-level job.
SopTimeout(t) ==
  /\ At(t, "idle") /\ late /\ sopJob
  /\ sopJob' = FALSE
  /\ IF status \in SopTerminalStatuses
     THEN th' = th
     ELSE Become(t, [ Idle EXCEPT !.pc = "timeoutEnd", !.seen = status ])
  /\ UNCHANGED << row, approvals, tools, version, late, triggered, used, stale, meta >>

-------------------------------------------------------------------------------
(* cancelSopExecution.                                                     *)

CancelRead(t) ==
  /\ At(t, "idle") /\ used.cancels < MaxCancels
  /\ used' = [ used EXCEPT !.cancels = @ + 1 ]
  /\ status \notin SopTerminalStatuses
  /\ Become(t, [ Idle EXCEPT !.pc = "cancel", !.seen = status ])
  /\ UNCHANGED << row, approvals, tools, version, sopJob, late, triggered, stale, meta >>

\* The jobs of the waiting pauses are dropped, the pauses stay waiting.
Cancel(t) ==
  /\ At(t, "cancel")
  /\ Transition(th[t].seen, "cancelled")
  /\ Finish(t)
  /\ IF Transits(status, th[t].seen, "cancelled")
     THEN /\ jobs' = { p \in jobs : pauses[p].st # "waiting" }
          /\ meta' = "cancelled"
     ELSE UNCHANGED << jobs, meta >>
  /\ UNCHANGED << snap, rejections, pauses, applied, tools, surroundings >>

-------------------------------------------------------------------------------
(* Cold recovery of a stale row: doRecoverSopInstances.                    *)

\* Mutant: fresh rows are recovered too.
RecoversFresh(t) ==
  /\ At(t, "idle") /\ used.recoveries < MaxRecoveries
  /\ used' = [ used EXCEPT !.recoveries = @ + 1 ]

Recovers(t) ==
  /\ At(t, "idle") /\ stale /\ used.recoveries < MaxRecoveries
  /\ used' = [ used EXCEPT !.recoveries = @ + 1 ]

PausesIn(st) == { p \in DOMAIN pauses : pauses[p].st = st }

RecoverRunning(t) ==
  /\ Recovers(t) /\ status = "running"
  /\ Become(t, [ Idle EXCEPT !.pc = "load" ])
  /\ UNCHANGED << row, approvals, tools, version, sopJob, late, triggered, stale, meta >>

\* A waiting pause with a limit: its job is queued again, or, when it has
\* expired, handled at once.
RecoverWaiting(t) ==
  /\ Recovers(t) /\ status = "paused_for_human"
  /\ \E p \in PausesIn("waiting") :
       /\ pauses[p].expires
       /\ \/ jobs' = jobs \cup { p } /\ UNCHANGED << pauses, th >>
          \/ TakeTimeout(t, p) /\ UNCHANGED jobs
  /\ UNCHANGED << row, applied, tools, version, sopJob, late, triggered, stale, meta >>

\* Mutant: whatever ended the wait is taken for an approval.
RecoverAnyAsApproved(t) ==
  /\ Recovers(t) /\ status = "paused_for_human" /\ PausesIn("waiting") = {}
  /\ \E p \in DOMAIN pauses :
       Become(t, [ Idle EXCEPT !.pc = "resume", !.ruling = RulingOf(p, "approved") ])
  /\ UNCHANGED << row, approvals, tools, version, sopJob, late, triggered, stale, meta >>

\* No pause waits: resume with a decided one, whichever the query returns.
RecoverDecided(t) ==
  /\ Recovers(t) /\ status = "paused_for_human" /\ PausesIn("waiting") = {}
  /\ \E p \in PausesIn("decided") :
       Become(t, [ Idle EXCEPT !.pc = "resume", !.ruling = RulingOf(p, pauses[p].decision) ])
  /\ UNCHANGED << row, approvals, tools, version, sopJob, late, triggered, stale, meta >>

\* Neither waiting nor decided: failed.
RecoverLost(t) ==
  /\ Recovers(t) /\ status = "paused_for_human"
  /\ PausesIn("waiting") = {} /\ PausesIn("decided") = {}
  /\ Transition("paused_for_human", "failed")
  /\ UNCHANGED << snap, rejections, approvals, tools, version, sopJob, late, triggered,
                  meta, th >>

\* An errored row: timed out, executed again (the row stays in error), or
\* failed.  The column retry_count is never written, so it is 0.
RecoverError(t) ==
  LET def == Definitions[version]
      over == late /\ def.sopTimeout
  IN  /\ Recovers(t) /\ status = "error"
      /\ \/ /\ over
            /\ Transition("error", "timed_out") /\ th' = th
         \/ /\ ~over /\ 0 < def.maxRetries
            /\ Become(t, [ Idle EXCEPT !.pc = "load" ])
            /\ UNCHANGED << status, stale >>
         \/ /\ ~over /\ 0 >= def.maxRetries
            /\ Transition("error", "failed") /\ th' = th
      /\ UNCHANGED << snap, rejections, approvals, tools, version, sopJob, late,
                      triggered, meta >>

-------------------------------------------------------------------------------
(* The surroundings: time, edits of the definition, crashes of a replica.  *)

LimitPasses ==
  /\ triggered = "started" /\ ~late
  /\ \E v \in DOMAIN Definitions : Definitions[v].sopTimeout
  /\ late' = TRUE
  /\ UNCHANGED << row, approvals, tools, version, sopJob, triggered, used, stale, meta, th >>

RowAges ==
  /\ ~stale /\ status \in { "running", "paused_for_human", "error" }
  /\ SlowNodes \/ \A t \in Thread : At(t, "idle")
  /\ used.recoveries < MaxRecoveries
  /\ stale' = TRUE
  /\ UNCHANGED << row, approvals, tools, surroundings, meta, th >>

EditDefinition ==
  /\ version < Len(Definitions)
  /\ version' = version + 1
  /\ UNCHANGED << row, approvals, tools, sopJob, late, triggered, used, stale, meta, th >>

Crash(t) ==
  /\ ~At(t, "idle") /\ used.crashes < MaxCrashes
  /\ used' = [ used EXCEPT !.crashes = @ + 1 ]
  /\ Finish(t)
  /\ UNCHANGED << row, approvals, tools, version, sopJob, late, triggered, stale, meta >>

\* The steps a live thread takes by itself.
Proceed(t) ==
  \/ Load(t) \/ LoadWithoutStartNode(t)
  \/ LimitReached(t) \/ NodeMissing(t) \/ GateReroute(t) \/ GateTerminate(t)
  \/ Enter(t) \/ NodeDone(t) \/ Complete(t)
  \/ NodeRetry(t) \/ NodeErrorExit(t) \/ NodeFatal(t)
  \/ AskHuman(t) \/ Arm(t) \/ Dispatch(t) \/ DispatchFailed(t)
  \/ Suspend(t) \/ Save(t) \/ Guard(t)
  \/ ResumeLoad(t) \/ RejectLimit(t) \/ CountRejection(t) \/ Retake(t)
  \/ ResumeSave(t) \/ Route(t)
  \/ Count(t) \/ WakeLoad(t) \/ WakeCas(t) \/ RedoDone(t) \/ RedoFail(t)
  \/ TimeoutRead(t) \/ TimeoutEnd(t) \/ Cancel(t)

Recover(t) ==
  \/ RecoverRunning(t) \/ RecoverWaiting(t) \/ RecoverDecided(t)
  \/ RecoverLost(t) \/ RecoverError(t)

Next ==
  \/ \E t \in Thread :
       \/ Start(t) \/ StartRefused(t) \/ Proceed(t) \/ Throw(t) \/ Decide(t)
       \/ ToolCallback(t) \/ NodeTimeout(t) \/ SopTimeout(t) \/ CancelRead(t)
       \/ Recover(t) \/ Crash(t)
  \/ LimitPasses \/ RowAges \/ EditDefinition

Spec == Init /\ [][Next]_vars
\* Fairness: every await returns, and BullMQ fires the jobs it holds; a tool
\* call always ends because the watchdog fails the ones nobody answers.
FairSpec ==
  /\ Spec
  /\ WF_vars(\E t \in Thread : Start(t))
  /\ \A t \in Thread : WF_vars(Proceed(t))
  /\ WF_vars(\E t \in Thread : ToolCallback(t))
  /\ WF_vars(\E t \in Thread : NodeTimeout(t))

-------------------------------------------------------------------------------
(* Properties.                                                             *)

Pause == { p \in [ node : Node, st : { "waiting", "decided", "timeout" },
                   decision : Decision \cup { NoDecision }, expires : BOOLEAN ] :
             p.st = "waiting" <=> p.decision = NoDecision }

\* The locals a handler relies on at the place where it is.
AtANode(t) ==
  th[t].pc \in { "loop", "execute", "dispatch", "redo", "wakeCas" } => th[t].at \in Node
HasRuling(t) == th[t].pc \in InResume \cup { "timeoutRead" } => th[t].ruling \in Ruling
HasPause(t) == At(t, "arm") => th[t].pause \in DOMAIN pauses
HasTask(t) == th[t].pc \in { "dispatch", "guard", "count" } => th[t].task \in TaskId

\* Every variable has its type, and so has every local a handler's next step
\* reads: no handler goes on with a node, a ruling, a pause or a task it never had.
TypeOK ==
  /\ status \in Status
  /\ snap \in Snapshot
  /\ rejections \in Nat
  /\ version \in DOMAIN Definitions
  /\ pauses \in Seq(Pause) /\ Len(pauses) <= MaxPauses
  /\ jobs \subseteq DOMAIN pauses
  /\ sopJob \in BOOLEAN
  /\ pending \in [ TaskId -> Nat ]
  /\ tasks \in 0 .. MaxTasks /\ calls \in Nat
  /\ late \in BOOLEAN /\ stale \in BOOLEAN
  /\ meta \in { "none", "active", "timed_out", "complete", "error", "cancelled" }
  /\ triggered \in { "no", "started", "refused" }
  /\ used \in [ crashes : Nat, recoveries : Nat, faults : Nat, cancels : Nat ]
  /\ th \in [ Thread -> ThreadState ]
  /\ applied \subseteq PauseId
  /\ \A t \in Thread : AtANode(t) /\ HasRuling(t) /\ HasPause(t) /\ HasTask(t)

\* The engine implements the life cycle: whatever handlers interleave, the
\* status only follows edges of VALID_TRANSITIONS.
Lifecycle == INSTANCE SopLifecycle
ImplementsLifecycle == Lifecycle!Spec

\* The ruling a handler goes on with is the one its pause row holds, node and
\* decision, from the moment it is taken to the edge it is routed along.
HoldsRuling(r) == /\ r.pause \in DOMAIN pauses /\ pauses[r.pause].st # "waiting"
                  /\ pauses[r.pause].node = r.node
                  /\ pauses[r.pause].decision = r.decision
Heeds(t) == th[t].pc \in InResume \cup { "timeoutRead" }
RulingsRecorded == \A t \in Thread : Heeds(t) => HoldsRuling(th[t].ruling)

\* The pause rows are a ledger of approvals: each is settled once, by whoever
\* comes first, keeps its decision for good, and resumes the execution only in
\* the hands of a handler whose ruling is that decision.
DecisionOf == [ p \in PauseId |-> IF p \in DOMAIN pauses THEN pauses[p].decision
                                                       ELSE NoDecision ]
Heeded == { << th[t].ruling.pause, th[t].ruling.decision >> : t \in { u \in Thread : Heeds(u) } }
Ledger == INSTANCE ApprovalLedger
            WITH Pauses <- PauseId, Decisions <- Decision, Undecided <- NoDecision,
                 opened <- DOMAIN pauses, decision <- DecisionOf, heeded <- Heeded
ImplementsApprovalLedger == Ledger!Spec

\* At most one handler runs nodes of the execution at a time: the compare-and-
\* swap on the status is the only lock the engine has.
RunsNodes(t) == th[t].pc \in (InExecuteSop \ { "save", "guard" })
                               \cup { "resumeSave", "route", "redo" }
OneDriver == \A t, u \in Thread : RunsNodes(t) /\ RunsNodes(u) => t = u

\* An approval or a rejection on which the engine acts, in the row or in the
\* memory of any handler, was really made by an approver: some pause row
\* holds it.  In particular nothing is routed as approved unless someone
\* approved (executeHumanConfirmNode copies decisions from node to node).
Made(d) == \E p \in DOMAIN pauses : pauses[p].st = "decided" /\ pauses[p].decision = d
Backed(s) == \A n \in Node : s.dec[n] \in { "approved", "rejected" } => Made(s.dec[n])
NoForgedDecision ==
  /\ Backed(snap)
  /\ \A t \in Thread : /\ Backed(th[t].mem)
                       /\ th[t].ruling.decision \in { "approved", "rejected" }
                            => Made(th[t].ruling.decision)

\* rejection_count is below the limit in an execution that has not failed, though
\* the count is read and written in separate statements and the limit is edited:
\* below that of some version so far, for one that is edited below the count
\* fails the execution at its next rejection only.
RejectionLimit ==
  rejections > 0 /\ (\A v \in 1 .. version : rejections >= Definitions[v].maxRejections)
    => status = "failed"

\* rejection_count never exceeds the rejections really made, but for a recovery
\* that resumes with a rejection whose own handler has counted it already.
RejectionsMade == Cardinality({ p \in DOMAIN pauses : pauses[p].decision = "rejected" })
RejectionsBacked == rejections <= RejectionsMade + used.recoveries

\* A decision resumes the execution at most once, however often it is sent.
ResumesOnce ==
  [][ \A t \in Thread : At(t, "retake") /\ th'[t].pc = "resumeSave"
        => th[t].ruling.pause \notin applied ]_vars

\* The decision that resumes an execution is the one of the pause it waits
\* at, the last one created, and not of an earlier approval.
ResumesLastPause ==
  [][ \A t \in Thread : At(t, "retake") /\ th'[t].pc = "resumeSave"
        => th[t].ruling.pause = Len(pauses) ]_vars
\* A suspension for tools always ends, whichever of the callback and the
\* suspension comes first: the race guard after the snapshot is saved.
ToolPauseEnds == status = "paused_for_tool" ~> status # "paused_for_tool"

\* An execution that waits for an approval with a time limit, nobody acting on
\* it, goes on in the end: by an answer, or by the timeout job.
Waiting == /\ status = "paused_for_human"
           /\ \A t \in Thread : At(t, "idle")
           /\ jobs # {} /\ \A p \in jobs : pauses[p].st = "waiting"
ApprovalWaitEnds == Waiting ~> status # "paused_for_human"

\* An execution does not stay running for ever: its driver ends or suspends
\* it (unless the bound on pauses stops the model).
RunEnds == status = "running" ~> status # "running" \/ Len(pauses) = MaxPauses

\* async-tool-log.ts: a node's loop resumes only once no pending rows remain
\* for its task.
ResumesWhenSettled ==
  [][ \A t \in Thread : At(t, "wakeCas") /\ th'[t].pc = "redo"
        => pending[th[t].task] = 0 ]_vars

\* resumeSopFromAsyncTool: who sees completed sees the completed snapshot.
CompletedSnapshot == status = "completed" => snap.ns[snap.cur] = "completed"
\* engine.ts: an execution over its time limit is marked as timed_out.
TimedOutIsMarked == meta = "timed_out" => status # "running"

\* node-executor.ts: human_confirm takes the most recent approval decision.
ConfirmsLastDecision ==
  [][ \A t \in Thread :
        /\ At(t, "execute") /\ DefOf(t).kind[th[t].at] = "human_confirm"
        /\ NodeDone(t) /\ pauses # << >>
        => th'[t].mem.dec[th[t].at] = pauses[Len(pauses)].decision ]_vars

\* sop-executions.ts: the first successful decision of a pause takes effect.
TakenEffect(p) == \/ status \in SopTerminalStatuses
                  \/ p \in DOMAIN pauses /\ snap.dec[pauses[p].node] = pauses[p].decision
DecisionTakesEffect ==
  \A p \in PauseId :
    (p \in DOMAIN pauses /\ pauses[p].st = "decided") ~> TakenEffect(p)
===============================================================================
