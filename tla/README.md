# CrewMeld in TLA+

This directory holds the TLA+ models of CrewMeld's core: the engine that runs
SOPs (standard operating procedures, flows of nodes done by digital employees,
people and switches) with its tools, schedules and results; the conversations that
start SOPs; their handoff to people; and the replicas of service tools. The modules
are translated from the TypeScript source; TLC checks them on small instances, and
TLAPS proves the theorems of the `*Proofs` modules for every value of the constants.

    tlc -workers 2 -config SopApproval.cfg MCSopApproval
    tlapm SopEngineProofs.tla

Paths below are relative to `apps/crewmeld/` unless they start with `packages/`.

## 1. Inventory of the system

| Component | State | Operations | Interacts with | Model |
|---|---|---|---|---|
| SOP execution engine, `lib/sop/engine.ts` | `sop_executions` (status, state_snapshot, rejection_count, updated_at), a Redis event stream and its meta status | executeSop, resumeSopFromPause, resumeSopFromAsyncTool, cancelSopExecution, recoverSopInstances, transitionStatus | everything below | `SopStatus`, `SopLifecycle`, `SopEngine` |
| Exit resolver, `lib/sop/exit-resolver.ts` | none | evaluateExits, resolveErrorExit, evaluateCondition | engine, timeout worker | `ExitResolver` (choice of the exit) |
| Node executors and approval gate, `lib/sop/node-executor.ts`, `approval-gate.ts` | pause rows, node tasks, work logs | one executor per node kind; the gate before an approval | engine | actions of `SopEngine` |
| Timeout worker, `lib/sop/workers/timeout-worker.ts` | BullMQ delayed jobs | processNodeTimeout, processSopTimeout | pause rows, engine | `SopEngine` |
| Approval routes, `app/api/employee/sops/pause/**` | `sop_pause_states` | decide, quick-decide (First-Wins) | timeout jobs, engine | `SopEngine`, `ApprovalLedger` |
| SOP triggers: `sops/[id]/execute`, `scheduled-tasks/[id]/execute`, the scheduler, conversations | the new execution row | create, pending -> running, executeSop | engine | `SopEngine` |
| Async tool dispatch, `lib/sop/async-tool-dispatch.ts`, `async-tool-exec-run.ts`, `queue.ts` | exec queue, watchdog jobs, pods | dispatch of a round, launch, failure on the spot | callbacks, engine | `ToolCalls` |
| Async tool callbacks, `lib/sop/async-tool-log.ts`, `tool-callback-handler.ts`, `workers/async-tool-*-worker.ts` | `work_log` rows of a task | first terminal update, count of the pending calls, resume | engine | `ToolCalls`, `CallLedger`; abstracted in `SopEngine` |
| Result delivery, `lib/conversation/sop-bridge.ts`, notifySopResult in `engine.ts`, `sop-completion-notifier.ts` | push_by_engine, the waiting conversation | wait, hand over to the engine, push | engine, channels | `ResultDelivery` |
| Scheduler, `lib/sop/scheduler.ts`, `workers/scheduler-worker.ts`, `app/api/employee/scheduled-tasks/**` | `scheduled_tasks`, repeatable jobs | create, edit, toggle, delete, synchronise at the start, fire | triggers | `Scheduler` |
| Service deployment, `lib/tools/service-deployment-manager.ts`, `deploy-skill.ts`, the service routes | `tool_service_replicas`, the deploy column, sandboxes | reconcile, undeploy, delete | distributed lock, sandbox service | `ServiceReplicas` |
| Distributed lock, `lib/core/config/redis.ts` | a key with an expiry | acquireLock, releaseLock | service deployment | `RedisLock` |
| Channel ingress, `lib/channels/webhook-handler.ts`, `dedup.ts`, `sse-consumer.ts` | dedup keys, `channel_sessions` | drop duplicates, find or open a conversation, consume the stream, answer | conversation engine | `Conversation` |
| Conversation engine, `lib/conversation/engine.ts`, `sop-claim-guard.ts` | the turn, messages, SOP executions it triggers | rounds of model and tools, claim guard, limits on SOPs | SOP triggers, channels | `Conversation` |
| Human handoff, `lib/human-service/`, `app/api/employee/human-service/**` | `human_handoffs` | ask, claim, assign, close, reply | conversations | `Handoff` |
| SOP validator, visibility matcher | none | graph checks, matching | editor, triggers | no: pure functions of one request |
| Rate limiter, `lib/core/rate-limiter/` | token buckets | consume, refill | nothing: only its types are imported | no |
| Editor stores, `stores/operation-queue`, `stores/undo-redo` | queue of operations, undo and redo stacks | enqueue, confirm, retry; undo, redo | nothing that is rendered uses them | no |
| Notifications, dev studio, connectors, models, knowledge, identity, UI, schema | see `PROJECT.json` | prompt assembly, adapters, pages | | no: I/O and adapters with little state of their own |

Hard behaviours. Nothing serialises the handlers that touch one row: an approver's
request, a timeout job, several tool callbacks, a cancel and a recovery run in any
replica and interleave at every `await`. The locks are the `WHERE` clauses of
single updates (`transitionStatus`, the First-Wins updates of pauses and calls),
SET NX for duplicates and one Redis lock; everything else (snapshots, counts,
definitions, handoffs, schedules) is read in one statement and used in a later one.
Jobs may fire late or twice, replicas may crash between two statements, a tool may
answer before the execution is suspended, a channel delivers a message again, a
consumer gives up on a stream whose producer goes on. The list `hazards` of
`PROJECT.json` names the line of each and the properties that watch it.

## 2. Modules

- `SopStatus`: VALID_TRANSITIONS and the compare-and-swap `transitionStatus`.
- `SopLifecycle`: the abstract specification of a status that only follows
  VALID_TRANSITIONS. `SopEngine` implements it (`ImplementsLifecycle`).
- `ApprovalLedger`: the abstract specification of the pause rows: an approval is
  settled once, keeps its decision, and the execution is resumed only by someone who
  holds that decision. `SopEngine` implements it (`ImplementsApprovalLedger`), the
  rulings of its handlers being the decisions that are heeded.
- `ExitResolver`: which exit is taken, given which conditions hold.
- `SopEngine`: one execution and every handler that touches it.
- `ResultDelivery`: who tells the user the result of an SOP that a conversation
  started. The engine is abstracted to the changes of status its runs may make.
- `CallLedger`: the abstract specification of asynchronous tool calls: journaled,
  run at most once, closed once. `ToolCalls` implements it (`ImplementsLedger`).
- `ToolCalls`: dispatch, queue, pods, watchdogs and callbacks of a round of calls,
  over an engine reduced to the driver that dispatches rounds.
- `RedisLock`: acquire, release by the owner, expiry. `ServiceReplicas` uses it.
- `ServiceReplicas`: reconciliation and destruction of a service's replicas.
- `Scheduler`: a scheduled task, its queue entries and what they start.
- `Conversation`: a channel message from its delivery to the answer.
- `Handoff`: a conversation in the hands of support users.
- `MC*`: the sets and definitions of each run; `.cfg` files give the constants.
- `SopEngineProofs`, `SopDecisionProofs`, `ResultDeliveryProofs`, `ToolCallsProofs`,
  `SchedulerProofs`, `ServiceReplicasProofs`, `ConversationProofs`,
  `HandoffProofs`: the theorems.

How they compose. `SopEngine` takes the settling of a tool call for one step: the
first terminal update of a pending row. `ToolCalls` is that step in detail, with
every handler and fault the code has, and implements the ledger, in which a call is
closed once. `Scheduler` and `Conversation` end where an execution row is inserted;
`SopEngine` starts there. `ResultDelivery` starts where the conversation waits for
an SOP and relies on the one driver that `OneDriver` of `SopEngine` provides.

### SopEngine

A thread is one handler invocation: a request, a job, a callback, a recovered row.
It takes one action per database call it awaits, so the interleavings are those of
the code; what it has read is in its locals, stale as it may be.

| State | Code |
|---|---|
| `status`, `snap`, `rejections`, `stale` | columns status, state_snapshot, rejection_count, updated_at (older than the recovery threshold) |
| `pauses` | `sop_pause_states` in insertion order: node, status, decision, whether it expires |
| `jobs`, `sopJob` | the delayed node and SOP timeout jobs |
| `tasks`, `calls`, `pending` | node tasks and, per task, the `work_log` rows still pending |
| `version` | the current version of the definition, read again at each start and resume |
| `late` | the SOP's time limit has passed |
| `meta` | the status that the live stream shows |
| `triggered`, `used`, `applied` | whether the trigger was handled; counters of the bounded events; history of rulings that won the status |
| `th` | per thread: the place, the snapshot in memory, the node, the ruling, what it has read |

| Actions | Code |
|---|---|
| Start, StartRefused | the triggers |
| Load .. NodeFatal, AskHuman, Arm, Dispatch, DispatchFailed, Suspend, Save, Guard, Complete, Throw | executeSop and the node executors |
| Decide | the decide routes |
| ResumeLoad, RejectLimit, CountRejection, Retake, ResumeSave, Route | resumeSopFromPause |
| ToolCallback, Count | applyToolResult / watchdog, afterToolCallTerminal |
| WakeLoad, WakeCas, RedoDone, RedoFail | resumeSopFromAsyncTool |
| NodeTimeout, TimeoutRead, TimeoutEnd, SopTimeout | the timeout worker |
| CancelRead, Cancel | cancelSopExecution |
| Recover* | doRecoverSopInstances |
| LimitPasses, RowAges, EditDefinition, Crash | the surroundings |

Abstractions. A node's output is a value of a small set, as far as exits tell them
apart; an exit's condition is a value that holds for that output. The
executionPath is kept without repetitions, in the order of the last visits: its
readers look at nothing else. A call of an LLM, a prompt, the text of a decision
and the event log are left out. A step of a handler that only reads shared state
and whose result is used in the next statement is merged with it when no other
handler's step could tell the difference.

### ResultDelivery

`status` and `push` are the columns status and push_by_engine; `conv` is where
executeSopFromConversation is; `first` is the executeSop it called, `resume[h]` the
place of a handler that resumes the execution; `replies` and `pushes` count what
the user is told. Trigger, Suppress, Reply, GiveUp, Hand, Recheck and FirstReturned
are the statements of the conversation, Reply and GiveUp a poll that finds the
execution ended or stops waiting (a person is needed, or the grace window is over;
time itself is left out). HumanResume, Route, ToolResume, Redo, Execute and Notify
are the tails of resumeSopFromPause and resumeSopFromAsyncTool with notifySopResult;
EndsElsewhere stands for the ends that notify nobody. At most one run of the engine
drives the execution, which is what `OneDriver` of `SopEngine` provides.

### ToolCalls

The driver dispatches the calls of a round one by one (`drv`): it draws the id,
inserts the work-log row, launches. A call of an api or http tool (`Queued`) becomes a
job of the exec queue, or runs in the process without Redis; a script (`Pod`) runs in
a sandbox that posts a callback; an unknown tool (`Immediate`) posts its own failure.
`row` is metadata.status, `dog` and `tries` the watchdog job and its retries, `job`
and `pod` the exec job and the sandbox, `pc[s]` the handler each source (exec worker,
its `failed` handler, watchdog, POST) is in. Settling a call is three steps, as in
handleToolCallback: the First-Wins update (`Apply`), the count of the calls left and
the resume (`wakers`). `guards` are drivers that have suspended and not yet counted,
the race guard of the engine. A fault is an exception, a crash, a lost POST or a
failing insertion.

### ServiceReplicas

A request is a handler with a place: the deploy route takes the lock, reads the
rows once, stops the excess from the highest ordinal (mark, kill, drop), deploys what
is missing or not ready (mark or insert, create, settle), counts the ready rows,
releases the lock and only then stores the outcome (`Publish`). Undeployment and
deletion destroy the sandboxes and then the rows, without the lock. `lock` is the
Redis key, which may expire (`LockExpires`) under a handler, which is then `overdue`.
`clean` and `leaky` are history: reconciliations nobody interfered with, and whether
something has happened that may leave a sandbox behind; the properties are relative
to them and their comments name what sets them.

### Scheduler

`row` is the row of the task, `jobs` the patterns of its repeatable jobs (BullMQ
keys them so), `th` the requests: POST inserts then adds; PATCH updates, lists,
removes, adds; toggle changes the queue and then flips the row; DELETE removes and
erases. `sync` is syncScheduledTasks at the start of a process, `due` a job in the
hands of the worker: load the task, insert the execution, start it; a stalled job is
taken again. An execution that is cancelled (`Cancel`) between its insertion and its
start is refused, which is only logged. `trouble` says whether requests overlapped or
anything failed. Modelled is a process with Redis, and a queue that lists a
repeatable job with the id it was added with (section 6).

### Conversation

A handler is a delivery: dedup key, session, turn (`turn[h]`) and consumer
(`rx[h]`). The engine's loop is the places llm, check, save, tools, trigger, fail; a
turn is known by its message and number. `saw` is what the check for a recent
execution of the same words found before the awaits that precede the insertion. The
model, what it says and asks for, is a nondeterministic choice. `aged` lets
executions pass the window of five minutes in their order; `lapsed` and `excused`
are history, with which the properties say what explains an exception.

### Handoff

`handoff` are the rows of one conversation in the order of insertion; a request
reads one, and writes in a later statement. Ask, Open, Note: messages/send. Patch,
Update: claim, assign, close. Reply, Say, Take: human-reply. `changed` remembers
which rows were written by others since a request has read, `listed` which were
unresolved then: what was decided by them may be stale. A claim or an assignment of a
row read as assigned or resolved takes it over, as the routes allow to any support
user: `ClaimSticks` and `CloseSticks` exempt that beside replies and closes that have
read the row before. `SoleOwnerReplies` exempts a stale reply and one that goes by a
second unresolved handoff.

## 3. Runs

| Run | Instance | Shows |
|---|---|---|
| `SopApproval` | draft -> review -> verdict -> file, rejections loop to draft, an exit for an unanswered review; 2 handlers at once, 2 pauses, a limit of 2 rejections that an edit lowers to 1, 1 retry, a cancel, a thrown error, both time limits | type, one driver, no forged decision, rejection limit, life cycle, the ledger of approvals, a ruling resumes once and only its own pause |
| `SopLive` | a triage to review -> verdict -> file or to two nodes with async tools; a rejection or a timeout ends it, no SOP limit; 2 handlers at once, 2 tasks, 3 calls, 1 retry, fair | an unanswered approval is ended by its job; no execution stays running for ever; no lost wake-up |
| `SopRecovery` | async tools, an approval, a switch; two edits of the definition; a crash, a recovery, a limit of 2 rejections; scheduled trigger | one driver, no forged decision and backed rejections hold there too |
| `ToolCalls` | one call of each kind, in one round or several, with Redis or without, 1 fault, fair | the ledger is implemented; watched calls close; an execution stays suspended only for a call without watchdog or after a death between close and resume; sandboxes are freed |
| `Delivery` | two overlapping resuming handlers, 3 resumes, a statement of the conversation that throws, fair | a result given in the turn is given once and never pushed too; a refused hand-off finds the result; an execution that never suspends is reported exactly once |
| `Scheduler` | 2 requests at once, 2 patterns, 1 fault | queue and row agree when nothing overlapped or failed; a restart restores lost jobs; disabled tasks do not fire; a due job inserts one execution, started or refused |
| `Replicas` | 2 requests at once, 2 replicas, 3 sandboxes, 1 fault, lock expiry | one reconciler; ready rows have their sandbox; no orphans; an undisturbed reconciliation heals whatever it finds |
| `Conversation` | 2 handlers, 2 messages with the same words, 1 SOP, 2 rounds, 2 deliveries, 2 executions, 1 fault | a message is processed once, an SOP repeats only for a named reason, nobody is passed over and what is stored was sent, but for the named excuses |
| `Handoff` | 2 support users, 2 requests at once, 2 handoffs; deadlock checked | what is asked is listed; a close sticks, and a claim against who found the handoff open; nobody but the owner replies by his handoff, stale reads apart |
| `ToolsFailedJob`, `ToolsDetached`, `ConversationClaims` | see section 5 | disagreements of the code with its own comments |

Sizes of the largest: Scheduler 3.8 million distinct states, Conversation 1.4,
SopRecovery 1.2, Replicas 1.0.

Bounds and why they suffice. Two handlers at once let any two of them interleave at
any step, and a handler that ends frees its place for the next, so the number of
handlers of a behaviour is not bounded by two. Two pauses are a first approval and the
one after its rejection, whose own rejection reaches the limit. Three resumes let two
overlap twice. Two tasks and three calls are a round, a second round of the same task
and a second task. Two replicas and three sandboxes let a scale-down and an upgrade
meet, with a sandbox that is still running. Two messages with the same words, or one
delivered twice, are the two ways to repeat an SOP; two rounds are the first and the
last. Two handoffs are one that is closed or claimed, and one opened beside it. One
fault, at any step, loses every local there is; the proofs, where there are some, are
for any number. The passing runs together fire every action.

`CHECK_DEADLOCK FALSE` is stated where executions, replicas or messages come to an
end by the bounds; only requests of `Handoff` go on for ever, and it is checked.
Symmetry is used in runs without liveness only.

Fairness. `SopEngine`: `WF(Proceed(t))`, an await returns; `WF(Start)`, the
request that created the row goes on; `WF(NodeTimeout)`, BullMQ fires the jobs it
holds; `WF(ToolCallback)`, a pending call ends. The last one is what `ToolCalls`
examines: it holds for calls with a watchdog (`WatchedCallsClose`), which takes
Redis and a launch that succeeded; a run detached for want of Redis has none
(`ToolsDetached`), nor has an immediate failure whose POST is lost
(`lib/sop/async-tool-dispatch.ts:383`). Nobody is assumed to decide, to cancel or to
recover; the liveness run of the engine has no crash and no exception, since nothing
but cold recovery looks for a driver that disappears, and no cancel, which is in
`SopApproval` for safety. `ToolCalls`: `WF(Platform)`, awaits return, workers take
jobs, delayed jobs fire; no tool and no pod is assumed to end. `ResultDelivery`: every
await returns. The other modules claim safety only.

## 4. Proofs

All theorems hold for any sets and bounds, from the named assumptions of the
modules (bounds are natural numbers, "nobody" is no user, and the like).

`SopEngineProofs`:

- `TypeCorrect`: `Spec => []TypeOK`. Beside types, TypeOK says what locals a
  handler relies on at each place (a node in the loop, a ruling in a resume, a
  pause that exists when its job is armed, a task when its calls are counted);
  that makes it inductive.
- `StatusFollowsLifecycle`: `Spec => ImplementsLifecycle`, the refinement of
  `SopLifecycle`. Each action changes the status by `Transition` or not at all.
- `RejectionsLimited`: `Spec => []RejectionLimit`. The limit is read again at each
  rejection from a definition that may have been edited, so the theorem is about the
  versions so far: the count of an execution that has not failed is below the limit
  of one of them. The count is written from a stale read, so it may go down; it gets
  to the limit then in force only by RejectLimit, which fails the execution, and
  `failed` has no way out (`FailedForGood`). An edit that lowers the limit to the
  count or below it fails the execution at its next rejection only.
- `DriverIsAlone`: `Spec => []OneDriver`, provided `SlowNodes = FALSE` and
  `MaxRecoveries <= 1`. OneDriver is not inductive. `DriverInv` adds that a row
  that is paused or pending has no driver (so who wins the compare-and-swap is the
  first), that nothing drives before the trigger, and that a stale row that may
  still be recovered has no driver. The two premises are needed: TLC finds two
  drivers when a node outlasts the stale threshold, and when a row is recovered a
  second time before the first recovery has persisted anything. Until the first
  recovery no premise is needed (`DriverIsAloneUnrecovered`).

`SopDecisionProofs`:

- `DecisionsAreMade`: `Spec => []NoForgedDecision`, with any number of recoveries and
  crashes. With TypeOK it is inductive: decided pauses stay decided, and what a
  handler copies into its snapshot or ruling was read from a decided pause or from a
  snapshot of which the same holds.
- `RejectionsWereMade`: `Spec => []RejectionsBacked`, with any number of recoveries.
  The count is read, compared and written in three statements, so the invariant
  (`BackedInv`) is about debts: a handler on its way to count a rejection owes one,
  and the column, or what any handler has read of it, plus all that is still owed
  stays within the rejections made plus the recoveries.
- `RulingsAreRecorded`: what a handler resumes with is what the row of its pause says,
  node and decision, with any number of recoveries; inductive with TypeOK, because no
  statement touches a pause that no longer waits.
- `ApprovalsImplementLedger`: `Spec => ImplementsApprovalLedger`, the refinement of
  `ApprovalLedger`, from the former: Decide and the timeouts settle, AskHuman opens,
  Retake applies, and every ruling in memory is heeded from the ledger.
- `ResumedOnce` and `LastPauseResumed`: `Spec => ResumesOnce` and
  `Spec => ResumesLastPause` for `MaxRecoveries = 0`, and, as `...Unrecovered`, for
  every step up to the first recovery. A recovery breaks both: its query takes any
  decided pause, one applied long ago among them. `ClaimInv`: a pause that no longer
  waits has one handler at most that is still to apply it, and none once it is
  applied. `TurnInv`: while the execution can still be resumed, every pause but the
  last has been applied, and so has the last while a driver is past it; that needs
  `DriverInv`, for a second driver could ask while another waits.

`ResultDeliveryProofs`: `TypeCorrect`; `RepliesExcludePushes` and
`RefusedHandsHaveResult` follow from `DeliveryInv`: from the suppression to the
hand-off the flag is down, so nothing has been pushed when the conversation replies;
before the suppression nothing runs that could suspend or end the execution except
a cancel; and no transition leaves a terminal status (`EndIsFinal`).
`DeliveriesBounded`: at most one result more is delivered than the execution was
resumed (TLC finds the bound reached), because each resume notifies once
and the conversation, in its turn or by the callback, gives the result once
(`CountInv`). `UnsuspendedNotTwice` is the safety half of `DeliveredOnceUnsuspended`.

`ToolCallsProofs`: `TypeCorrect`, and `CallsImplementLedger`, the refinement
`Spec => ImplementsLedger`. `CallsSound` is the invariant: a row exists from before
anything of the call does, a tool that has run has no way to be run again (its job
is taken, its pod past its start), and a handler that reports success has run it.

`SchedulerProofs`: `TypeCorrect`; `ActiveTasksFire` (what the worker saw, or the row
changed since); `DueJobsRunOnce` from `DueInv`, which ties the counters of a due job
(inserted, started, refused, stalls) to the worker's place; `RestartsHeal` from
`SyncInv`, that the row a quiet synchronisation has read is still the row, and that
there is no job when it is about to add one: a task that lost its jobs gets one of its
present pattern, any other keeps what it has, an old pattern included; `QueueAgrees`
from `QueueInv`: while no trouble has occurred at most one request is at work, and at
each of its places the queue is as the row or as that request has made it.

`HandoffProofs`: `TypeCorrect` and the four action properties. `HandoffInv` says that
a row not in `changed` of a request is as the request read it, and that what was in
`listed` and is not in `changed` is still unresolved; each property is then what the
route checks on the row it has read, and the compare-and-swap on its status: it is by
that that the second of two who found a handoff open does not get it.

`ServiceReplicasProofs`: `TypeCorrect`; `ReconcilesAlone` from `Locked`: who is in
the critical section holds the lock, or is overdue; so two at once mean that one is.
`ReconcilingHeals` from `OnTrack`: the rows an undisturbed request has left above the
count are those it is to take down, and a replica below it is ready or still to be
deployed, with a row to be settled in. `ReadyRowsAreUp` from `Owned`: a new sandbox is
known to its request alone, a sandbox belongs to one ordinal in the table and in every
reading of it, and the one about to be killed is not the one its row calls ready.
`SandboxesAreKnown`, with Redis, from `Known`: until something leaves `leaky` set, a
request past its reading is alone and accounts for every sandbox, and with no such
request they are all in ready rows or in the readings of those who destroy them.
Without Redis `NoOrphans` is not claimed: every request then acquires the lock.

`ConversationProofs`: `TypeCorrect` from `Types`, which pairs a turn with its
consumer: while the engine works the consumer listens to it or the message is
excused, what the engine has said the consumer has read. `MessagesRunOnce` from
`Once`: a message with its mark has one handler before its turn and one turn.
`SopsRepeatForAReason` from `TurnsKnown` and `ExecsKnown`: turns of one message
differ in their number, a turn remembers every SOP it triggered, and nothing it saw
when it decided is a reason to refuse. `MessagesAreAnswered` and
`StoredRepliesAreSent` from `Answered` and `Stored`: a message has been dealt with or
some handler is still to deal with it; a stored text was sent or a consumer carries
it. Both have excuses, which `excused` records: the webhook or the process failed
over the message, the sending failed, the consumer's 300 seconds were over, the model
answered with nothing. An exception in the turn and a turn that runs out of rounds are
no excuse: the error is sent or, where a blocked round had streamed words, those words
in its place (`lib/channels/sse-consumer.ts:115`).

Model-checked only: liveness (fairness and ENABLED are out of the prover's reach):
`ApprovalWaitEnds`, `RunEnds`, `ToolPauseEnds`, `WatchedCallsClose`, `PauseEnds`,
`PodsFreed` and the half of `DeliveredOnceUnsuspended` that says that the result does
arrive. Every safety property of the passing runs is proved, `OneDriver`,
`ResumesOnce` and `ResumesLastPause` under the premises named above. Without the
premises they do not hold: with one crash and one recovery added to `SopApproval`, TLC
finds a recovery that resumes with a decision of an earlier approval.

## 5. Findings

Three runs end in a counterexample that contradicts a comment of the repository, and
one that passes contradicts another; `PROJECT.json` quotes them.

1. `ToolsFailedJob`: a call is closed in one statement and counted in a later one.
   When the handler dies in between, the `failed` handler and the watchdog find a
   duplicate and do nothing; the SOP stays suspended.
2. `ConversationClaims`: the reply is streamed to the channel's consumer before the
   claim guard looks at it; a claim of an execution that does not exist is sent.
3. `ToolsDetached`: without Redis a call runs detached in the process and
   `registerWatchdog` has no queue to put a job in. If the process dies with it nobody
   closes its row and the SOP stays suspended. `lib/sop/async-tool-dispatch.ts:12-13`,
   206-207 and 219-220 say that the watchdog nets such a run.
4. `ToolCalls` (`ImplementsLedger`, and the theorem `CallsImplementLedger`): a tool
   runs at most once. That is what `lib/sop/queue.ts:83-89` and 241-243 say, and what
   its `attempts: 1` and `maxStalledCount: 0` do; but
   `lib/sop/async-tool-dispatch.ts:10-11` and 328-330 say that a restart in the middle
   of a call runs its job again. The model follows the options. A job that no worker
   had taken does survive a restart.

Eight properties are stated in the modules and known not to hold; none is in a run.
Added to the run named, TLC finds the counterexample in seconds.

| Property | Run | What happens |
|---|---|---|
| `TimedOutIsMarked` | `SopApproval` | executeSop announces `timed_out`, but the map has no edge from running to timed_out: the row stays running with no driver |
| `ConfirmsLastDecision` | `SopApproval` | after a rejection loop human_confirm takes its own earlier decision for the approver's latest one |
| `DecisionTakesEffect` | `SopLive` | a decision made between the insertion of the pause row and the suspension is accepted, and never acted on |
| `ResumesWhenSettled` | `SopLive` | a callback that counted zero may resume a node after its next round has dispatched new calls |
| `CompletedSnapshot` | `SopLive` | the suspending handler's late save overwrites the snapshot of an execution that was resumed and completed in between |
| `RestartReruns` | `ToolCalls` | finding 4: a job whose worker died is failed, never run again |
| `NeverDeliveredTwice` | `Delivery` | the callback on the first executeSop does not look at push_by_engine; a resumed execution that completes just after the hand-off is reported twice |
| `ResultDelivered` | `Delivery` | a suspended execution that a time limit, the rejection limit or a failing resumed node ends after the hand-off is reported by nobody |

What the models show besides, without a text that claims the contrary:

- Engine: cold recovery runs the nodes of an errored row although its status stays
  error, so that nothing of what it does can complete; recovery may resume a second
  approval with the decided row of the first; a recovery that meets a rejection's
  own handler counts the rejection a second time, so that with a limit of two one
  rejection can fail the execution (`RejectionsBacked` allows one per recovery);
  `paused_for_tool` is never recovered; `recoverSopInstances` has no caller outside
  its tests; a running execution follows the edited definition; a node removed by an
  edit leaves its execution running with no driver; an exit whose targetNodeId is
  missing is an endpoint for executeSop and sends an execution that went past an
  approval back to its first node (`lib/sop/engine.ts:859`).
- Results: a statement that throws while the conversation waits leaves
  push_by_engine cleared, and the result is reported by nobody.
- Tools: a failure while a pod is set up or launched destroys the pod and fails its
  call (`lib/sop/async-tool-dispatch.ts:314`), but the launch may have succeeded with
  only its answer lost, and then a tool that ran is recorded as failed; where the
  insertion of the row is what failed, no record of the call is left; the fetch of an
  http tool has no timeout.
- Engine and edits: the limit of rejections is read from the current definition
  (`lib/sop/engine.ts:777`), so an edit may leave an execution at or past its limit
  until it is rejected once more.
- Scheduler: an execution cancelled between its insertion and its start leaves the due
  job without a run, which is only logged (`lib/sop/scheduler.ts:211`); two
  overlapping edits leave two schedules, of which a removal takes the first only; an
  edit to the empty pattern is stored and not rescheduled; a failure after the
  insertion leaves an execution pending for ever; the synchronisation never removes
  extra jobs.
- Replicas: the outcome is stored after the lock is released, so that an older one
  may overwrite a newer one and a deletion then skips replicas that live; neither
  undeployment nor deletion takes the lock; an undeployment that dies between
  sandboxes and rows leaves rows that say ready
  (`lib/tools/service-deployment-manager.ts:167`); a sandbox whose later set-up
  throws is not destroyed (`deploy-skill.ts:330`); the lock of 600 seconds is shorter
  than a deployment of many replicas.
- Conversations: `channel_sessions` has no unique constraint
  (`packages/db/schema/conversations.ts:99`), so two first messages open two
  conversations; a mark is set before its message is processed, so a crash loses the
  message; a turn counts an SOP as triggered even if its start failed; the check for
  a recent execution compares the stored input, which may have been annotated, with
  the bare message, and inserts later; a channel that delivers again because the
  answer to the webhook was late is stopped by the mark, so the message is not
  processed twice as the comment at `lib/channels/webhook-handler.ts:241-246` has it,
  unless the mark is lost; the consumer gives up after 300 seconds
  without a word to the user.
- Handoff: ownership is per handoff, so an Ask after a claim opens a second one by
  which others may answer; a claim or reply under way reopens a resolved handoff.

## 6. Not modelled, and the plan

Left out of `SopEngine`: deletion of a definition, the text of decisions, the
in-memory fallback without Redis. Of `ResultDelivery`: recovery, crashes, failing chat
services, the copying of files. Of `Scheduler`: the next-run column, time zones,
patterns that do not parse; and a process without Redis, in which
`lib/sop/scheduler.ts:79-83`, 108 and 247 return without a word, so that tasks are
stored and never fire (in the model a call to the queue only fails as one of the
counted faults). Of `ServiceReplicas`: the selection of a replica for a
call, script tools. Of `Conversation`: channels that answer in the request,
attachments, drafts, the content of prompts and history. Of `ExitResolver`: the
comparison operators, which are pure functions with unit tests.

Not modelled at all: the rate limiter and the editor stores, since nothing in the
application reaches them; the validator and the visibility matcher, pure functions of
one request; the user interface, adapters to models, connectors, knowledge bases and
chat services, and identity, most of the repository's lines, which keep little state
beyond single rows read and written in one request.

Assumed of what is not under `src/`: that `getRepeatableJobs` of the pinned BullMQ
(5.70.1) gives each repeatable job the id it was added with. `removeScheduledTask`
(`lib/sop/scheduler.ts:113`) and the synchronisation (268) look jobs up by that id; if
it were missing, a removal would remove nothing and a start would add the pattern of
every active task, whatever jobs it has.
That a worker which died is noticed, and its job run again or failed as the options
say, is BullMQ's too.

Left of the plan, in order:

1. Composition of `ToolCalls` with the engine's whole loop, so that `SopEngine`'s
   `WF(ToolCallback)` is derived and not assumed.
2. `evaluateCondition` and `compareValue` against a reference definition.
