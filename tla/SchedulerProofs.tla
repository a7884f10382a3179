---------------------------- MODULE SchedulerProofs ----------------------------
(***************************************************************************)
(* Proofs about Scheduler, for any number of requests, any patterns and    *)
(* any number of faults: which tasks fire, how often a due job runs, what  *)
(* a restart heals, and that the queue agrees with the table.              *)
(***************************************************************************)
EXTENDS Scheduler, TLAPS

Pattern == Cron \cup { Blank }
Task == [ is : { "none", "task", "gone" }, active : BOOLEAN, cron : Pattern \cup { None } ]
Request == [ at : { "idle", "update", "list", "remove", "add", "flip", "erase" },
             act : { "none", "create", "zone", "patch", "toggle", "delete" },
             was : BOOLEAN, cron : Pattern \cup { None }, key : Cron \cup { None } ]
Synchronisation == [ at : { "off", "read", "list", "add" }, seen : Task, quiet : BOOLEAN ]
DueJob == [ at : { "none", "load", "insert", "start", "end" }, inserted : Nat, started : Nat,
            refused : Nat, cancelled : BOOLEAN, stale : BOOLEAN, stalls : { 0, 1 } ]

TaskSound ==
  /\ row \in Task
  /\ row.is = "task" => row.cron \in Pattern
  /\ row.active => row.is = "task"

\* A request that may come to register a job has the pattern for it.
RequestSound(r) ==
  /\ r \in Request
  /\ r.at \in { "update", "list", "remove", "add" } /\ r.act \notin { "toggle", "delete" } =>
       r.cron \in Pattern
  /\ r.at = "add" => r.cron \in Pattern /\ r.act # "delete"
  /\ r.at = "remove" => r.key \in Cron

SyncSound ==
  /\ sync \in Synchronisation
  /\ sync.at \in { "list", "add" } => sync.seen.is = "task" /\ sync.seen.cron \in Pattern

Types ==
  /\ TaskSound /\ SyncSound
  /\ jobs \subseteq Cron
  /\ th \in [ Handler -> Request ] /\ \A h \in Handler : RequestSound(th[h])
  /\ due \in DueJob
  /\ trouble \in BOOLEAN /\ faults \in 0 .. MaxFaults

-------------------------------------------------------------------------------
(* Types.                                                                  *)

LEMMA IdleSound == RequestSound(Idle)
BY DEF RequestSound, Idle, Request

LEMMA NotDueTyped == NotDue \in DueJob
BY DEF NotDue, DueJob

LEMMA InitTyped == Init => Types
<1> SUFFICES ASSUME Init PROVE Types
  OBVIOUS
<1>1. TaskSound
  BY DEF Init, TaskSound, NoRow, Task
<1>2. SyncSound
  BY DEF Init, SyncSound, NoSync, NoRow, Task, Synchronisation
<1>3. th \in [ Handler -> Request ] /\ \A h \in Handler : RequestSound(th[h])
  BY IdleSound DEF Init, RequestSound
<1>4. due \in DueJob
  BY NotDueTyped DEF Init
<1>5. jobs \subseteq Cron /\ trouble \in BOOLEAN
  BY DEF Init
<1>6. faults \in 0 .. MaxFaults
  BY NumberAssumption DEF Init
<1>7. QED
  BY <1>1, <1>2, <1>3, <1>4, <1>5, <1>6 DEF Types

\* A row that is written, and a request that goes on or ends, keep the types.
LEMMA SetRowTyped ==
  ASSUME Types, NEW new \in Task, new.is = "task" => new.cron \in Pattern,
         new.active => new.is = "task", SetRow(new)
  PROVE  TaskSound' /\ due' \in DueJob
BY DEF Types, SetRow, TaskSound, DueJob

LEMMA RequestTyped ==
  ASSUME Types, NEW h \in Handler, NEW r, RequestSound(r), th' = [ th EXCEPT ![h] = r ]
  PROVE  th' \in [ Handler -> Request ] /\ \A g \in Handler : RequestSound(th'[g])
<1>1. r \in Request
  BY DEF RequestSound
<1>2. QED
  BY <1>1 DEF Types

LEMMA FaultTyped ==
  ASSUME Types, Fault PROVE trouble' \in BOOLEAN /\ faults' \in 0 .. MaxFaults
BY NumberAssumption DEF Types, Fault

LEMMA BeginTyped ==
  ASSUME Types, NEW h \in Handler, Begin(h)
  PROVE  /\ SyncSound' /\ trouble' \in BOOLEAN
         /\ sync'.at = sync.at /\ sync'.seen = sync.seen /\ ~sync'.quiet
BY DEF Types, SyncSound, Begin, Synchronisation

LEMMA AfterRemovalTyped ==
  ASSUME Types, NEW h \in Handler, th[h].at \in { "list", "remove" }, AfterRemoval(h)
  PROVE  th' \in [ Handler -> Request ] /\ \A g \in Handler : RequestSound(th'[g])
<1> DEFINE request == [ th[h] EXCEPT !.key = None ]
<1>1. RequestSound(th[h]) /\ th[h] \in Request
  BY DEF Types
<1>2. CASE th[h].act = "toggle"
  <2>1. RequestSound([ request EXCEPT !.at = "flip" ])
    BY <1>1, <1>2 DEF RequestSound, Request
  <2>2. th' = [ th EXCEPT ![h] = [ request EXCEPT !.at = "flip" ] ]
    BY <1>1, <1>2 DEF AfterRemoval, Request
  <2>3. QED
    BY <2>1, <2>2, RequestTyped
<1>3. CASE th[h].act = "delete"
  <2>1. RequestSound([ request EXCEPT !.at = "erase" ])
    BY <1>1, <1>3 DEF RequestSound, Request
  <2>2. th' = [ th EXCEPT ![h] = [ request EXCEPT !.at = "erase" ] ]
    BY <1>1, <1>3 DEF AfterRemoval, Request
  <2>3. QED
    BY <2>1, <2>2, RequestTyped
<1>4. CASE th[h].act \notin { "toggle", "delete" }
  <2>1. RequestSound([ request EXCEPT !.at = "add" ])
    BY <1>1, <1>4 DEF RequestSound, Request
  <2>2. \/ th' = [ th EXCEPT ![h] = [ request EXCEPT !.at = "add" ] ]
        \/ th' = [ th EXCEPT ![h] = Idle ]
    BY <1>1, <1>4 DEF AfterRemoval, Request
  <2>3. QED
    BY <2>1, <2>2, RequestTyped, IdleSound
<1>5. QED
  BY <1>2, <1>3, <1>4

\* What a route leaves when it takes a step of its own.
LEMMA RouteTyped ==
  ASSUME Types, NEW h \in Handler, Route(h)
  PROVE  Types'
<1>1. ASSUME NEW cron \in Cron, Create(h, cron) PROVE Types'
  <2> DEFINE new == [ is |-> "task", active |-> TRUE, cron |-> cron ]
             request == [ Idle EXCEPT !.at = "add", !.act = "create", !.cron = cron ]
  <2>1. TaskSound' /\ due' \in DueJob
    BY <1>1, SetRowTyped DEF Create, Task, Pattern
  <2>2. RequestSound(request)
    BY DEF Idle, RequestSound, Request, Pattern
  <2>3. th' \in [ Handler -> Request ] /\ \A g \in Handler : RequestSound(th'[g])
    BY <1>1, <2>2, RequestTyped DEF Create
  <2>4. SyncSound' /\ trouble' \in BOOLEAN
    BY <1>1, BeginTyped DEF Create
  <2>5. QED
    BY <1>1, <2>1, <2>3, <2>4 DEF Create, Types
<1>2. ASSUME NEW request, RequestSound(request), Read(h, request) PROVE Types'
  <2>1. th' \in [ Handler -> Request ] /\ \A g \in Handler : RequestSound(th'[g])
    BY <1>2, RequestTyped DEF Read
  <2>2. SyncSound' /\ trouble' \in BOOLEAN
    BY <1>2, BeginTyped DEF Read
  <2>3. QED
    BY <1>2, <2>1, <2>2 DEF Read, Types, TaskSound
<1>3. ASSUME NEW edit \in Cron \cup { Blank, Keep }, Patch(h, edit) PROVE Types'
  <2>1. NewCron(edit) \in Pattern /\ row.active \in BOOLEAN
    BY <1>3 DEF Patch, Read, NewCron, Pattern, Types, TaskSound, Task
  <2>2. RequestSound([ Idle EXCEPT !.at = "update", !.act = IF edit = Keep THEN "zone" ELSE "patch",
                                   !.was = row.active, !.cron = NewCron(edit) ])
    BY <2>1 DEF RequestSound, Request, Idle
  <2>3. QED
    BY <1>2, <1>3, <2>2 DEF Patch
<1>4. CASE Toggle(h)
  <2>1. row.cron \in Pattern
    BY <1>4 DEF Toggle, Read, Types, TaskSound
  <2>2. /\ RequestSound([ Idle EXCEPT !.at = "list", !.act = "toggle", !.was = TRUE ])
        /\ RequestSound([ Idle EXCEPT !.at = "add", !.act = "toggle", !.cron = row.cron ])
    BY <2>1 DEF RequestSound, Request, Idle
  <2>3. QED
    BY <1>2, <1>4, <2>2 DEF Toggle
<1>5. CASE Delete(h)
  <2>1. RequestSound([ Idle EXCEPT !.at = "list", !.act = "delete" ])
    BY DEF RequestSound, Request, Idle
  <2>2. QED
    BY <1>2, <1>5, <2>1 DEF Delete
<1>6. CASE UpdateRow(h)
  <2>1. RequestSound(th[h]) /\ th[h] \in Request
    BY DEF Types
  <2>2. TaskSound' /\ due' \in DueJob
    <3>1. CASE row.is = "task" /\ th[h].act = "patch"
      <4>1. [ row EXCEPT !.cron = th[h].cron ] \in Task /\ th[h].cron \in Pattern
        BY <1>6, <2>1, <3>1 DEF UpdateRow, RequestSound, Types, TaskSound, Task, Request
      <4>2. QED
        BY <1>6, <3>1, <4>1, SetRowTyped DEF UpdateRow, Types, TaskSound, Task
    <3>2. CASE ~(row.is = "task" /\ th[h].act = "patch")
      BY <1>6, <3>2 DEF UpdateRow, Types, TaskSound
    <3>3. QED
      BY <3>1, <3>2
  <2>3. RequestSound([ th[h] EXCEPT !.at = "list" ])
    BY <1>6, <2>1 DEF UpdateRow, RequestSound, Request
  <2>4. th' \in [ Handler -> Request ] /\ \A g \in Handler : RequestSound(th'[g])
    BY <1>6, <2>3, RequestTyped, IdleSound DEF UpdateRow, End, Go, Types
  <2>5. QED
    BY <1>6, <2>2, <2>4 DEF UpdateRow, Types, SyncSound
<1>7. CASE ListJobs(h)
  <2>1. ASSUME NEW key \in jobs, th' = [ th EXCEPT ![h].at = "remove", ![h].key = key ]
        PROVE  th' \in [ Handler -> Request ] /\ \A g \in Handler : RequestSound(th'[g])
    <3> DEFINE request == [ th[h] EXCEPT !.at = "remove", !.key = key ]
    <3>1. RequestSound(th[h]) /\ th[h] \in Request /\ key \in Cron
      BY DEF Types
    <3>2. RequestSound(request)
      BY <1>7, <3>1 DEF ListJobs, RequestSound, Request
    <3>3. th' = [ th EXCEPT ![h] = request ]
      BY <2>1, <3>1 DEF Request
    <3>4. QED
      BY <3>2, <3>3, RequestTyped
  <2>2. th' \in [ Handler -> Request ] /\ \A g \in Handler : RequestSound(th'[g])
    BY <1>7, <2>1, AfterRemovalTyped DEF ListJobs
  <2>3. QED
    BY <1>7, <2>2 DEF ListJobs, Types, TaskSound, SyncSound
<1>8. CASE RemoveJob(h)
  <2>1. th' \in [ Handler -> Request ] /\ \A g \in Handler : RequestSound(th'[g])
    BY <1>8, AfterRemovalTyped DEF RemoveJob
  <2>2. QED
    BY <1>8, <2>1 DEF RemoveJob, Types, TaskSound, SyncSound
<1>9. CASE RemovalFails(h)
  <2>1. th' \in [ Handler -> Request ] /\ \A g \in Handler : RequestSound(th'[g])
    BY <1>9, AfterRemovalTyped DEF RemovalFails
  <2>2. QED
    BY <1>9, <2>1, FaultTyped DEF RemovalFails, Types, TaskSound, SyncSound
<1>10. CASE AddJob(h)
  <2>1. RequestSound(th[h]) /\ th[h] \in Request
    BY DEF Types
  <2>2. RequestSound([ th[h] EXCEPT !.at = "flip" ])
    BY <2>1 DEF RequestSound, Request
  <2>3. th' \in [ Handler -> Request ] /\ \A g \in Handler : RequestSound(th'[g])
    BY <1>10, <2>2, RequestTyped, IdleSound DEF AddJob, End, Go, Types
  <2>4. jobs' \subseteq Cron
    BY <1>10, <2>1 DEF AddJob, Added, RequestSound, Pattern, Types
  <2>5. trouble' \in BOOLEAN /\ faults' \in 0 .. MaxFaults
    BY <1>10, FaultTyped DEF AddJob, Types
  <2>6. QED
    BY <1>10, <2>3, <2>4, <2>5 DEF AddJob, Types, TaskSound, SyncSound
<1>11. CASE Flip(h)
  <2>1. th[h] \in Request
    BY DEF Types
  <2>2. TaskSound' /\ due' \in DueJob
    <3>1. CASE row.is = "task"
      <4>1. [ row EXCEPT !.active = ~th[h].was ] \in Task
        BY <2>1 DEF Types, TaskSound, Task, Request
      <4>2. QED
        BY <1>11, <3>1, <4>1, SetRowTyped DEF Flip, Types, TaskSound, Task
    <3>2. CASE row.is # "task"
      BY <1>11, <3>2 DEF Flip, Types, TaskSound
    <3>3. QED
      BY <3>1, <3>2
  <2>3. th' \in [ Handler -> Request ] /\ \A g \in Handler : RequestSound(th'[g])
    BY <1>11, RequestTyped, IdleSound DEF Flip, End
  <2>4. QED
    BY <1>11, <2>2, <2>3 DEF Flip, Types, SyncSound
<1>12. CASE Erase(h)
  <2>1. TaskSound' /\ due' \in DueJob
    <3>1. [ NoRow EXCEPT !.is = "gone" ] \in Task
      BY DEF NoRow, Task
    <3>2. QED
      BY <1>12, <3>1, SetRowTyped DEF Erase, NoRow
  <2>2. th' \in [ Handler -> Request ] /\ \A g \in Handler : RequestSound(th'[g])
    BY <1>12, RequestTyped, IdleSound DEF Erase, End
  <2>3. QED
    BY <1>12, <2>1, <2>2 DEF Erase, Types, SyncSound
<1>13. CASE RouteFails(h)
  <2>1. th' \in [ Handler -> Request ] /\ \A g \in Handler : RequestSound(th'[g])
    BY <1>13, RequestTyped, IdleSound DEF RouteFails, End
  <2>2. QED
    BY <1>13, <2>1, FaultTyped DEF RouteFails, Types, TaskSound, SyncSound
<1>14. QED
  BY <1>1, <1>3, <1>4, <1>5, <1>6, <1>7, <1>8, <1>9, <1>10, <1>11, <1>12, <1>13 DEF Route

LEMMA WorkerTyped ==
  ASSUME Types, Worker PROVE Types'
<1>1. due' \in DueJob
  <2>1. CASE due' = NotDue
    BY <2>1, NotDueTyped
  <2>2. CASE Due \/ Insert \/ Cancel \/ Start
    <3>1. /\ due \in DueJob
          /\ due.inserted + 1 \in Nat /\ due.started + 1 \in Nat /\ due.refused + 1 \in Nat
      BY DEF Types, DueJob
    <3>2. QED
      BY <2>2, <3>1 DEF Due, Insert, Cancel, Start, DueJob
  <2>3. CASE Load /\ row.active
    BY <2>3 DEF Load, Types, DueJob
  <2>4. QED
    BY <2>1, <2>2, <2>3 DEF Worker, Load, JobDone, JobFails
<1>2. trouble' \in BOOLEAN /\ faults' \in 0 .. MaxFaults
  BY FaultTyped DEF Worker, Due, Load, Insert, Cancel, Start, JobDone, JobFails, Types
<1>3. UNCHANGED << row, jobs, th, sync >>
  BY DEF Worker, Due, Load, Insert, Cancel, Start, JobDone, JobFails
<1>4. QED
  BY <1>1, <1>2, <1>3 DEF Types, TaskSound, SyncSound

Syncs == SyncRead \/ SyncList \/ SyncAdd \/ SyncFails

LEMMA NoSyncSound == NoSync \in Synchronisation
BY DEF NoSync, NoRow, Task, Synchronisation

LEMMA SyncTyped ==
  ASSUME Types, Syncs PROVE Types'
<1>1. SyncSound'
  <2>1. CASE sync' = NoSync
    BY <2>1, NoSyncSound DEF SyncSound, NoSync
  <2>2. CASE row.active /\ sync' = [ sync EXCEPT !.at = "list", !.seen = row ]
    BY <2>2 DEF Types, TaskSound, SyncSound, Synchronisation
  <2>3. CASE sync.at = "list" /\ sync' = [ sync EXCEPT !.at = "add" ]
    BY <2>3 DEF Types, SyncSound, Synchronisation
  <2>4. QED
    BY <2>1, <2>2, <2>3 DEF Syncs, SyncRead, SyncList, SyncAdd, SyncFails
<1>2. jobs' \subseteq Cron
  BY DEF Syncs, SyncRead, SyncList, SyncAdd, SyncFails, Added, Types, SyncSound, Pattern
<1>3. trouble' \in BOOLEAN /\ faults' \in 0 .. MaxFaults
  BY FaultTyped DEF Syncs, SyncRead, SyncList, SyncAdd, SyncFails, Types
<1>4. UNCHANGED << row, th, due >>
  BY DEF Syncs, SyncRead, SyncList, SyncAdd, SyncFails
<1>5. QED
  BY <1>1, <1>2, <1>3, <1>4 DEF Types, TaskSound

LEMMA CrashTyped ==
  ASSUME Types, Crash PROVE Types'
<1>1. th' \in [ Handler -> Request ] /\ \A h \in Handler : RequestSound(th'[h])
  BY IdleSound DEF Crash, RequestSound
<1>2. SyncSound'
  BY NoSyncSound DEF Crash, SyncSound, Synchronisation
<1>3. due' \in DueJob
  <2>1. [ due EXCEPT !.at = "load", !.stalls = 1 ] \in DueJob
    BY DEF Types, DueJob
  <2>2. QED
    BY <2>1, NotDueTyped DEF Crash
<1>4. QED
  BY <1>1, <1>2, <1>3, FaultTyped DEF Crash, Types, TaskSound

LEMMA StepTyped == Types /\ [Next]_vars => Types'
<1>1. ASSUME Types, UNCHANGED vars PROVE Types'
  BY <1>1 DEF vars, Types, TaskSound, SyncSound
<1>2. QED
  BY <1>1, RouteTyped, WorkerTyped, SyncTyped, CrashTyped DEF Next, Syncs

\* Every variable keeps its type, every request and the synchronisation only
\* go on with a pattern and a job they really have, and an active task exists.
THEOREM TypeCorrect == Spec => []TypeOK
<1>1. Types => TypeOK
  BY DEF Types, TypeOK, TaskSound, SyncSound, RequestSound, Pattern, Request, Task, DueJob
<1>2. QED
  BY <1>1, InitTyped, StepTyped, PTL DEF Spec

-------------------------------------------------------------------------------
(* The worker.                                                             *)

\* What is known of a due job at each of its steps: what it has inserted, started
\* and been refused, in this run and in the one that stalled; and, if it is about
\* to insert and nothing was changed, that the task is active.
DueInv ==
  /\ due.at = "none" =>
       due.inserted = 0 /\ due.started = 0 /\ due.refused = 0 /\ due.stalls = 0
  /\ due.started + due.refused <= due.inserted /\ due.inserted <= 1 + due.stalls
  /\ due.at \in { "load", "insert" } => due.inserted <= due.stalls
  /\ due.at = "start" => due.started + due.refused < due.inserted
  /\ due.at = "end" /\ due.stalls = 0 => due.started + due.refused = 1
  /\ due.at = "insert" /\ ~due.stale => row.active

\* A request changes the row, marking the job that is due, or neither.
LEMMA RouteOrRow ==
  ASSUME NEW h \in Handler, Route(h)
  PROVE  UNCHANGED << row, due >> \/ \E new : SetRow(new)
BY Zenon DEF Route, Create, Patch, Toggle, Delete, Read, UpdateRow, ListJobs, RemoveJob,
   RemovalFails, AddJob, Flip, Erase, RouteFails

LEMMA DueStep ==
  ASSUME Types, DueInv, [Next]_vars
  PROVE  DueInv'
<1> USE DEF Types, DueJob
<1>1. CASE UNCHANGED << row, due >>
  BY <1>1 DEF DueInv
<1>2. ASSUME NEW new, SetRow(new) PROVE DueInv'
  <2>1. /\ due'.at = due.at /\ due'.inserted = due.inserted
        /\ due'.started = due.started /\ due'.refused = due.refused /\ due'.stalls = due.stalls
    BY <1>2 DEF SetRow
  <2>2. due.at = "insert" /\ ~due'.stale => row'.active = row.active /\ ~due.stale
    BY <1>2 DEF SetRow
  <2>3. QED
    BY <2>1, <2>2 DEF DueInv
<1>3. CASE Syncs
  BY <1>1, <1>3 DEF Syncs, SyncRead, SyncList, SyncAdd, SyncFails
<1>4. CASE due' = NotDue
  BY <1>4 DEF DueInv, NotDue
<1>5. CASE Due \/ Insert \/ Cancel \/ Start
  <2>1. CASE Due
    BY <2>1 DEF Due, DueInv
  <2>2. CASE Insert
    BY <2>2 DEF Insert, DueInv
  <2>3. CASE Cancel
    BY <2>3 DEF Cancel, DueInv
  <2>4. CASE Start
    BY <2>4 DEF Start, DueInv
  <2>5. QED
    BY <1>5, <2>1, <2>2, <2>3, <2>4
<1>6. CASE Load
  BY <1>4, <1>6 DEF Load, DueInv
<1>7. CASE Crash
  <2>1. CASE due.at # "none" /\ due.stalls = 0
    BY <1>7, <2>1 DEF Crash, DueInv
  <2>2. QED
    BY <1>4, <1>7, <2>1 DEF Crash
<1>8. CASE UNCHANGED vars
  BY <1>1, <1>8 DEF vars
<1>9. ASSUME NEW h \in Handler, Route(h) PROVE DueInv'
  <2>1. CASE \E new : SetRow(new)
    <3>1. PICK new : SetRow(new)
      BY <2>1
    <3>2. QED
      BY <1>2, <3>1
  <2>2. QED
    BY <1>1, <1>9, <2>1, RouteOrRow
<1>10. QED
  BY <1>3, <1>4, <1>5, <1>6, <1>7, <1>8, <1>9 DEF Next, Syncs, Worker, JobDone, JobFails

LEMMA InsertOnly ==
  ASSUME Types, DueInv, Next, due'.inserted > due.inserted
  PROVE  row.active \/ due.stale
<1>1. due'.inserted # due.inserted /\ due' # NotDue
  BY DEF Types, DueJob, NotDue
<1>2. ASSUME NEW new PROVE ~SetRow(new)
  BY <1>1 DEF SetRow, Types, DueJob
<1>3. ~Syncs /\ ~Crash
  BY <1>1 DEF Syncs, SyncRead, SyncList, SyncAdd, SyncFails, Crash, Types, DueJob
<1>4. ~(Due \/ Load \/ Cancel \/ Start \/ JobDone \/ JobFails)
  BY <1>1 DEF Due, Load, Cancel, Start, JobDone, JobFails, Types, DueJob
<1>5. Insert
  BY <1>1, <1>2, <1>3, <1>4, RouteOrRow DEF Next, Worker, Syncs
<1>6. QED
  BY <1>5 DEF Insert, DueInv

LEMMA DueInvariant == Spec => [](Types /\ DueInv)
<1>1. Init => DueInv
  BY DEF Init, DueInv, NotDue
<1>2. QED
  BY <1>1, InitTyped, StepTyped, DueStep, PTL DEF Spec

\* Whatever jobs were left behind by requests, troubles and crashes: no
\* execution is created for a task that is disabled or deleted, unless it
\* became so between the worker's query and its insertion.
THEOREM ActiveTasksFire == Spec => OnlyActiveFires
<1>1. Types /\ DueInv /\ [Next]_vars
        => [ due'.inserted > due.inserted => row.active \/ due.stale ]_vars
  BY InsertOnly
<1>2. QED
  BY <1>1, DueInvariant, PTL DEF Spec, OnlyActiveFires

\* A due job leads to one execution, or two if the process died in between; each
\* is started, or refused because it was cancelled, never both; and one of which
\* neither holds is left behind only by a failure or a crash.
THEOREM DueJobsRunOnce == Spec => []RunsAccounted
<1>1. Types /\ DueInv => RunsAccounted
  BY DEF Types, DueJob, DueInv, RunsAccounted
<1>2. QED
  BY <1>1, DueInvariant, PTL

-------------------------------------------------------------------------------
(* The start of the process.                                               *)

\* Nothing has disturbed the synchronisation: nobody is at work on the task,
\* what it has read is still the row, and the jobs it did not find are not there.
SyncInv ==
  sync.at # "off" /\ sync.quiet =>
    /\ \A h \in Handler : th[h].at = "idle"
    /\ sync.at \in { "list", "add" } => sync.seen = row
    /\ sync.at = "add" => jobs = {}

LEMMA SyncStep ==
  ASSUME Types, SyncInv, [Next]_vars
  PROVE  SyncInv'
<1> USE DEF Types, SyncSound, Synchronisation
<1>1. ASSUME NEW h \in Handler, Begin(h) PROVE SyncInv'
  BY <1>1 DEF Begin, SyncInv
<1>2. ASSUME NEW h \in Handler, th[h].at # "idle", Route(h), ~Begin(h) PROVE SyncInv'
  <2>1. UNCHANGED sync
    BY <1>2 DEF Route, Create, Patch, Toggle, Delete, Read, UpdateRow, ListJobs, RemoveJob,
       RemovalFails, AddJob, Flip, Erase, RouteFails
  <2>2. QED
    BY <1>2, <2>1 DEF SyncInv
<1>3. ASSUME NEW h \in Handler, Route(h) PROVE Begin(h) \/ th[h].at # "idle"
  BY <1>3 DEF Route, Create, Patch, Toggle, Delete, Read, UpdateRow, ListJobs, RemoveJob,
     RemovalFails, AddJob, Flip, Erase, RouteFails
<1>4. CASE Worker
  BY <1>4 DEF Worker, Due, Load, Insert, Cancel, Start, JobDone, JobFails, SyncInv
<1>5. CASE Syncs
  <2>1. CASE sync' = NoSync
    BY <2>1 DEF SyncInv, NoSync
  <2>2. CASE sync.at = "read" /\ sync' = [ sync EXCEPT !.at = "list", !.seen = row ]
    BY <1>5, <2>2 DEF Syncs, SyncRead, SyncList, SyncAdd, SyncFails, SyncInv
  <2>3. CASE sync.at = "list" /\ sync' = [ sync EXCEPT !.at = "add" ]
    <3>1. sync'.at = "add"
      BY <2>3
    <3>2. jobs = {} /\ UNCHANGED << row, jobs, th >>
      BY <1>5, <2>3, <3>1 DEF Syncs, SyncRead, SyncList, SyncAdd, SyncFails, NoSync
    <3>3. QED
      BY <2>3, <3>2 DEF SyncInv
  <2>4. QED
    BY <1>5, <2>1, <2>2, <2>3 DEF Syncs, SyncRead, SyncList, SyncAdd, SyncFails
<1>6. CASE Crash
  BY <1>6 DEF Crash, SyncInv, Idle, NoSync
<1>7. CASE UNCHANGED vars
  BY <1>7 DEF vars, SyncInv
<1>8. QED
  BY <1>1, <1>2, <1>3, <1>4, <1>5, <1>6, <1>7 DEF Next, Syncs

\* When the synchronisation of a starting process ends with nothing having
\* failed or disturbed it, an active task with a pattern that had lost its jobs,
\* by whatever troubles and crashes, has one of that pattern; jobs that were
\* there, of whichever patterns, are as they were.
THEOREM RestartsHeal == Spec => RestartHeals
<1> DEFINE Healed == sync.at # "off" /\ sync'.at = "off" /\ sync.quiet /\ faults' = faults
                       /\ row.active /\ row.cron # Blank
                       => jobs' = IF jobs = {} THEN { row.cron } ELSE jobs
<1>1. Init => SyncInv
  BY DEF Init, SyncInv, Idle, NoSync
<1>2. Types /\ SyncInv /\ [Next]_vars => [Healed]_vars
  <2> SUFFICES ASSUME Types, SyncInv, Next, sync.at # "off", sync'.at = "off", sync.quiet,
                      faults' = faults, row.active, row.cron # Blank
               PROVE  jobs' = IF jobs = {} THEN { row.cron } ELSE jobs
    OBVIOUS
  <2>1. ~Fault
    BY DEF Types, Fault
  <2>2. ASSUME NEW h \in Handler, Route(h) PROVE sync'.at = sync.at
    BY <2>2 DEF Route, Create, Patch, Toggle, Delete, Read, Begin, UpdateRow, ListJobs, RemoveJob,
       RemovalFails, AddJob, Flip, Erase, RouteFails, Types, SyncSound, Synchronisation
  <2>3. ~Worker
    BY DEF Worker, Due, Load, Insert, Cancel, Start, JobDone, JobFails
  <2>4. SyncRead \/ SyncList \/ SyncAdd
    BY <2>1, <2>2, <2>3 DEF Next, SyncFails, Crash
  <2>5. CASE SyncRead
    BY <2>5 DEF SyncRead, Types, SyncSound, Synchronisation
  <2>6. CASE SyncList
    BY <2>6 DEF SyncList, Types, SyncSound, Synchronisation
  <2>7. CASE SyncAdd
    BY <2>7 DEF SyncAdd, Added, SyncInv
  <2>8. QED
    BY <2>4, <2>5, <2>6, <2>7
<1>3. QED
  BY <1>1, <1>2, InitTyped, StepTyped, SyncStep, PTL DEF Spec, RestartHeals

-------------------------------------------------------------------------------
(* The queue and the table.                                                *)

\* At most one job, none for an inactive task, that of its pattern for another.
Agree ==
  /\ \A a, b \in jobs : a = b
  /\ ~row.active => jobs = {}
  /\ row.active /\ row.cron # Blank => jobs = { row.cron }

\* What a request knows, at each of its steps, if it is alone: what it has read
\* is still the row, and the jobs are as its calls left them.
Alone(r) ==
  /\ r.at = "update" =>
       /\ Agree /\ row.is = "task" /\ r.was = row.active
       /\ r.act \in { "zone", "patch" } /\ (r.act = "zone" => r.cron = row.cron)
  /\ r.at \in { "list", "remove" } =>
       /\ \A a, b \in jobs : a = b
       /\ r.at = "remove" => jobs = { r.key }
       /\ r.act \in { "zone", "patch", "toggle", "delete" }
       /\ r.act # "delete" => row.is = "task" /\ r.was = row.active
       /\ r.act = "toggle" => r.was
       /\ r.act \in { "zone", "patch" } => r.cron = row.cron
  /\ r.at = "add" =>
       /\ jobs = {} /\ row.is = "task" /\ r.cron = row.cron
       /\ IF r.act = "toggle" THEN ~row.active /\ ~r.was ELSE row.active
  /\ r.at = "flip" =>
       /\ row.is = "task" /\ r.was = row.active
       /\ jobs = IF r.was THEN {} ELSE { row.cron } \ { Blank }
  /\ r.at = "erase" => jobs = {}

AllIdle == \A h \in Handler : th[h].at = "idle"

\* Without overlaps, failures and crashes one request at a time is at work, and
\* the synchronisation only before the first.
QueueInv ==
  ~trouble =>
    /\ sync.at # "off" => sync.at = "read" /\ row = NoRow /\ jobs = {} /\ AllIdle
    /\ \A g, h \in Handler : th[g].at # "idle" /\ th[h].at # "idle" => g = h
    /\ \A h \in Handler : Alone(th[h])
    /\ AllIdle => Agree

LEMMA InitQueue == Init => QueueInv
BY DEF Init, QueueInv, AllIdle, Alone, Agree, Idle, NoRow

\* After a step of the only request under way.
LEMMA OnlyRequest ==
  ASSUME NEW h \in Handler, sync'.at = "off", Alone(th[h])',
         \A g \in Handler \ { h } : th'[g].at = "idle", th'[h].at = "idle" => Agree'
  PROVE  QueueInv'
BY DEF QueueInv, AllIdle, Alone

LEMMA AloneIdle == ASSUME NEW r, r.at = "idle" PROVE Alone(r)
BY DEF Alone

\* A request that begins undisturbed finds the queue in agreement.
LEMMA BeginAlone ==
  ASSUME Types, QueueInv, NEW h \in Handler, Begin(h), ~trouble'
  PROVE  Agree /\ sync'.at = "off" /\ \A g \in Handler : th[g].at = "idle"
<1>1. ~trouble /\ sync.at = "off" /\ \A g \in Handler : th[g].at = "idle"
  BY DEF Begin
<1>2. sync'.at = "off"
  BY <1>1 DEF Begin, Types, SyncSound, Synchronisation
<1>3. QED
  BY <1>1, <1>2 DEF QueueInv, AllIdle

\* One that is under way is the only one.
LEMMA GoesOnAlone ==
  ASSUME QueueInv, NEW h \in Handler, th[h].at # "idle", ~trouble
  PROVE  Alone(th[h]) /\ sync.at = "off" /\ \A g \in Handler \ { h } : th[g].at = "idle"
BY DEF QueueInv, AllIdle

\* When the job is gone, or was not there.
LEMMA AfterRemovalAlone ==
  ASSUME Types, NEW h \in Handler, th[h].at \in { "list", "remove" }, Alone(th[h]),
         AfterRemoval(h), jobs' = {}, UNCHANGED row
  PROVE  /\ Alone(th[h])'
         /\ th'[h].at = "idle" => Agree'
         /\ \A g \in Handler \ { h } : th'[g] = th[g]
<1>1. th \in [ Handler -> Request ] /\ th[h] \in Request
  BY DEF Types
<1>2. \A g \in Handler \ { h } : th'[g] = th[g]
  BY <1>1 DEF AfterRemoval
<1>3. th'[h] = CASE th[h].act = "toggle" -> [ th[h] EXCEPT !.key = None, !.at = "flip" ]
                 [] th[h].act = "delete" -> [ th[h] EXCEPT !.key = None, !.at = "erase" ]
                 [] OTHER -> IF th[h].was THEN [ th[h] EXCEPT !.key = None, !.at = "add" ] ELSE Idle
  BY <1>1 DEF AfterRemoval, Request
<1>4. CASE th[h].act = "toggle"
  <2>1. th'[h].at = "flip" /\ th'[h].was = th[h].was
    BY <1>1, <1>3, <1>4 DEF Request
  <2>2. QED
    BY <1>2, <1>4, <2>1 DEF Alone
<1>5. CASE th[h].act = "delete"
  <2>1. th'[h].at = "erase"
    BY <1>1, <1>3, <1>5 DEF Request
  <2>2. QED
    BY <1>2, <2>1 DEF Alone
<1>6. CASE th[h].act \notin { "toggle", "delete" } /\ th[h].was
  <2>1. th'[h] = [ th[h] EXCEPT !.key = None, !.at = "add" ]
    BY <1>3, <1>6
  <2>2. /\ th'[h].at = "add" /\ th'[h].act = th[h].act
        /\ th'[h].was = th[h].was /\ th'[h].cron = th[h].cron
    BY <1>1, <2>1 DEF Request
  <2>3. QED
    BY <1>2, <1>6, <2>2 DEF Alone
<1>7. CASE th[h].act \notin { "toggle", "delete" } /\ ~th[h].was
  <2>1. th'[h].at = "idle"
    BY <1>3, <1>7 DEF Idle
  <2>2. ~row'.active
    BY <1>7 DEF Alone
  <2>3. QED
    BY <1>2, <2>1, <2>2 DEF Alone, Agree
<1>8. QED
  BY <1>1, <1>4, <1>5, <1>6, <1>7 DEF Request

LEMMA RouteQueue ==
  ASSUME Types, QueueInv, NEW h \in Handler, Route(h), ~trouble'
  PROVE  QueueInv'
<1>0. /\ th \in [ Handler -> Request ] /\ th[h] \in Request /\ row \in Task
      /\ row.is = "task" => row.cron \in Pattern
      /\ trouble' = trouble => ~trouble
  BY DEF Types, TaskSound
<1>1. ASSUME NEW cron \in Cron, Create(h, cron) PROVE QueueInv'
  <2>1. Agree /\ sync'.at = "off" /\ \A g \in Handler : th[g].at = "idle"
    BY <1>1, BeginAlone DEF Create
  <2>2. /\ th'[h].at = "add" /\ th'[h].act = "create" /\ th'[h].cron = cron
        /\ \A g \in Handler \ { h } : th'[g] = th[g]
    BY <1>0, <1>1 DEF Create, Idle
  <2>3. jobs = {} /\ jobs' = {} /\ row'.is = "task" /\ row'.active /\ row'.cron = cron
    BY <1>0, <1>1, <2>1 DEF Create, SetRow, Agree, Types, TaskSound
  <2>4. Alone(th[h])'
    BY <2>2, <2>3 DEF Alone
  <2>5. QED
    BY <2>1, <2>2, <2>4, OnlyRequest
<1>2. ASSUME NEW request, Read(h, request)
      PROVE  /\ Agree' /\ row.is = "task" /\ sync'.at = "off" /\ UNCHANGED << row, jobs >>
             /\ th'[h] = request /\ \A g \in Handler \ { h } : th'[g].at = "idle"
             /\ row'.cron \in Pattern
  <2>1. Agree /\ sync'.at = "off" /\ \A g \in Handler : th[g].at = "idle"
    BY <1>2, BeginAlone DEF Read
  <2>2. QED
    BY <1>0, <1>2, <2>1 DEF Read, Agree
<1>3. ASSUME NEW edit \in Cron \cup { Blank, Keep }, Patch(h, edit) PROVE QueueInv'
  <2> DEFINE request == [ Idle EXCEPT !.at = "update", !.act = IF edit = Keep THEN "zone" ELSE "patch",
                                      !.was = row.active, !.cron = NewCron(edit) ]
  <2>1. Read(h, request)
    BY <1>3 DEF Patch
  <2>2. /\ th'[h].at = "update" /\ th'[h].act = (IF edit = Keep THEN "zone" ELSE "patch")
        /\ th'[h].was = row.active /\ th'[h].cron = NewCron(edit)
    <3>1. th'[h] = request
      BY <1>2, <2>1, Zenon
    <3>2. QED
      BY <3>1 DEF Idle
  <2>3. Alone(th[h])'
    BY <1>2, <2>1, <2>2 DEF Alone, NewCron
  <2>4. QED
    BY <1>2, <2>1, <2>2, <2>3, OnlyRequest
<1>4. CASE Toggle(h)
  <2>1. CASE row.active
    <3> DEFINE request == [ Idle EXCEPT !.at = "list", !.act = "toggle", !.was = TRUE ]
    <3>1. Read(h, request)
      BY <1>4, <2>1 DEF Toggle
    <3>2. th'[h].at = "list" /\ th'[h].act = "toggle" /\ th'[h].was = TRUE
      <4>1. th'[h] = request
        BY <1>2, <3>1, Zenon
      <4>2. QED
        BY <4>1 DEF Idle
    <3>3. Alone(th[h])'
      BY <1>2, <2>1, <3>1, <3>2 DEF Alone, Agree
    <3>4. QED
      BY <1>2, <3>1, <3>2, <3>3, OnlyRequest
  <2>2. CASE ~row.active
    <3> DEFINE request == [ Idle EXCEPT !.at = "add", !.act = "toggle", !.cron = row.cron ]
    <3>1. Read(h, request)
      BY <1>4, <2>2 DEF Toggle
    <3>2. th'[h].at = "add" /\ th'[h].act = "toggle" /\ ~th'[h].was /\ th'[h].cron = row.cron
      <4>1. th'[h] = request
        BY <1>2, <3>1, Zenon
      <4>2. QED
        BY <4>1 DEF Idle
    <3>3. Alone(th[h])'
      BY <1>2, <2>2, <3>1, <3>2 DEF Alone, Agree
    <3>4. QED
      BY <1>2, <3>1, <3>2, <3>3, OnlyRequest
  <2>3. QED
    BY <2>1, <2>2
<1>5. CASE Delete(h)
  <2> DEFINE request == [ Idle EXCEPT !.at = "list", !.act = "delete" ]
  <2>1. Read(h, request)
    BY <1>5 DEF Delete
  <2>2. th'[h].at = "list" /\ th'[h].act = "delete"
    <3>1. th'[h] = request
      BY <1>2, <2>1, Zenon
    <3>2. QED
      BY <3>1 DEF Idle
  <2>3. Alone(th[h])'
    BY <1>2, <2>1, <2>2 DEF Alone, Agree
  <2>4. QED
    BY <1>2, <2>1, <2>2, <2>3, OnlyRequest
<1>6. CASE UpdateRow(h)
  <2>1. Alone(th[h]) /\ sync.at = "off" /\ \A g \in Handler \ { h } : th[g].at = "idle"
    BY <1>0, <1>6, GoesOnAlone DEF UpdateRow
  <2>2. /\ row'.is = "task" /\ row'.active = row.active /\ jobs' = jobs
        /\ row'.cron = IF th[h].act = "patch" THEN th[h].cron ELSE row.cron
    BY <1>0, <1>6, <2>1 DEF UpdateRow, Alone, SetRow, Task
  <2>3. CASE th[h].act = "patch" /\ th[h].cron = Blank
    <3>1. th'[h].at = "idle" /\ \A g \in Handler \ { h } : th'[g] = th[g]
      BY <1>0, <1>6, <2>3 DEF UpdateRow, End, Idle
    <3>2. Agree'
      BY <1>6, <2>1, <2>2, <2>3 DEF UpdateRow, Alone, Agree
    <3>3. Alone(th[h])'
      BY <3>1 DEF Alone
    <3>4. QED
      BY <1>6, <2>1, <3>1, <3>2, <3>3, OnlyRequest DEF UpdateRow
  <2>4. CASE ~(th[h].act = "patch" /\ th[h].cron = Blank)
    <3>1. /\ th'[h].at = "list" /\ th'[h].act = th[h].act /\ th'[h].was = th[h].was
          /\ th'[h].cron = th[h].cron /\ \A g \in Handler \ { h } : th'[g] = th[g]
      BY <1>0, <1>6, <2>4 DEF UpdateRow, Go, Request
    <3>2. Alone(th[h])'
      BY <1>6, <2>1, <2>2, <3>1 DEF UpdateRow, Alone, Agree
    <3>3. QED
      BY <1>6, <2>1, <3>1, <3>2, OnlyRequest DEF UpdateRow
  <2>5. QED
    BY <2>3, <2>4
<1>7. CASE ListJobs(h)
  <2>1. Alone(th[h]) /\ sync.at = "off" /\ \A g \in Handler \ { h } : th[g].at = "idle"
    BY <1>0, <1>7, GoesOnAlone DEF ListJobs
  <2>2. CASE jobs = {}
    <3>1. /\ Alone(th[h])'
          /\ th'[h].at = "idle" => Agree'
          /\ \A g \in Handler \ { h } : th'[g] = th[g]
      BY <1>7, <2>1, <2>2, AfterRemovalAlone DEF ListJobs
    <3>2. QED
      BY <1>7, <2>1, <3>1, OnlyRequest DEF ListJobs
  <2>3. ASSUME NEW key \in jobs, th' = [ th EXCEPT ![h].at = "remove", ![h].key = key ]
        PROVE  QueueInv'
    <3>1. /\ th'[h].at = "remove" /\ th'[h].key = key /\ th'[h].act = th[h].act
          /\ th'[h].was = th[h].was /\ th'[h].cron = th[h].cron
          /\ \A g \in Handler \ { h } : th'[g] = th[g]
      BY <1>0, <2>3 DEF Request
    <3>2. jobs = { key }
      BY <1>7, <2>1, <2>3 DEF ListJobs, Alone
    <3>3. Alone(th[h])'
      BY <1>7, <2>1, <3>1, <3>2 DEF ListJobs, Alone
    <3>4. QED
      BY <1>7, <2>1, <3>1, <3>3, OnlyRequest DEF ListJobs
  <2>4. QED
    BY <1>7, <2>2, <2>3 DEF ListJobs
<1>8. CASE RemoveJob(h)
  <2>1. Alone(th[h]) /\ sync.at = "off" /\ \A g \in Handler \ { h } : th[g].at = "idle"
    BY <1>0, <1>8, GoesOnAlone DEF RemoveJob
  <2>2. jobs' = {}
    BY <1>8, <2>1 DEF RemoveJob, Alone
  <2>3. /\ Alone(th[h])'
        /\ th'[h].at = "idle" => Agree'
        /\ \A g \in Handler \ { h } : th'[g] = th[g]
    BY <1>8, <2>1, <2>2, AfterRemovalAlone DEF RemoveJob
  <2>4. QED
    BY <1>8, <2>1, <2>3, OnlyRequest DEF RemoveJob
<1>9. CASE AddJob(h)
  <2>1. Added(th[h].cron) /\ UNCHANGED << trouble, faults >>
    BY <1>9 DEF AddJob, Fault
  <2>2. Alone(th[h]) /\ sync.at = "off" /\ \A g \in Handler \ { h } : th[g].at = "idle"
    BY <1>0, <1>9, <2>1, GoesOnAlone DEF AddJob
  <2>3. jobs' = { row.cron } \ { Blank }
    BY <1>9, <2>1, <2>2 DEF AddJob, Alone, Added
  <2>4. CASE th[h].act = "toggle"
    <3>1. /\ th'[h].at = "flip" /\ th'[h].was = th[h].was
          /\ \A g \in Handler \ { h } : th'[g] = th[g]
      BY <1>0, <1>9, <2>4 DEF AddJob, Go, Request
    <3>2. Alone(th[h])'
      <4>1. row.is = "task" /\ ~row.active /\ ~th[h].was /\ UNCHANGED row
        BY <1>9, <2>2, <2>4 DEF AddJob, Alone
      <4>2. row'.is = "task" /\ th'[h].was = row'.active /\ ~th'[h].was
        BY <1>0, <3>1, <4>1, Zenon DEF Task, Request
      <4>3. QED
        BY <2>3, <3>1, <4>1, <4>2 DEF Alone
    <3>3. QED
      BY <1>9, <2>2, <3>1, <3>2, OnlyRequest DEF AddJob
  <2>5. CASE th[h].act # "toggle"
    <3>1. th'[h].at = "idle" /\ \A g \in Handler \ { h } : th'[g] = th[g]
      BY <1>0, <1>9, <2>5 DEF AddJob, End, Idle
    <3>2. Agree' /\ Alone(th[h])'
      BY <1>9, <2>2, <2>3, <2>5, <3>1 DEF AddJob, Alone, Agree
    <3>3. QED
      BY <1>9, <2>2, <3>1, <3>2, OnlyRequest DEF AddJob
  <2>6. QED
    BY <2>4, <2>5
<1>10. CASE Flip(h)
  <2>1. Alone(th[h]) /\ sync.at = "off" /\ \A g \in Handler \ { h } : th[g].at = "idle"
    BY <1>0, <1>10, GoesOnAlone DEF Flip
  <2>2. row'.active = ~th[h].was /\ row'.cron = row.cron /\ jobs' = jobs
    BY <1>0, <1>10, <2>1 DEF Flip, Alone, SetRow, Task
  <2>3. th'[h].at = "idle" /\ \A g \in Handler \ { h } : th'[g] = th[g]
    BY <1>0, <1>10 DEF Flip, End, Idle
  <2>4. Agree' /\ Alone(th[h])'
    BY <1>10, <2>1, <2>2, <2>3 DEF Flip, Alone, Agree
  <2>5. QED
    BY <1>10, <2>1, <2>3, <2>4, OnlyRequest DEF Flip
<1>11. CASE Erase(h)
  <2>1. Alone(th[h]) /\ sync.at = "off" /\ \A g \in Handler \ { h } : th[g].at = "idle"
    BY <1>0, <1>11, GoesOnAlone DEF Erase
  <2>2. th'[h].at = "idle" /\ \A g \in Handler \ { h } : th'[g] = th[g]
    BY <1>0, <1>11 DEF Erase, End, Idle
  <2>3. Agree' /\ Alone(th[h])'
    BY <1>11, <2>1, <2>2 DEF Erase, Alone, Agree, SetRow, NoRow
  <2>4. QED
    BY <1>11, <2>1, <2>2, <2>3, OnlyRequest DEF Erase
<1>12. ~RemovalFails(h) /\ ~RouteFails(h)
  BY DEF RemovalFails, RouteFails, Fault
<1>13. QED
  BY <1>1, <1>3, <1>4, <1>5, <1>6, <1>7, <1>8, <1>9, <1>10, <1>11, <1>12 DEF Route

LEMMA QueueStep ==
  ASSUME Types, QueueInv, [Next]_vars
  PROVE  QueueInv'
<1> SUFFICES ASSUME ~trouble' PROVE QueueInv'
  BY DEF QueueInv
<1>1. CASE Worker
  <2>1. UNCHANGED << row, jobs, th, sync, trouble >>
    BY <1>1 DEF Worker, Due, Load, Insert, Cancel, Start, JobDone, JobFails, Fault
  <2>2. QED
    BY <2>1 DEF QueueInv, AllIdle, Alone, Agree
<1>2. CASE Syncs
  <2>1. ~trouble /\ UNCHANGED << row, th >> /\ sync.at # "off"
    BY <1>2 DEF Syncs, SyncRead, SyncList, SyncAdd, SyncFails, Fault
  <2>2. sync.at = "read" /\ row = NoRow /\ jobs = {} /\ AllIdle /\ Agree
    BY <2>1 DEF QueueInv
  <2>3. sync'.at = "off" /\ jobs' = jobs
    BY <1>2, <2>2 DEF Syncs, SyncRead, SyncList, SyncAdd, SyncFails, Fault, NoSync, NoRow
  <2>4. QED
    BY <2>1, <2>2, <2>3 DEF QueueInv, AllIdle, Agree, Alone
<1>3. CASE Crash
  BY <1>3 DEF Crash, Fault
<1>4. CASE UNCHANGED vars
  BY <1>4 DEF vars, QueueInv, AllIdle, Alone, Agree
<1>5. QED
  BY <1>1, <1>2, <1>3, <1>4, RouteQueue DEF Next, Syncs

\* The queue agrees with the table whenever nothing is under way, unless
\* requests have overlapped, a call has failed, the process has died, or an
\* edit has blanked the pattern.
THEOREM QueueAgrees == Spec => []ScheduleMatches
<1>1. QueueInv => ScheduleMatches
  BY DEF QueueInv, AllIdle, Agree, ScheduleMatches, Quiet
<1>2. QED
  BY <1>1, InitTyped, InitQueue, StepTyped, QueueStep, PTL DEF Spec
===============================================================================
