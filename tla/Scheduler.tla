------------------------------- MODULE Scheduler -------------------------------
(***************************************************************************)
(* A scheduled task: its row in scheduled_tasks, which the routes under    *)
(* app/api/employee/scheduled-tasks create, edit, toggle and delete; its   *)
(* repeatable jobs in the queue, which the routes add and remove in calls  *)
(* of their own and lib/sop/scheduler.ts restores when the process starts; *)
(* and the executions it starts when a job is due.                         *)
(*                                                                         *)
(* Tasks do not touch one another: there is one.  What an execution does   *)
(* once it is running is in SopEngine.  The next-run column, which is only *)
(* shown, and the SOP-level timer are left out, and so is the time zone,   *)
(* but for an edit that gives nothing else.                                *)
(*                                                                         *)
(* The queue is external.  That it lists a repeatable job with the id it   *)
(* was added with is assumed, for removal and synchronisation look for it. *)
(* Without Redis there is no queue: nothing is registered or fires, and    *)
(* the statements on it do nothing; what is modelled is a process with it. *)
(***************************************************************************)
EXTENDS Naturals

CONSTANTS
  Handler,   \* requests handled at one time
  Cron,      \* cron patterns
  Blank,     \* the empty pattern; only an edit can set it
  Keep,      \* an edit of the time zone only
  None,      \* no pattern
  MaxFaults  \* bound: failing statements, failing queue calls, crashes

ASSUME CronAssumption ==
  /\ Blank \notin Cron /\ Keep \notin Cron \cup { Blank }
  /\ None \notin Cron \cup { Blank, Keep }
ASSUME NumberAssumption == MaxFaults \in Nat

VARIABLES
  row,      \* the task
  jobs,     \* the patterns of its repeatable jobs; the queue keys them so
  th,       \* the requests
  sync,     \* the synchronisation of a starting process
  due,      \* the job that is due, in the hands of the worker
  trouble,  \* whether requests overlapped or anything failed, so far
  faults

vars == << row, jobs, th, sync, due, trouble, faults >>

NoRow == [ is |-> "none", active |-> FALSE, cron |-> None ]

\* A request: what it does, where it is, whether the task was active when it
\* read the row, the pattern it will register, the job it is about to remove.
Idle == [ at |-> "idle", act |-> "none", was |-> FALSE, cron |-> None, key |-> None ]
\* The synchronisation: the row it has read; whether nothing has disturbed it.
NoSync == [ at |-> "off", seen |-> NoRow, quiet |-> TRUE ]
\* A due job: executions inserted, started, and refused by the start; whether
\* the one that waits for its start has been cancelled; whether the row has
\* changed since the worker read it; how often the job was found stalled.
NotDue == [ at |-> "none", inserted |-> 0, started |-> 0, refused |-> 0, cancelled |-> FALSE,
            stale |-> FALSE, stalls |-> 0 ]

Init ==
  /\ row = NoRow /\ jobs = {} /\ th = [ h \in Handler |-> Idle ]
  /\ sync = [ NoSync EXCEPT !.at = "read" ]
  /\ due = NotDue
  /\ trouble = FALSE /\ faults = 0

Fault == faults < MaxFaults /\ faults' = faults + 1 /\ trouble' = TRUE
Go(h, place) == th' = [ th EXCEPT ![h].at = place ]
End(h) == th' = [ th EXCEPT ![h] = Idle ]

\* A request that begins while another, or the synchronisation, is under way.
Begin(h) ==
  /\ th[h].at = "idle"
  /\ trouble' = (trouble \/ sync.at # "off" \/ \E g \in Handler : th[g].at # "idle")
  /\ sync' = [ sync EXCEPT !.quiet = FALSE ]

SetRow(new) ==
  /\ row' = new
  /\ due' = [ due EXCEPT !.stale = @ \/ (due.at = "insert" /\ new.active # row.active) ]

-------------------------------------------------------------------------------
(* The routes.                                                             *)

\* POST: the row, then the job.
Create(h, cron) ==
  /\ Begin(h) /\ row.is = "none"
  /\ SetRow([ is |-> "task", active |-> TRUE, cron |-> cron ])
  /\ th' = [ th EXCEPT ![h] = [ Idle EXCEPT !.at = "add", !.act = "create", !.cron = cron ] ]
  /\ UNCHANGED << jobs, faults >>

\* PATCH, toggle and DELETE read the row first.
Read(h, request) ==
  /\ Begin(h) /\ row.is = "task"
  /\ th' = [ th EXCEPT ![h] = request ]
  /\ UNCHANGED << row, jobs, due, faults >>

\* The pattern to register: the one that was given, or else the one read.
NewCron(edit) == IF edit = Keep THEN row.cron ELSE edit

Patch(h, edit) ==
  Read(h, [ Idle EXCEPT !.at = "update", !.act = IF edit = Keep THEN "zone" ELSE "patch",
                        !.was = row.active, !.cron = NewCron(edit) ])
Toggle(h) ==
  Read(h, IF row.active
          THEN [ Idle EXCEPT !.at = "list", !.act = "toggle", !.was = TRUE ]
          ELSE [ Idle EXCEPT !.at = "add", !.act = "toggle", !.cron = row.cron ])
Delete(h) == Read(h, [ Idle EXCEPT !.at = "list", !.act = "delete" ])

\* The fields that were given are written; a pattern or a zone that is not
\* empty has the task scheduled anew.
UpdateRow(h) ==
  /\ th[h].at = "update"
  /\ IF row.is = "task" /\ th[h].act = "patch" THEN SetRow([ row EXCEPT !.cron = th[h].cron ])
     ELSE UNCHANGED << row, due >>
  /\ IF th[h].act = "patch" /\ th[h].cron = Blank THEN End(h) ELSE Go(h, "list")
  /\ UNCHANGED << jobs, sync, trouble, faults >>

\* Mutant: an edited task is registered even if it is disabled.
AfterRemovalAdds(h) ==
  LET request == [ th[h] EXCEPT !.key = None ] IN
  th' = [ th EXCEPT ![h] =
    CASE request.act = "toggle" -> [ request EXCEPT !.at = "flip" ]
      [] request.act = "delete" -> [ request EXCEPT !.at = "erase" ]
      [] OTHER -> [ request EXCEPT !.at = "add" ] ]

\* After the job is gone, or was not there, or could not be removed.
AfterRemoval(h) ==
  LET request == [ th[h] EXCEPT !.key = None ] IN
  th' = [ th EXCEPT ![h] =
    CASE request.act = "toggle" -> [ request EXCEPT !.at = "flip" ]
      [] request.act = "delete" -> [ request EXCEPT !.at = "erase" ]
      [] OTHER -> IF request.was THEN [ request EXCEPT !.at = "add" ] ELSE Idle ]

\* removeScheduledTask: the first of the jobs with the task's id ...
ListJobs(h) ==
  /\ th[h].at = "list"
  /\ IF jobs = {} THEN AfterRemoval(h)
     ELSE \E key \in jobs : th' = [ th EXCEPT ![h].at = "remove", ![h].key = key ]
  /\ UNCHANGED << row, jobs, sync, due, trouble, faults >>

\* ... is removed by its key.
RemoveJob(h) ==
  /\ th[h].at = "remove"
  /\ jobs' = jobs \ { th[h].key }
  /\ AfterRemoval(h)
  /\ UNCHANGED << row, sync, due, trouble, faults >>

RemovalFails(h) ==
  /\ th[h].at \in { "list", "remove" } /\ Fault
  /\ AfterRemoval(h)
  /\ UNCHANGED << row, jobs, sync, due >>

\* The queue takes no empty pattern.
Added(cron) == jobs' = jobs \cup ({ cron } \ { Blank })

\* registerScheduledTask: what the queue throws is logged.
AddJob(h) ==
  /\ th[h].at = "add"
  /\ \/ Added(th[h].cron) /\ UNCHANGED << trouble, faults >>
     \/ Fault /\ UNCHANGED jobs
  /\ IF th[h].act = "toggle" THEN Go(h, "flip") ELSE End(h)
  /\ UNCHANGED << row, sync, due >>

Flip(h) ==
  /\ th[h].at = "flip"
  /\ IF row.is = "task" THEN SetRow([ row EXCEPT !.active = ~th[h].was ])
     ELSE UNCHANGED << row, due >>
  /\ End(h)
  /\ UNCHANGED << jobs, sync, trouble, faults >>

Erase(h) ==
  /\ th[h].at = "erase"
  /\ SetRow([ NoRow EXCEPT !.is = "gone" ])
  /\ End(h)
  /\ UNCHANGED << jobs, sync, trouble, faults >>

\* A statement throws and the route answers 500.
RouteFails(h) ==
  /\ th[h].at \in { "update", "flip", "erase" } /\ Fault
  /\ End(h)
  /\ UNCHANGED << row, jobs, sync, due >>

-------------------------------------------------------------------------------
(* syncScheduledTasks.                                                     *)

\* Mutant: every task is read, the disabled ones instead of the active ones.
SyncReadDisabled ==
  /\ sync.at = "read"
  /\ sync' = IF row.is = "task" /\ ~row.active
             THEN [ sync EXCEPT !.at = "list", !.seen = row ] ELSE NoSync
  /\ UNCHANGED << row, jobs, th, due, trouble, faults >>

SyncRead ==
  /\ sync.at = "read"
  /\ sync' = IF row.active THEN [ sync EXCEPT !.at = "list", !.seen = row ] ELSE NoSync
  /\ UNCHANGED << row, jobs, th, due, trouble, faults >>

\* A task that has a job, whichever, is left alone.
SyncList ==
  /\ sync.at = "list"
  /\ sync' = IF jobs = {} THEN [ sync EXCEPT !.at = "add" ] ELSE NoSync
  /\ UNCHANGED << row, jobs, th, due, trouble, faults >>

SyncAdd ==
  /\ sync.at = "add"
  /\ Added(sync.seen.cron)
  /\ sync' = NoSync
  /\ UNCHANGED << row, th, due, trouble, faults >>

SyncFails ==
  /\ sync.at # "off" /\ Fault
  /\ sync' = NoSync
  /\ UNCHANGED << row, jobs, th, due >>

-------------------------------------------------------------------------------
(* processScheduledTask.                                                   *)

\* A job is due; the worker has it.
Due ==
  /\ jobs # {} /\ due.at = "none"
  /\ due' = [ due EXCEPT !.at = "load" ]
  /\ UNCHANGED << row, jobs, th, sync, trouble, faults >>

\* Mutant: whether the task is active is not asked.
LoadAny ==
  /\ due.at = "load"
  /\ due' = IF row.is = "task" THEN [ due EXCEPT !.at = "insert", !.stale = FALSE ] ELSE NotDue
  /\ UNCHANGED << row, jobs, th, sync, trouble, faults >>

\* The task, if it is there and active; and its SOP.
Load ==
  /\ due.at = "load"
  /\ due' = IF row.active THEN [ due EXCEPT !.at = "insert", !.stale = FALSE ] ELSE NotDue
  /\ UNCHANGED << row, jobs, th, sync, trouble, faults >>

\* The execution is inserted, pending; the task's times are written and the
\* timer of the SOP is set ...
Insert ==
  /\ due.at = "insert"
  /\ due' = [ due EXCEPT !.at = "start", !.inserted = @ + 1, !.cancelled = FALSE,
                           !.stale = FALSE ]
  /\ UNCHANGED << row, jobs, th, sync, trouble, faults >>

\* ... where anyone who sees it may cancel it ...
Cancel ==
  /\ due.at = "start" /\ ~due.cancelled
  /\ due' = [ due EXCEPT !.cancelled = TRUE ]
  /\ UNCHANGED << row, jobs, th, sync, trouble, faults >>

\* ... and it is running, unless it was; that is logged.
Start ==
  /\ due.at = "start"
  /\ due' = IF due.cancelled
            THEN [ due EXCEPT !.at = "end", !.cancelled = FALSE, !.refused = @ + 1 ]
            ELSE [ due EXCEPT !.at = "end", !.started = @ + 1 ]
  /\ UNCHANGED << row, jobs, th, sync, trouble, faults >>

JobDone ==
  /\ due.at = "end"
  /\ due' = NotDue
  /\ UNCHANGED << row, jobs, th, sync, trouble, faults >>

\* Mutant: the queue tries a failed job again.
JobRetried ==
  /\ due.at \in { "load", "insert", "start" } /\ Fault
  /\ due' = [ due EXCEPT !.at = "load" ]
  /\ UNCHANGED << row, jobs, th, sync >>

\* A job has one attempt.
JobFails ==
  /\ due.at \in { "load", "insert", "start" } /\ Fault
  /\ due' = NotDue
  /\ UNCHANGED << row, jobs, th, sync >>

\* The process dies and starts again.  Requests are gone; a job it was working
\* on is found stalled and runs again, the first time.
Crash ==
  /\ Fault
  /\ th' = [ h \in Handler |-> Idle ]
  /\ sync' = [ NoSync EXCEPT !.at = "read" ]
  /\ due' = IF due.at # "none" /\ due.stalls = 0
            THEN [ due EXCEPT !.at = "load", !.stalls = 1 ] ELSE NotDue
  /\ UNCHANGED << row, jobs >>

-------------------------------------------------------------------------------
Route(h) ==
  \/ \E cron \in Cron : Create(h, cron)
  \/ \E edit \in Cron \cup { Blank, Keep } : Patch(h, edit)
  \/ Toggle(h) \/ Delete(h)
  \/ UpdateRow(h) \/ ListJobs(h) \/ RemoveJob(h) \/ RemovalFails(h)
  \/ AddJob(h) \/ Flip(h) \/ Erase(h) \/ RouteFails(h)

Worker == Due \/ Load \/ Insert \/ Cancel \/ Start \/ JobDone \/ JobFails

Next ==
  \/ \E h \in Handler : Route(h)
  \/ Worker
  \/ SyncRead \/ SyncList \/ SyncAdd \/ SyncFails
  \/ Crash

Spec == Init /\ [][Next]_vars

-------------------------------------------------------------------------------
(* Properties.                                                             *)

Quiet == sync.at = "off" /\ \A h \in Handler : th[h].at = "idle"

TypeOK ==
  /\ row.is \in { "none", "task", "gone" } /\ row.active \in BOOLEAN
  /\ row.is = "task" => row.cron \in Cron \cup { Blank }
  /\ row.active => row.is = "task"
  /\ jobs \subseteq Cron
  /\ \A h \in Handler :
       /\ th[h].at \in { "idle", "update", "list", "remove", "add", "flip", "erase" }
       /\ th[h].at = "add" => th[h].cron \in Cron \cup { Blank }
       /\ th[h].at = "remove" => th[h].key \in Cron
  /\ sync.at \in { "list", "add" } => sync.seen.is = "task"
  /\ due.inserted \in Nat /\ due.started \in Nat /\ due.refused \in Nat /\ due.stalls \in 0 .. 1
  /\ trouble \in BOOLEAN /\ faults \in 0 .. MaxFaults

\* The queue agrees with the table: with nothing under way an active task has
\* one job, of its present pattern, and a task that is disabled or deleted has
\* none.  Only requests that overlap, a call that failed, a crash, or an edit
\* that blanked the pattern leave another state behind.
ScheduleMatches ==
  Quiet /\ ~trouble /\ row.cron # Blank => jobs = IF row.active THEN { row.cron } ELSE {}

\* A start of the process heals what earlier troubles lost, and nothing else:
\* when the synchronisation ends with nothing having failed or disturbed it, an
\* active task with a pattern has a job; if it had none, one of its present
\* pattern; jobs it had, of whichever patterns, are as they were.
RestartHeals ==
  [][ sync.at # "off" /\ sync'.at = "off" /\ sync.quiet /\ faults' = faults
        /\ row.active /\ row.cron # Blank
        => jobs' = IF jobs = {} THEN { row.cron } ELSE jobs ]_vars

\* Whatever jobs were left behind: no execution is created for a task that is
\* disabled or deleted, unless it became so after the worker had read it.
OnlyActiveFires ==
  [][ due'.inserted > due.inserted => row.active \/ due.stale ]_vars

\* A due job leads to one execution, and to one more only when the process
\* died while working on it.  Each is started or, if someone cancelled it
\* first, refused, and never both; one of which neither holds is left behind
\* only by a failure or a crash.
RunsAccounted ==
  /\ due.inserted <= 1 + due.stalls
  /\ due.started + due.refused <= due.inserted
  /\ due.at \in { "load", "end" } /\ due.stalls = 0 => due.started + due.refused = due.inserted
===============================================================================
