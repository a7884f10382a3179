---------------------------- MODULE ServiceReplicas ----------------------------
(***************************************************************************)
(* The persistent replicas of a service tool                               *)
(* (lib/tools/service-deployment-manager.ts): the deploy route reconciles  *)
(* rows and sandboxes with the desired count under a Redis lock, the       *)
(* undeploy route and the deletion of the instance destroy them all        *)
(* without it.  A handler takes one step per call it awaits.               *)
(***************************************************************************)
EXTENDS Integers, FiniteSets, FiniteSetsExt

CONSTANTS
  Handler,      \* requests handled at one time
  NoOwner,      \* nobody holds the lock
  Redis,        \* whether Redis is configured
  MaxReplicas,  \* replicas are numbered from 0; 20 in the code
  MaxBoxes,     \* bound: sandboxes in existence or remembered
  MaxFaults     \* bound: crashes and failing calls of the sandbox service

ASSUME OwnerAssumption == NoOwner \notin Handler
ASSUME RedisAssumption == Redis \in BOOLEAN
ASSUME NumberAssumption ==
  MaxReplicas \in Nat \ {0} /\ MaxBoxes \in Nat \ {0} /\ MaxFaults \in Nat

VARIABLES
  exists,    \* the row of tool_instances
  deployed,  \* its deploy column says deployed, with ready replicas
  row,       \* tool_service_replicas, by ordinal
  up,        \* sandboxes that run
  lock,      \* the key crewmeld:service:<instance>:reconcile
  th,        \* the handlers
  overdue,   \* handlers whose lock expired before they were done
  faults,
  clean,     \* reconciling handlers nobody has interfered with
  leaky      \* something has happened that may leave a sandbox behind

shown == << exists, deployed >>
history == << clean, leaky >>
vars == << shown, row, up, lock, th, overdue, faults, history >>

Lock == INSTANCE RedisLock WITH key <- lock

Ordinals == 0 .. MaxReplicas - 1
NoBox == 0
Boxes == 1 .. MaxBoxes
Row == [ status : { "none", "creating", "ready", "stopping", "failed" }, box : Boxes \cup { NoBox } ]
NoRow == [ status |-> "none", box |-> NoBox ]
HasRow(o) == row[o].status # "none"

Section == { "read", "work", "kill", "drop", "create", "settle", "release" }
Removing == { "wipe", "unpublish", "erase" }

NoBoxes == [ o \in Ordinals |-> NoBox ]

\* Where a handler is and what it remembers: the count it was asked for, the
\* sandboxes it is to destroy and the ordinals it has yet to take down or to
\* deploy, those of them that had no row, its new sandbox, what comes next.
Idle == [ at |-> "idle", want |-> 1, seen |-> NoBoxes, left |-> {}, todo |-> {},
          new |-> {}, box |-> NoBox, then |-> "idle" ]

InSection == { h \in Handler : th[h].at \in Section }
Reconciling == { h \in Handler : th[h].at \in Section \cup { "lock", "publish" } }
Destroying == { h \in Handler : th[h].at \in Removing }

To(h, place) == th' = [ th EXCEPT ![h].at = place ]
Leaves(h) == th' = [ th EXCEPT ![h] = Idle ]

\* Only h may still call itself undisturbed.
Disturbs(h) == clean' = clean \cap { h }

Init ==
  /\ exists = TRUE /\ deployed = FALSE
  /\ row = [ o \in Ordinals |-> NoRow ] /\ up = {}
  /\ lock = NoOwner /\ th = [ h \in Handler |-> Idle ] /\ overdue = {}
  /\ faults = 0 /\ clean = {} /\ leaky = FALSE

Fault == faults < MaxFaults /\ faults' = faults + 1

-------------------------------------------------------------------------------
(* The deploy route and reconcileServiceReplicas.                          *)

\* The deploy route, with the desired count the service route stored last.
Deploy(h, n) ==
  /\ th[h].at = "idle" /\ exists
  /\ th' = [ th EXCEPT ![h] = [ Idle EXCEPT !.at = "lock", !.want = n ] ]
  /\ leaky' = (leaky \/ Destroying # {})
  /\ UNCHANGED << shown, row, up, lock, overdue, faults, clean >>

\* acquireLock, or the request fails: scaling is in progress.
Acquire(h) ==
  /\ th[h].at = "lock"
  /\ \/ Lock!AcquireLock(h) /\ To(h, "read")
     \/ ~Lock!Acquires /\ Leaves(h) /\ UNCHANGED lock
  /\ UNCHANGED << shown, row, up, overdue, faults, history >>

\* Mutant: any row counts as a replica that need not be deployed.
MissingRows(want) == { o \in Ordinals : o < want /\ ~HasRow(o) }

\* A replica that is not ready is deployed again.
ToDeploy(want) ==
  { o \in Ordinals : o < want /\ ~(row[o].status = "ready" /\ row[o].box # NoBox) }

\* The rows are read once; what follows works on this reading.
Read(h) ==
  /\ th[h].at = "read"
  /\ LET excess == { o \in Ordinals : HasRow(o) /\ o >= th[h].want } IN
       th' = [ th EXCEPT ![h].at = "work", ![h].left = excess,
                 ![h].seen = [ o \in Ordinals |-> IF o \in excess THEN row[o].box ELSE NoBox ],
                 ![h].todo = ToDeploy(th[h].want),
                 ![h].new = { o \in ToDeploy(th[h].want) : ~HasRow(o) } ]
  /\ clean' = IF InSection = { h } /\ Destroying = {} THEN { h } ELSE {}
  /\ UNCHANGED << shown, row, up, lock, overdue, faults, leaky >>

\* Mutant: a replica is taken down without a mark on its row.
StopUnmarked(h) ==
  /\ th[h].at = "work" /\ th[h].left # {}
  /\ To(h, "kill") /\ Disturbs(h)
  /\ UNCHANGED << shown, row, up, lock, overdue, faults, leaky >>

\* Scale down, from the highest ordinal: the row is marked first.
Stop(h) ==
  /\ th[h].at = "work" /\ th[h].left # {}
  /\ LET o == Max(th[h].left) IN
       row' = IF HasRow(o) THEN [ row EXCEPT ![o].status = "stopping" ] ELSE row
  /\ To(h, "kill") /\ Disturbs(h)
  /\ UNCHANGED << shown, up, lock, overdue, faults, leaky >>

\* An error of destroy is logged and swallowed.
Kill(h) ==
  /\ th[h].at = "kill"
  /\ LET o == Max(th[h].left) IN
       /\ th' = [ th EXCEPT ![h].at = "drop", ![h].seen[o] = NoBox ]
       /\ \/ up' = up \ { th[h].seen[o] } /\ UNCHANGED << faults, leaky >>
          \/ Fault /\ leaky' = TRUE /\ UNCHANGED up
  /\ UNCHANGED << shown, row, lock, overdue, clean >>

Drop(h) ==
  /\ th[h].at = "drop"
  /\ LET o == Max(th[h].left) IN
       /\ row' = [ row EXCEPT ![o] = NoRow ]
       /\ th' = [ th EXCEPT ![h].at = "work", ![h].left = @ \ { o } ]
  /\ Disturbs(h)
  /\ UNCHANGED << shown, up, lock, overdue, faults, leaky >>

Deploys(h) == th[h].at = "work" /\ th[h].left = {} /\ th[h].todo # {}

\* The row of the lowest ordinal to deploy is updated, or inserted.
Mark(h) ==
  /\ Deploys(h)
  /\ LET o == Min(th[h].todo)
         inserts == o \in th[h].new
     IN  /\ ~(inserts /\ (HasRow(o) \/ ~exists))
         /\ row' = IF inserts THEN [ row EXCEPT ![o] = [ status |-> "creating", box |-> NoBox ] ]
                   ELSE IF HasRow(o) THEN [ row EXCEPT ![o].status = "creating" ]
                   ELSE row
  /\ To(h, "create") /\ Disturbs(h)
  /\ UNCHANGED << shown, up, lock, overdue, faults, leaky >>

\* The insertion fails: somebody else's row is there, or the instance is gone.
InsertFails(h) ==
  /\ Deploys(h)
  /\ LET o == Min(th[h].todo) IN o \in th[h].new /\ (HasRow(o) \/ ~exists)
  /\ th' = [ th EXCEPT ![h].at = "release", ![h].todo = {}, ![h].new = {} ]
  /\ clean' = clean \ { h }
  /\ UNCHANGED << shown, row, up, lock, overdue, faults, leaky >>

\* An id no sandbox has that is still remembered.
Remembered == { row[o].box : o \in Ordinals }
  \cup UNION { { th[h].box } \cup { th[h].seen[o] : o \in Ordinals } : h \in Handler }

\* Mutant: the id of the new sandbox is not kept.
CreateUnnamed(h) ==
  /\ th[h].at = "create"
  /\ LET free == Boxes \ (up \cup Remembered) IN
       /\ free # {}
       /\ up' = up \cup { Min(free) }
       /\ To(h, "settle")
  /\ UNCHANGED << shown, row, lock, overdue, faults, history >>

Create(h) ==
  /\ th[h].at = "create"
  /\ LET free == Boxes \ (up \cup Remembered) IN
       /\ free # {}
       /\ up' = up \cup { Min(free) }
       /\ th' = [ th EXCEPT ![h].at = "settle", ![h].box = Min(free) ]
  /\ UNCHANGED << shown, row, lock, overdue, faults, history >>

\* UPDATE of one row by its id: without the row it changes nothing.
UpdateRow(h, new) ==
  LET o == Min(th[h].todo) IN
    /\ row' = IF HasRow(o) THEN [ row EXCEPT ![o] = new ] ELSE row
    /\ th' = [ th EXCEPT ![h].at = "work", ![h].todo = @ \ { o }, ![h].new = @ \ { o },
                         ![h].box = NoBox ]

\* The service listens: its sandbox is recorded.
Ready(h) ==
  /\ th[h].at = "settle"
  /\ UpdateRow(h, [ status |-> "ready", box |-> th[h].box ])
  /\ Disturbs(h)
  /\ UNCHANGED << shown, up, lock, overdue, faults, leaky >>

\* Mutant: the sandbox whose port stays closed is not destroyed.
DeployFailsAndKeeps(h) ==
  /\ th[h].at \in { "create", "settle" }
  /\ Fault
  /\ UpdateRow(h, [ row[Min(th[h].todo)] EXCEPT !.status = "failed" ])
  /\ clean' = {}
  /\ UNCHANGED << shown, up, lock, overdue, leaky >>

\* No sandbox; or its init fails or its port stays closed, and it is
\* destroyed; or another call throws, and nobody destroys it.
DeployFails(h) ==
  /\ th[h].at \in { "create", "settle" }
  /\ Fault
  /\ UpdateRow(h, [ row[Min(th[h].todo)] EXCEPT !.status = "failed" ])
  /\ \/ up' = up \ { th[h].box } /\ UNCHANGED leaky
     \/ th[h].at = "settle" /\ leaky' = TRUE /\ UNCHANGED up
  /\ clean' = {}
  /\ UNCHANGED << shown, lock, overdue >>

\* The ready replicas are counted, for the deploy column.
Finish(h) ==
  /\ th[h].at = "work" /\ th[h].left = {} /\ th[h].todo = {}
  /\ th' = [ th EXCEPT ![h].at = "release",
       ![h].then = IF \E o \in Ordinals : row[o].status = "ready" THEN "deployed" ELSE "failed" ]
  /\ UNCHANGED << shown, row, up, lock, overdue, faults, history >>

\* The finally clause.
Release(h) ==
  /\ th[h].at = "release"
  /\ Lock!ReleaseLock(h)
  /\ th' = [ th EXCEPT ![h] = IF th[h].then = "idle" THEN Idle
                              ELSE [ Idle EXCEPT !.at = "publish", !.then = th[h].then ] ]
  /\ overdue' = overdue \ { h } /\ clean' = clean \ { h }
  /\ UNCHANGED << shown, row, up, faults, leaky >>

\* The route stores the outcome, when the lock is no longer held.
Publish(h) ==
  /\ th[h].at = "publish"
  /\ deployed' = (exists /\ th[h].then = "deployed")
  /\ Leaves(h)
  /\ UNCHANGED << exists, row, up, lock, overdue, faults, history >>

-------------------------------------------------------------------------------
(* destroyServiceReplicas, from the undeploy route or the deletion of the  *)
(* instance.                                                               *)

BoxOf == [ o \in Ordinals |-> row[o].box ]
Boxed == { o \in Ordinals : row[o].box # NoBox }

Undeploy(h) ==
  /\ th[h].at = "idle" /\ exists
  /\ th' = [ th EXCEPT ![h] =
       [ Idle EXCEPT !.at = "wipe", !.seen = BoxOf, !.left = Boxed, !.then = "unpublish" ] ]
  /\ leaky' = (leaky \/ Reconciling # {})
  /\ UNCHANGED << shown, row, up, lock, overdue, faults, clean >>

\* The deletion destroys the replicas only if the deploy column counts some.
Delete(h) ==
  /\ th[h].at = "idle" /\ exists
  /\ th' = [ th EXCEPT ![h] =
       IF deployed
       THEN [ Idle EXCEPT !.at = "wipe", !.seen = BoxOf, !.left = Boxed, !.then = "erase" ]
       ELSE [ Idle EXCEPT !.at = "erase" ] ]
  /\ leaky' = (leaky \/ Reconciling # {} \/ (~deployed /\ Boxed # {}))
  /\ UNCHANGED << shown, row, up, lock, overdue, faults, clean >>

\* One sandbox after the other; errors are logged and swallowed.
Wipe(h) ==
  /\ th[h].at = "wipe"
  /\ \E o \in th[h].left :
       /\ th' = [ th EXCEPT ![h].left = @ \ { o } ]
       /\ \/ up' = up \ { th[h].seen[o] } /\ UNCHANGED << faults, leaky >>
          \/ Fault /\ leaky' = TRUE /\ UNCHANGED up
  /\ Disturbs(h)
  /\ UNCHANGED << shown, row, lock, overdue >>

\* All rows of the instance are deleted, also those it has not read.
Clear(h) ==
  /\ th[h].at = "wipe" /\ th[h].left = {}
  /\ row' = [ o \in Ordinals |-> NoRow ]
  /\ th' = [ th EXCEPT ![h].at = th[h].then, ![h].seen = NoBoxes ]
  /\ Disturbs(h)
  /\ UNCHANGED << shown, up, lock, overdue, faults, leaky >>

Unpublish(h) ==
  /\ th[h].at = "unpublish"
  /\ deployed' = FALSE
  /\ Leaves(h)
  /\ UNCHANGED << exists, row, up, lock, overdue, faults, history >>

\* The instance goes, and its replica rows with it.
Erase(h) ==
  /\ th[h].at = "erase"
  /\ exists' = FALSE /\ deployed' = FALSE
  /\ row' = [ o \in Ordinals |-> NoRow ]
  /\ Leaves(h) /\ Disturbs(h)
  /\ UNCHANGED << up, lock, overdue, faults, leaky >>

-------------------------------------------------------------------------------
\* The application replica of a handler dies; its lock stays until it expires.
Crash(h) ==
  /\ th[h].at # "idle" /\ Fault
  /\ Leaves(h)
  /\ overdue' = overdue \ { h } /\ clean' = {} /\ leaky' = TRUE
  /\ UNCHANGED << shown, row, up, lock >>

LockExpires ==
  /\ Redis /\ Lock!Expire
  /\ overdue' = overdue \cup ({ lock } \cap InSection)
  /\ leaky' = (leaky \/ lock \in InSection)
  /\ UNCHANGED << shown, row, up, th, faults, clean >>

Reconcile(h) ==
  \/ Acquire(h) \/ Read(h) \/ Stop(h) \/ Kill(h) \/ Drop(h) \/ Mark(h) \/ InsertFails(h)
  \/ Create(h) \/ Ready(h) \/ DeployFails(h) \/ Finish(h) \/ Release(h) \/ Publish(h)

Destroy(h) == Wipe(h) \/ Clear(h) \/ Unpublish(h) \/ Erase(h)

Next ==
  \/ \E h \in Handler :
       \/ \E n \in 1 .. MaxReplicas : Deploy(h, n)
       \/ Undeploy(h) \/ Delete(h)
       \/ Reconcile(h) \/ Destroy(h) \/ Crash(h)
  \/ LockExpires

Spec == Init /\ [][Next]_vars

-------------------------------------------------------------------------------
(* Properties.                                                             *)

TypeOK ==
  /\ exists \in BOOLEAN /\ deployed \in BOOLEAN /\ leaky \in BOOLEAN
  /\ row \in [ Ordinals -> Row ] /\ up \in SUBSET Boxes
  /\ lock \in Handler \cup { NoOwner }
  /\ overdue \in SUBSET InSection /\ clean \in SUBSET InSection
  /\ faults \in 0 .. MaxFaults
  /\ \A h \in Handler :
       /\ th[h].at \in Section \cup Removing \cup { "idle", "lock", "publish" }
       /\ th[h].want \in 1 .. MaxReplicas /\ th[h].seen \in [ Ordinals -> Boxes \cup { NoBox } ]
       /\ th[h].new \subseteq th[h].todo
       /\ th[h].at \in { "kill", "drop" } => th[h].left # {}
       /\ th[h].at \in { "create", "settle" } => th[h].todo # {}
       /\ th[h].at = "settle" <=> th[h].box # NoBox

\* Two requests reconcile at one time only if the lock of one of them expired
\* while it was still at work; and that one, when it is done, does not take the
\* lock away from the next.
OneReconciler ==
  Redis => \A g, h \in InSection : g = h \/ g \in overdue \/ h \in overdue

\* A row that says ready has a sandbox that was not destroyed, unless a request
\* that destroys all replicas is between that sandbox and the rows, or one of
\* the troubles that NoOrphans names has occurred: the selector would send calls
\* to a sandbox that is gone.
ReadyIsUp ==
  \A o \in Ordinals : row[o].status = "ready" =>
    row[o].box \in up \/ leaky \/ \E h \in Destroying : th[h].seen[o] = row[o].box

\* Every sandbox belongs to a row or is in the hands of a request, as long as
\* no request that destroys ran beside one that deploys, none died or outlived
\* its lock, the sandbox service did what it was asked, and no deletion went by
\* a deploy column in which a late request had stored its older outcome.
NoOrphans ==
  up \subseteq Remembered \/ leaky

\* Whatever crashes, failures and overlaps have left in the table, a
\* reconciliation that nobody disturbs and whose deployments succeed leaves
\* exactly the replicas asked for, all of them ready.
Heals ==
  \A h \in clean : th[h].at = "release" =>
    \A o \in Ordinals : row[o].status = IF o < th[h].want THEN "ready" ELSE "none"
===============================================================================
