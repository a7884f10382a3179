------------------------- MODULE ServiceReplicasProofs -------------------------
(***************************************************************************)
(* Proofs about ServiceReplicas, for any number of requests, replicas,     *)
(* sandboxes and faults: its types; that two requests reconcile at one     *)
(* time only if the lock of one of them has expired; that an undisturbed   *)
(* reconciliation leaves the replicas asked for; that a row that says      *)
(* ready has a sandbox that runs; and that no sandbox is forgotten.        *)
(***************************************************************************)
EXTENDS ServiceReplicas, WellFoundedInduction, TLAPS

Places == Section \cup Removing \cup { "idle", "lock", "publish" }
Sandbox == Boxes \cup { NoBox }
Request == [ at : Places, want : 1 .. MaxReplicas, seen : [ Ordinals -> Sandbox ],
             left : SUBSET Ordinals, todo : SUBSET Ordinals, new : SUBSET Ordinals,
             box : Sandbox, then : { "idle", "deployed", "failed", "unpublish", "erase" } ]

Sound(r) ==
  /\ r \in Request
  /\ r.new \subseteq r.todo
  /\ r.at \in { "kill", "drop" } => r.left # {}
  /\ r.at \in { "create", "settle" } => r.todo # {}
  /\ r.at = "settle" <=> r.box # NoBox
  /\ r.at = "lock" => r.then = "idle"
  /\ r.at = "wipe" => r.then \in { "unpublish", "erase" }
  /\ r.at \in Section => r.then \notin { "unpublish", "erase" }

Requests == th \in [ Handler -> Request ] /\ \A h \in Handler : Sound(th[h])

Stores ==
  /\ exists \in BOOLEAN /\ deployed \in BOOLEAN /\ leaky \in BOOLEAN
  /\ row \in [ Ordinals -> Row ] /\ up \in SUBSET Boxes
  /\ lock \in Handler \cup { NoOwner }
  /\ faults \in 0 .. MaxFaults

Types == Requests /\ Stores /\ overdue \in SUBSET InSection /\ clean \in SUBSET InSection

\* Who is in the critical section holds the lock, or it expired behind him.
Locked == Redis => \A h \in InSection : h \in overdue \/ lock = h

-------------------------------------------------------------------------------
(* What the operators return.                                              *)

LEMMA LeastNatural ==
  ASSUME NEW S \in SUBSET Nat, S # {}
  PROVE  \E x \in S : \A y \in S : x <= y
<1>1. \E x \in S : \A y \in S : ~ (<< y, x >> \in OpToRel(<, Nat))
  BY NatLessThanWellFounded, WFMin
<1>2. PICK x \in S : \A y \in S : ~ (<< y, x >> \in OpToRel(<, Nat))
  BY <1>1
<1>3. ASSUME NEW y \in S PROVE ~(y < x)
  <2>1. y < x => << y, x >> \in OpToRel(<, Nat)
    BY Zenon DEF OpToRel
  <2>2. QED
    BY <1>2, <2>1, Zenon
<1>4. ASSUME NEW y \in S PROVE x <= y
  BY <1>3
<1>5. QED
  BY <1>4

LEMMA LeastMember ==
  ASSUME NEW S \in SUBSET Nat, S # {}
  PROVE  Min(S) \in S
BY LeastNatural DEF Min

\* A set of ordinals has a greatest one: it is the least by its distance from
\* their number.
LEMMA GreatestMember ==
  ASSUME NEW S \in SUBSET Ordinals, S # {}
  PROVE  Max(S) \in S
<1> DEFINE D == { n \in Nat : \E x \in S : n = MaxReplicas - x }
<1>1. ASSUME NEW x \in S PROVE x \in Nat /\ MaxReplicas - x \in D
  BY NumberAssumption DEF Ordinals
<1>2. D # {} /\ D \in SUBSET Nat
  BY <1>1
<1>3. PICK n \in D : \A m \in D : n <= m
  <2> HIDE DEF D
  <2>1. QED
    BY <1>2, LeastNatural
<1>4. PICK x \in S : n = MaxReplicas - x
  BY <1>3
<1>5. \A y \in S : x >= y
  BY <1>1, <1>3, <1>4, NumberAssumption
<1>6. QED
  BY <1>4, <1>5 DEF Max

\* A request goes on: the others stay where they are.
LEMMA RequestStep ==
  ASSUME Types, NEW h \in Handler, NEW r, Sound(r), th' = [ th EXCEPT ![h] = r ]
  PROVE  /\ Requests'
         /\ r.at \in Section => InSection' = InSection \cup { h }
         /\ r.at \notin Section => InSection' = InSection \ { h }
<1>1. r \in Request
  BY DEF Sound
<1>2. th' \in [ Handler -> Request ] /\ \A g \in Handler : Sound(th'[g])
  BY <1>1 DEF Types, Requests
<1>3. \A g \in Handler : th'[g] = IF g = h THEN r ELSE th[g]
  BY DEF Types, Requests
<1>4. QED
  BY <1>2, <1>3 DEF Requests, InSection

\* ... within the section, or outside of it.
LEMMA StaysInside ==
  ASSUME Types, Locked, NEW h \in InSection, NEW r, Sound(r), r.at \in Section,
         th' = [ th EXCEPT ![h] = r ], Stores', UNCHANGED << lock, overdue >>,
         clean' \in SUBSET (clean \cup { h })
  PROVE  Types' /\ Locked'
<1>1. h \in Handler
  BY DEF InSection
<1>2. Requests' /\ InSection' = InSection \cup { h }
  BY <1>1, RequestStep
<1>3. InSection' = InSection
  BY <1>2
<1>4. QED
  BY <1>2, <1>3 DEF Types, Locked

LEMMA StaysOutside ==
  ASSUME Types, Locked, NEW h \in Handler \ InSection, NEW r, Sound(r), r.at \notin Section,
         th' = [ th EXCEPT ![h] = r ], Stores', UNCHANGED << lock, overdue >>,
         clean' \in SUBSET clean
  PROVE  Types' /\ Locked'
<1>1. Requests' /\ InSection' = InSection \ { h }
  BY RequestStep
<1>2. InSection' = InSection
  BY <1>1
<1>3. QED
  BY <1>1, <1>2 DEF Types, Locked

LEMMA IdleSound ==
  /\ Sound(Idle)
  /\ \A n \in 1 .. MaxReplicas : Sound([ Idle EXCEPT !.at = "lock", !.want = n ])
  /\ \A next \in { "idle", "deployed", "failed" } :
       Sound([ Idle EXCEPT !.at = "publish", !.then = next ])
  /\ Sound([ Idle EXCEPT !.at = "erase" ])
  /\ \A next \in { "unpublish", "erase" }, seen \in [ Ordinals -> Sandbox ], left \in SUBSET Ordinals :
       Sound([ Idle EXCEPT !.at = "wipe", !.seen = seen, !.left = left, !.then = next ])
<1>1. 1 \in 1 .. MaxReplicas
  BY NumberAssumption
<1>2. NoBoxes \in [ Ordinals -> Sandbox ] /\ NoBox \in Sandbox
  BY DEF NoBoxes, Sandbox
<1>3. Idle \in Request
  BY <1>1, <1>2, Zenon DEF Idle, Request, Places
<1>4. Idle.at = "idle" /\ Idle.box = NoBox /\ Idle.left = {} /\ Idle.new = {} /\ Idle.todo = {}
      /\ Idle.then = "idle"
  BY DEF Idle
<1>5. Sound(Idle)
  BY <1>3, <1>4 DEF Sound, Section
<1>6. ASSUME NEW n \in 1 .. MaxReplicas PROVE Sound([ Idle EXCEPT !.at = "lock", !.want = n ])
  BY <1>3, <1>4 DEF Sound, Section, Request, Places
<1>7. ASSUME NEW next \in { "idle", "deployed", "failed" }
      PROVE  Sound([ Idle EXCEPT !.at = "publish", !.then = next ])
  BY <1>3, <1>4 DEF Sound, Section, Request, Places
<1>8. Sound([ Idle EXCEPT !.at = "erase" ])
  BY <1>3, <1>4 DEF Sound, Section, Request, Places, Removing
<1>9. ASSUME NEW next \in { "unpublish", "erase" }, NEW seen \in [ Ordinals -> Sandbox ],
             NEW left \in SUBSET Ordinals
      PROVE  Sound([ Idle EXCEPT !.at = "wipe", !.seen = seen, !.left = left, !.then = next ])
  BY <1>3, <1>4 DEF Sound, Section, Request, Places, Removing
<1>10. QED
  BY <1>5, <1>6, <1>7, <1>8, <1>9

LEMMA FaultCounts == ASSUME Stores, Fault PROVE faults' \in 0 .. MaxFaults
BY NumberAssumption DEF Stores, Fault

LEMMA RowTyped ==
  ASSUME Stores, NEW o \in Ordinals, NEW new \in Row
  PROVE  /\ row[o] \in Row /\ NoRow \in Row
         /\ \A s \in { "creating", "stopping", "failed" } : [ row[o] EXCEPT !.status = s ] \in Row
         /\ [ row EXCEPT ![o] = new ] \in [ Ordinals -> Row ]
BY DEF Stores, Row, NoRow

-------------------------------------------------------------------------------
(* Inside the critical section.                                            *)

LEMMA InitHolds == Init => Types /\ Locked
<1> SUFFICES ASSUME Init PROVE Types /\ Locked
  OBVIOUS
<1>1. Requests /\ InSection = {}
  <2>1. Idle \in Request /\ Sound(Idle)
    BY IdleSound DEF Sound
  <2>2. Idle.at \notin Section
    BY DEF Idle, Section
  <2>3. QED
    BY <2>1, <2>2 DEF Init, Requests, InSection
<1>2. row \in [ Ordinals -> Row ]
  BY DEF Init, NoRow, Row
<1>3. exists \in BOOLEAN /\ deployed \in BOOLEAN /\ leaky \in BOOLEAN
  BY DEF Init
<1>4. faults \in 0 .. MaxFaults
  BY NumberAssumption DEF Init
<1>5. QED
  BY <1>1, <1>2, <1>3, <1>4 DEF Init, Types, Stores, Locked

LEMMA ReadKeeps ==
  ASSUME Types, Locked, NEW h \in Handler, Read(h) PROVE Types' /\ Locked'
<1> DEFINE excess == { o \in Ordinals : HasRow(o) /\ o >= th[h].want }
           seen == [ o \in Ordinals |-> IF o \in excess THEN row[o].box ELSE NoBox ]
           todo == ToDeploy(th[h].want)
           new == { o \in ToDeploy(th[h].want) : ~HasRow(o) }
           next == [ th[h] EXCEPT !.at = "work", !.left = excess, !.seen = seen, !.todo = todo,
                                  !.new = new ]
<1>1. Sound(th[h]) /\ th[h] \in Request /\ th[h].at = "read" /\ h \in InSection
  BY DEF Read, Types, Requests, Sound, InSection, Section
<1>2. seen \in [ Ordinals -> Sandbox ] /\ new \subseteq todo /\ todo \in SUBSET Ordinals
      /\ excess \in SUBSET Ordinals
  BY DEF Types, Stores, Row, Sandbox, ToDeploy
<1>3. th' = [ th EXCEPT ![h] = next ]
  BY <1>1 DEF Read, Request
<1> HIDE DEF excess, seen, todo, new
<1>4. Sound(next) /\ next.at \in Section
  BY <1>1, <1>2 DEF Sound, Request, Places, Section
<1>5. Stores' /\ UNCHANGED << lock, overdue >> /\ clean' \in SUBSET (clean \cup { h })
  BY DEF Read, Types, Stores, shown
<1>6. QED
  BY <1>1, <1>3, <1>4, <1>5, StaysInside

LEMMA StopKeeps ==
  ASSUME Types, Locked, NEW h \in Handler, Stop(h) PROVE Types' /\ Locked'
<1> DEFINE next == [ th[h] EXCEPT !.at = "kill" ]
<1>1. Sound(th[h]) /\ th[h] \in Request /\ th[h].at = "work" /\ th[h].left # {} /\ h \in InSection
  BY DEF Stop, Types, Requests, Sound, InSection, Section
<1>2. Sound(next) /\ next.at \in Section
  BY <1>1 DEF Sound, Request, Places, Section
<1>3. Max(th[h].left) \in Ordinals
  BY <1>1, GreatestMember DEF Request
<1>4. row' \in [ Ordinals -> Row ]
  <2>1. Stores /\ row \in [ Ordinals -> Row ]
    BY DEF Types, Stores
  <2>2. CASE HasRow(Max(th[h].left))
    <3>1. row' = [ row EXCEPT ![Max(th[h].left)] = [ row[Max(th[h].left)] EXCEPT !.status = "stopping" ] ]
      BY <2>1, <2>2, <1>3 DEF Stop
    <3>2. QED
      BY <1>3, <2>1, <3>1, RowTyped
  <2>3. QED
    BY <2>1, <2>2 DEF Stop
<1>5. Stores' /\ UNCHANGED << lock, overdue >> /\ clean' \in SUBSET (clean \cup { h })
  BY <1>4 DEF Stop, Types, Stores, shown, Disturbs
<1>6. th' = [ th EXCEPT ![h] = next ]
  BY DEF Stop, To
<1>7. QED
  BY <1>1, <1>2, <1>5, <1>6, StaysInside

LEMMA KillKeeps ==
  ASSUME Types, Locked, NEW h \in Handler, Kill(h) PROVE Types' /\ Locked'
<1> DEFINE o == Max(th[h].left)
           seen == [ th[h].seen EXCEPT ![o] = NoBox ]
           next == [ th[h] EXCEPT !.at = "drop", !.seen = seen ]
<1>1. Sound(th[h]) /\ th[h] \in Request /\ th[h].at = "kill" /\ h \in InSection
  BY DEF Kill, Types, Requests, Sound, InSection, Section
<1>2. seen \in [ Ordinals -> Sandbox ]
  BY <1>1 DEF Request, Sandbox
<1>3. th' = [ th EXCEPT ![h] = next ]
  BY <1>1 DEF Kill, Request
<1>4. Stores' /\ UNCHANGED << lock, overdue >> /\ clean' \in SUBSET (clean \cup { h })
  <2>1. up' \in SUBSET Boxes /\ faults' \in 0 .. MaxFaults
    BY FaultCounts DEF Kill, Types, Stores
  <2>2. leaky' \in BOOLEAN
    BY DEF Kill, Types, Stores
  <2>3. QED
    BY <2>1, <2>2 DEF Kill, Types, Stores, shown
<1> HIDE DEF o, seen
<1>5. Sound(next) /\ next.at \in Section
  BY <1>1, <1>2 DEF Sound, Request, Places, Section
<1>6. QED
  BY <1>1, <1>3, <1>4, <1>5, StaysInside

LEMMA DropKeeps ==
  ASSUME Types, Locked, NEW h \in Handler, Drop(h) PROVE Types' /\ Locked'
<1> DEFINE o == Max(th[h].left)
           next == [ th[h] EXCEPT !.at = "work", !.left = th[h].left \ { o } ]
<1>1. Sound(th[h]) /\ th[h] \in Request /\ th[h].at = "drop" /\ h \in InSection
  BY DEF Drop, Types, Requests, Sound, InSection, Section
<1>2. th' = [ th EXCEPT ![h] = next ]
  BY <1>1 DEF Drop, Request
<1>3. o \in Ordinals
  BY <1>1, GreatestMember DEF Request, Sound
<1>4. row' \in [ Ordinals -> Row ]
  <2>1. NoRow \in Row /\ row' = [ row EXCEPT ![o] = NoRow ]
    BY DEF Drop, NoRow, Row
  <2>2. QED
    BY <1>3, <2>1 DEF Types, Stores
<1>5. Stores' /\ UNCHANGED << lock, overdue >> /\ clean' \in SUBSET (clean \cup { h })
  BY <1>4 DEF Drop, Types, Stores, shown, Disturbs
<1> HIDE DEF o
<1>6. Sound(next) /\ next.at \in Section
  BY <1>1 DEF Sound, Request, Places, Section
<1>7. QED
  BY <1>1, <1>2, <1>5, <1>6, StaysInside

LEMMA MarkKeeps ==
  ASSUME Types, Locked, NEW h \in Handler, Mark(h) PROVE Types' /\ Locked'
<1> DEFINE o == Min(th[h].todo)
           next == [ th[h] EXCEPT !.at = "create" ]
<1>1. Sound(th[h]) /\ th[h] \in Request /\ th[h].at = "work" /\ th[h].todo # {} /\ h \in InSection
  BY DEF Mark, Deploys, Types, Requests, Sound, InSection, Section
<1>2. o \in Ordinals
  BY <1>1, LeastMember, NumberAssumption DEF Request, Ordinals
<1>3. row' \in [ Ordinals -> Row ]
  <2>1. Stores /\ row \in [ Ordinals -> Row ]
    BY DEF Types, Stores
  <2>2. [ status |-> "creating", box |-> NoBox ] \in Row
    BY DEF Row
  <2>3. \/ row' = [ row EXCEPT ![o] = [ status |-> "creating", box |-> NoBox ] ]
        \/ row' = [ row EXCEPT ![o] = [ row[o] EXCEPT !.status = "creating" ] ]
        \/ row' = row
    BY <1>2, <2>1 DEF Mark
  <2>4. QED
    BY <1>2, <2>1, <2>2, <2>3, RowTyped
<1>4. Stores' /\ UNCHANGED << lock, overdue >> /\ clean' \in SUBSET (clean \cup { h })
  BY <1>3 DEF Mark, Types, Stores, shown, Disturbs
<1>5. Sound(next) /\ next.at \in Section /\ th' = [ th EXCEPT ![h] = next ]
  BY <1>1 DEF Sound, Request, Places, Section, Mark, To
<1>6. QED
  BY <1>1, <1>4, <1>5, StaysInside

LEMMA InsertFailsKeeps ==
  ASSUME Types, Locked, NEW h \in Handler, InsertFails(h) \/ Finish(h) PROVE Types' /\ Locked'
<1> DEFINE then == IF \E o \in Ordinals : row[o].status = "ready" THEN "deployed" ELSE "failed"
           failed == [ th[h] EXCEPT !.at = "release", !.todo = {}, !.new = {} ]
           done == [ th[h] EXCEPT !.at = "release", !.then = then ]
<1>1. Sound(th[h]) /\ th[h] \in Request /\ th[h].at = "work" /\ h \in InSection
  BY DEF InsertFails, Finish, Deploys, Types, Requests, Sound, InSection, Section
<1>2. Stores' /\ UNCHANGED << lock, overdue >> /\ clean' \in SUBSET (clean \cup { h })
  BY DEF InsertFails, Finish, Types, Stores, shown, history
<1>3. \/ th' = [ th EXCEPT ![h] = failed ]
      \/ th' = [ th EXCEPT ![h] = done ]
  BY <1>1 DEF InsertFails, Finish, Request
<1>4. Sound(failed) /\ failed.at \in Section
  BY <1>1 DEF Sound, Request, Places, Section
<1>5. Sound(done) /\ done.at \in Section
  <2>1. then \in { "deployed", "failed" }
    OBVIOUS
  <2> HIDE DEF then
  <2>2. QED
    BY <1>1, <2>1 DEF Sound, Request, Places, Section
<1>6. QED
  BY <1>1, <1>2, <1>3, <1>4, <1>5, StaysInside

LEMMA CreateKeeps ==
  ASSUME Types, Locked, NEW h \in Handler, Create(h) PROVE Types' /\ Locked'
<1> DEFINE free == Boxes \ (up \cup Remembered)
           next == [ th[h] EXCEPT !.at = "settle", !.box = Min(free) ]
<1>1. Sound(th[h]) /\ th[h] \in Request /\ th[h].at = "create" /\ h \in InSection
  BY DEF Create, Types, Requests, Sound, InSection, Section
<1>2. Min(free) \in Boxes
  BY LeastMember, NumberAssumption DEF Create, Boxes
<1>3. th' = [ th EXCEPT ![h] = next ] /\ up' = up \cup { Min(free) }
      /\ UNCHANGED << shown, row, lock, overdue, faults, history >>
  BY <1>1 DEF Create, Request
<1> HIDE DEF free
<1>4. Stores' /\ UNCHANGED << lock, overdue >> /\ clean' \in SUBSET (clean \cup { h })
  BY <1>2, <1>3 DEF Types, Stores, shown, history
<1>5. Sound(next) /\ next.at \in Section
  <2>1. Min(free) # NoBox /\ Min(free) \in Sandbox
    BY <1>2, NumberAssumption DEF Boxes, NoBox, Sandbox
  <2>2. QED
    BY <1>1, <2>1 DEF Sound, Request, Places, Section
<1>6. QED
  BY <1>1, <1>3, <1>4, <1>5, StaysInside

\* The replica the request was deploying is settled, well or badly.
LEMMA UpdateRowKeeps ==
  ASSUME Types, Locked, NEW h \in Handler, th[h].at \in { "create", "settle" }, NEW new \in Row,
         UpdateRow(h, new), up' \in SUBSET Boxes, faults' \in 0 .. MaxFaults, leaky' \in BOOLEAN,
         UNCHANGED << shown, lock, overdue >>, clean' \in SUBSET (clean \cup { h })
  PROVE  Types' /\ Locked'
<1> DEFINE o == Min(th[h].todo)
           next == [ th[h] EXCEPT !.at = "work", !.todo = th[h].todo \ { o },
                                  !.new = th[h].new \ { o }, !.box = NoBox ]
<1>1. Sound(th[h]) /\ th[h] \in Request /\ h \in InSection /\ th[h].todo # {}
  BY DEF Types, Requests, Sound, InSection, Section
<1>2. o \in Ordinals
  BY <1>1, LeastMember, NumberAssumption DEF Request, Ordinals
<1>3. th' = [ th EXCEPT ![h] = next ]
  BY <1>1 DEF UpdateRow, Request
<1>4. row' \in [ Ordinals -> Row ]
  BY <1>2, RowTyped DEF UpdateRow, Types, Stores
<1>5. Stores'
  BY <1>4 DEF Types, Stores, shown
<1> HIDE DEF o
<1>6. Sound(next) /\ next.at \in Section
  BY <1>1 DEF Sound, Request, Places, Section, Sandbox
<1>7. QED
  BY <1>1, <1>3, <1>5, <1>6, StaysInside

LEMMA SettleKeeps ==
  ASSUME Types, Locked, NEW h \in Handler, Ready(h) \/ DeployFails(h) PROVE Types' /\ Locked'
<1>1. Sound(th[h]) /\ th[h] \in Request /\ th[h].at \in { "create", "settle" } /\ th[h].todo # {}
  BY DEF Ready, DeployFails, Types, Requests, Sound
<1>2. CASE Ready(h)
  <2>1. [ status |-> "ready", box |-> th[h].box ] \in Row
    BY <1>1 DEF Request, Row, Sandbox
  <2>2. up' \in SUBSET Boxes /\ faults' \in 0 .. MaxFaults /\ leaky' \in BOOLEAN
        /\ UNCHANGED << shown, lock, overdue >> /\ clean' \in SUBSET (clean \cup { h })
    BY <1>2 DEF Ready, Disturbs, Types, Stores
  <2>3. QED
    BY <1>1, <1>2, <2>1, <2>2, UpdateRowKeeps DEF Ready
<1>3. CASE DeployFails(h)
  <2>1. Min(th[h].todo) \in Ordinals
    BY <1>1, LeastMember, NumberAssumption DEF Request, Ordinals
  <2>2. [ row[Min(th[h].todo)] EXCEPT !.status = "failed" ] \in Row
    <3>1. PICK o \in Ordinals : o = Min(th[h].todo)
      BY <2>1
    <3>2. row[o] \in Row
      BY DEF Types, Stores
    <3>3. [ row[o] EXCEPT !.status = "failed" ] \in Row
      BY <3>2 DEF Row
    <3>4. QED
      BY <3>1, <3>3
  <2>3. faults' \in 0 .. MaxFaults
    BY <1>3, FaultCounts DEF DeployFails, Types
  <2>4. up' \in SUBSET Boxes /\ leaky' \in BOOLEAN
        /\ UNCHANGED << shown, lock, overdue >> /\ clean' \in SUBSET (clean \cup { h })
    BY <1>3 DEF DeployFails, Types, Stores
  <2>5. QED
    BY <1>1, <1>3, <2>2, <2>3, <2>4, UpdateRowKeeps DEF DeployFails
<1>4. QED
  BY <1>2, <1>3

-------------------------------------------------------------------------------
(* The lock.                                                               *)

\* Whoever gets the lock finds it free: the others in the section are overdue.
LEMMA AcquireKeeps ==
  ASSUME Types, Locked, NEW h \in Handler, Acquire(h) PROVE Types' /\ Locked'
<1> DEFINE next == [ th[h] EXCEPT !.at = "read" ]
<1>1. Sound(th[h]) /\ th[h] \in Request /\ th[h].at = "lock" /\ h \notin InSection
  BY DEF Acquire, Types, Requests, Sound, InSection, Section
<1>2. UNCHANGED << shown, row, up, overdue, faults, history >>
  BY DEF Acquire
<1>3. CASE Lock!AcquireLock(h) /\ To(h, "read")
  <2>1. Sound(next) /\ next.at \in Section
    BY <1>1 DEF Sound, Request, Places, Section
  <2>2. th' = [ th EXCEPT ![h] = next ]
    BY <1>3 DEF To
  <2> HIDE DEF next
  <2>3. Requests' /\ InSection' = InSection \cup { h }
    BY <2>1, <2>2, RequestStep
  <2>4. /\ lock' = IF Redis THEN h ELSE lock
        /\ Redis => lock = NoOwner
    BY <1>3 DEF Lock!AcquireLock, Lock!Acquires
  <2>5. Types'
    BY <1>2, <2>3, <2>4 DEF Types, Stores, shown, history
  <2>6. Locked'
    <3>1. ASSUME Redis, NEW g \in InSection' PROVE g \in overdue' \/ lock' = g
      <4>1. CASE g = h
        BY <2>4, <3>1, <4>1
      <4>2. CASE g \in InSection
        BY <1>2, <2>4, <3>1, <4>2, OwnerAssumption DEF Locked, InSection
      <4>3. QED
        BY <2>3, <4>1, <4>2
    <3>2. QED
      BY <3>1 DEF Locked
  <2>7. QED
    BY <2>5, <2>6
<1>4. CASE Leaves(h) /\ UNCHANGED lock
  <2>1. Sound(Idle) /\ Idle.at \notin Section
    BY IdleSound DEF Idle, Section
  <2>2. Stores' /\ clean' \in SUBSET clean
    BY <1>2, <1>4 DEF Types, Stores, shown, history
  <2>3. QED
    BY <1>1, <1>2, <1>4, <2>1, <2>2, StaysOutside DEF Leaves
<1>5. QED
  BY <1>3, <1>4 DEF Acquire

\* A request leaves the section: it takes no one's lock but its own, and only
\* its own name off the list of the overdue.
LEMMA LeavesSection ==
  ASSUME Types, Locked, NEW h \in Handler, NEW r, Sound(r), r.at \notin Section,
         th' = [ th EXCEPT ![h] = r ], Stores',
         overdue' = overdue \ { h }, clean' \in SUBSET (clean \ { h }),
         \A g \in Handler \ { h } : lock = g => lock' = g
  PROVE  Types' /\ Locked'
<1>1. Requests' /\ InSection' = InSection \ { h }
  BY RequestStep
<1>2. Types'
  BY <1>1 DEF Types
<1>3. ASSUME Redis, NEW g \in InSection' PROVE g \in overdue' \/ lock' = g
  <2>1. g \in InSection /\ g # h /\ g \in Handler
    BY <1>1 DEF InSection
  <2>2. g \in overdue \/ lock = g
    BY <1>3, <2>1 DEF Locked
  <2>3. QED
    BY <2>1, <2>2
<1>4. QED
  BY <1>2, <1>3 DEF Locked

LEMMA ReleaseKeeps ==
  ASSUME Types, Locked, NEW h \in Handler, Release(h) PROVE Types' /\ Locked'
<1> DEFINE r == IF th[h].then = "idle" THEN Idle
                ELSE [ Idle EXCEPT !.at = "publish", !.then = th[h].then ]
<1>1. Sound(th[h]) /\ th[h] \in Request /\ th[h].at = "release"
  BY DEF Release, Types, Requests, Sound
<1>2. th[h].then \in { "idle", "deployed", "failed" }
  BY <1>1 DEF Sound, Request, Section
<1>3. Sound(r) /\ r.at \notin Section
  <2>1. Sound([ Idle EXCEPT !.at = "publish", !.then = th[h].then ]) /\ Sound(Idle)
    BY <1>2, IdleSound
  <2>2. Idle.at \notin Section
        /\ [ Idle EXCEPT !.at = "publish", !.then = th[h].then ].at \notin Section
    BY DEF Idle, Section
  <2>3. QED
    BY <2>1, <2>2
<1>4. lock' = (IF lock = h THEN NoOwner ELSE lock)
      /\ UNCHANGED << shown, row, up, faults, leaky >>
      /\ th' = [ th EXCEPT ![h] = r ] /\ overdue' = overdue \ { h } /\ clean' = clean \ { h }
  BY DEF Release, Lock!ReleaseLock
<1> HIDE DEF r
<1>5. Stores'
  BY <1>4 DEF Types, Stores, shown
<1>6. \A g \in Handler \ { h } : lock = g => lock' = g
  BY <1>4
<1>7. QED
  BY <1>3, <1>4, <1>5, <1>6, LeavesSection

LEMMA CrashKeeps ==
  ASSUME Types, Locked, NEW h \in Handler, Crash(h) PROVE Types' /\ Locked'
<1>1. Sound(Idle) /\ Idle.at \notin Section
  BY IdleSound DEF Idle, Section
<1>2. faults' \in 0 .. MaxFaults
  BY FaultCounts DEF Crash, Types
<1>3. Stores'
  BY <1>2 DEF Crash, Types, Stores, shown
<1>4. QED
  BY <1>1, <1>3, LeavesSection DEF Crash, Leaves

LEMMA LockExpiresKeeps ==
  ASSUME Types, Locked, LockExpires PROVE Types' /\ Locked'
<1>1. lock' = NoOwner /\ overdue' = overdue \cup ({ lock } \cap InSection)
      /\ UNCHANGED << shown, row, up, th, faults, clean >> /\ leaky' \in BOOLEAN
  BY DEF LockExpires, Lock!Expire, Types, Stores
<1>2. InSection' = InSection /\ Requests'
  BY <1>1 DEF InSection, Types, Requests
<1>3. Stores'
  BY <1>1 DEF Types, Stores, shown
<1>4. Locked'
  BY <1>1, <1>2 DEF Locked
<1>5. QED
  BY <1>1, <1>2, <1>3, <1>4 DEF Types

-------------------------------------------------------------------------------
(* Outside of the critical section.                                        *)

LEMMA NoRowsTyped == [ o \in Ordinals |-> NoRow ] \in [ Ordinals -> Row ]
BY DEF NoRow, Row

LEMMA BeginKeeps ==
  ASSUME Types, Locked, NEW h \in Handler,
         \/ \E n \in 1 .. MaxReplicas : Deploy(h, n)
         \/ Undeploy(h) \/ Delete(h)
  PROVE  Types' /\ Locked'
<1>1. h \notin InSection /\ UNCHANGED << shown, row, up, lock, overdue, faults, clean >>
  BY DEF Deploy, Undeploy, Delete, InSection, Section
<1>2. leaky' \in BOOLEAN
  BY DEF Deploy, Undeploy, Delete, Types, Stores
<1>3. Stores'
  BY <1>1, <1>2 DEF Types, Stores, shown
<1>4. BoxOf \in [ Ordinals -> Sandbox ] /\ Boxed \in SUBSET Ordinals
  BY DEF BoxOf, Boxed, Types, Stores, Row, Sandbox
<1>5. \E r : Sound(r) /\ r.at \notin Section /\ th' = [ th EXCEPT ![h] = r ]
  <2>1. ASSUME NEW n \in 1 .. MaxReplicas, Deploy(h, n)
        PROVE  \E r : Sound(r) /\ r.at \notin Section /\ th' = [ th EXCEPT ![h] = r ]
    <3> DEFINE r == [ Idle EXCEPT !.at = "lock", !.want = n ]
    <3>1. r.at \notin Section
      BY DEF Idle, Section
    <3>2. QED
      BY <2>1, <3>1, IdleSound DEF Deploy
  <2>2. ASSUME NEW next \in { "unpublish", "erase" }
        PROVE  LET r == [ Idle EXCEPT !.at = "wipe", !.seen = BoxOf, !.left = Boxed, !.then = next ]
               IN  Sound(r) /\ r.at \notin Section
    BY <1>4, IdleSound DEF Idle, Section
  <2>3. LET r == [ Idle EXCEPT !.at = "erase" ] IN Sound(r) /\ r.at \notin Section
    BY IdleSound DEF Idle, Section
  <2>4. CASE Undeploy(h)
    BY <2>2, <2>4 DEF Undeploy
  <2>5. CASE Delete(h)
    <3>1. \/ th' = [ th EXCEPT ![h] = [ Idle EXCEPT !.at = "wipe", !.seen = BoxOf, !.left = Boxed,
                                                    !.then = "erase" ] ]
          \/ th' = [ th EXCEPT ![h] = [ Idle EXCEPT !.at = "erase" ] ]
      BY <2>5 DEF Delete
    <3>2. QED
      BY <2>2, <2>3, <3>1
  <2>6. QED
    BY <2>1, <2>4, <2>5
<1>6. QED
  BY <1>1, <1>3, <1>5, StaysOutside

LEMMA WipeKeeps ==
  ASSUME Types, Locked, NEW h \in Handler, Wipe(h) PROVE Types' /\ Locked'
<1>1. Sound(th[h]) /\ th[h] \in Request /\ th[h].at = "wipe" /\ h \notin InSection
  BY DEF Wipe, Types, Requests, Sound, InSection, Section
<1>2. PICK o \in th[h].left : th' = [ th EXCEPT ![h].left = @ \ { o } ]
  BY DEF Wipe
<1> DEFINE r == [ th[h] EXCEPT !.left = th[h].left \ { o } ]
<1>3. th' = [ th EXCEPT ![h] = r ]
  BY <1>1, <1>2 DEF Request
<1>4. Sound(r) /\ r.at \notin Section
  BY <1>1 DEF Sound, Request, Section
<1>5. up' \in SUBSET Boxes /\ faults' \in 0 .. MaxFaults /\ leaky' \in BOOLEAN
  BY FaultCounts DEF Wipe, Types, Stores
<1>6. Stores' /\ UNCHANGED << lock, overdue >> /\ clean' \in SUBSET clean
  BY <1>5 DEF Wipe, Disturbs, Types, Stores, shown
<1>7. QED
  BY <1>1, <1>3, <1>4, <1>6, StaysOutside

LEMMA ClearKeeps ==
  ASSUME Types, Locked, NEW h \in Handler, Clear(h) PROVE Types' /\ Locked'
<1> DEFINE r == [ th[h] EXCEPT !.at = th[h].then, !.seen = NoBoxes ]
<1>1. Sound(th[h]) /\ th[h] \in Request /\ th[h].at = "wipe" /\ h \notin InSection
  BY DEF Clear, Types, Requests, Sound, InSection, Section
<1>2. th' = [ th EXCEPT ![h] = r ]
  BY <1>1 DEF Clear, Request
<1>3. NoBoxes \in [ Ordinals -> Sandbox ]
  BY DEF NoBoxes, Sandbox
<1>4. th[h].then \in { "unpublish", "erase" }
  BY <1>1 DEF Sound
<1>5. Sound(r) /\ r.at \notin Section
  BY <1>1, <1>3, <1>4 DEF Sound, Request, Places, Section, Removing
<1>6. Stores' /\ UNCHANGED << lock, overdue >> /\ clean' \in SUBSET clean
  BY NoRowsTyped DEF Clear, Disturbs, Types, Stores, shown
<1>7. QED
  BY <1>1, <1>2, <1>5, <1>6, StaysOutside

LEMMA EndKeeps ==
  ASSUME Types, Locked, NEW h \in Handler, Publish(h) \/ Unpublish(h) \/ Erase(h)
  PROVE  Types' /\ Locked'
<1>1. h \notin InSection /\ Leaves(h) /\ UNCHANGED << lock, overdue >>
  BY DEF Publish, Unpublish, Erase, InSection, Section
<1>2. Sound(Idle) /\ Idle.at \notin Section
  BY IdleSound DEF Idle, Section
<1>3. exists' \in BOOLEAN /\ deployed' \in BOOLEAN
  BY DEF Publish, Unpublish, Erase, Types, Stores
<1>4. Stores' /\ clean' \in SUBSET clean
  BY <1>3, NoRowsTyped DEF Publish, Unpublish, Erase, Disturbs, history, Types, Stores
<1>5. QED
  BY <1>1, <1>2, <1>4, StaysOutside DEF Leaves

-------------------------------------------------------------------------------
(* The types, and who is in the critical section.                          *)

LEMMA StepKeeps == Types /\ Locked /\ [Next]_vars => Types' /\ Locked'
<1> SUFFICES ASSUME Types, Locked, [Next]_vars PROVE Types' /\ Locked'
  OBVIOUS
<1>1. CASE UNCHANGED vars
  BY <1>1 DEF vars, shown, history, Types, Requests, Stores, Locked, InSection
<1>2. CASE LockExpires
  BY <1>2, LockExpiresKeeps
<1>3. ASSUME NEW h \in Handler, (\E n \in 1 .. MaxReplicas : Deploy(h, n)) \/ Undeploy(h) \/ Delete(h)
      PROVE  Types' /\ Locked'
  BY <1>3, BeginKeeps
<1>4. ASSUME NEW h \in Handler, Reconcile(h) PROVE Types' /\ Locked'
  BY <1>4, AcquireKeeps, ReadKeeps, StopKeeps, KillKeeps, DropKeeps, MarkKeeps, InsertFailsKeeps,
     CreateKeeps, SettleKeeps, ReleaseKeeps, EndKeeps DEF Reconcile
<1>5. ASSUME NEW h \in Handler, Destroy(h) PROVE Types' /\ Locked'
  BY <1>5, WipeKeeps, ClearKeeps, EndKeeps DEF Destroy
<1>6. ASSUME NEW h \in Handler, Crash(h) PROVE Types' /\ Locked'
  BY <1>6, CrashKeeps
<1>7. QED
  BY <1>1, <1>2, <1>3, <1>4, <1>5, <1>6 DEF Next

LEMMA Invariant == Spec => [](Types /\ Locked)
<1>1. QED
  BY InitHolds, StepKeeps, PTL DEF Spec

\* The rows, the lock and what every request remembers keep their types.
THEOREM TypeCorrect == Spec => []TypeOK
<1>1. Types => TypeOK
  <2> SUFFICES ASSUME Types PROVE TypeOK
    OBVIOUS
  <2>1. ASSUME NEW h \in Handler
        PROVE  /\ th[h].at \in Section \cup Removing \cup { "idle", "lock", "publish" }
               /\ th[h].want \in 1 .. MaxReplicas
               /\ th[h].seen \in [ Ordinals -> Boxes \cup { NoBox } ]
               /\ th[h].new \subseteq th[h].todo
               /\ th[h].at \in { "kill", "drop" } => th[h].left # {}
               /\ th[h].at \in { "create", "settle" } => th[h].todo # {}
               /\ th[h].at = "settle" <=> th[h].box # NoBox
    <3>1. Sound(th[h]) /\ th[h] \in Request
      BY DEF Types, Requests, Sound
    <3>2. QED
      BY <3>1 DEF Sound, Request, Places, Sandbox
  <2>2. QED
    BY <2>1 DEF Types, Stores, TypeOK
<1>2. QED
  BY <1>1, Invariant, PTL

\* With Redis two requests reconcile one instance at one time only if the lock
\* of one of them expired under it (reconcileServiceReplicas and acquireLock).
THEOREM ReconcilesAlone == Spec => []OneReconciler
<1>1. Locked => OneReconciler
  BY DEF Locked, OneReconciler
<1>2. QED
  BY <1>1, Invariant, PTL

-------------------------------------------------------------------------------
(* What the steps of a reconciliation do, field by field.                  *)

Others(h) == \A g \in Handler \ { h } : th'[g] = th[g]
SamePlan(h) ==
  /\ th'[h].want = th[h].want /\ th'[h].left = th[h].left
  /\ th'[h].todo = th[h].todo /\ th'[h].new = th[h].new
SameBut(o) == \A p \in Ordinals \ { o } : row'[p] = row[p]

LEMMA Extremes ==
  ASSUME Types, NEW h \in Handler
  PROVE  /\ th[h] \in Request /\ Sound(th[h]) /\ th \in [ Handler -> Request ]
         /\ th[h].left # {} => Max(th[h].left) \in th[h].left
         /\ th[h].todo # {} => Min(th[h].todo) \in th[h].todo
<1>1. th[h] \in Request /\ Sound(th[h]) /\ th \in [ Handler -> Request ]
  BY DEF Types, Requests
<1>2. th[h].left \in SUBSET Ordinals /\ th[h].todo \in SUBSET Ordinals
  BY <1>1 DEF Request
<1>3. Ordinals \subseteq Nat
  BY NumberAssumption DEF Ordinals
<1>4. QED
  BY <1>1, <1>2, <1>3, GreatestMember, LeastMember

LEMMA ReadDoes ==
  ASSUME Types, NEW h \in Handler, Read(h)
  PROVE  /\ Others(h) /\ th'[h].at = "work" /\ th'[h].want = th[h].want /\ th'[h].box = th[h].box
         /\ th'[h].left = { o \in Ordinals : HasRow(o) /\ o >= th[h].want }
         /\ th'[h].todo = ToDeploy(th[h].want)
         /\ th'[h].new = { o \in ToDeploy(th[h].want) : ~HasRow(o) }
         /\ \A o \in Ordinals :
              th'[h].seen[o] = IF HasRow(o) /\ o >= th[h].want THEN row[o].box ELSE NoBox
         /\ UNCHANGED << row, up, leaky >>
<1> DEFINE excess == { o \in Ordinals : HasRow(o) /\ o >= th[h].want }
           seen == [ o \in Ordinals |-> IF o \in excess THEN row[o].box ELSE NoBox ]
           todo == ToDeploy(th[h].want)
           new == { o \in ToDeploy(th[h].want) : ~HasRow(o) }
<1>1. th[h] \in Request /\ th \in [ Handler -> Request ]
  BY Extremes
<1>2. /\ th' = [ th EXCEPT ![h].at = "work", ![h].left = excess, ![h].seen = seen,
                          ![h].todo = todo, ![h].new = new ]
      /\ UNCHANGED << row, up, leaky >>
  BY DEF Read
<1>3. \A o \in Ordinals : seen[o] = IF HasRow(o) /\ o >= th[h].want THEN row[o].box ELSE NoBox
  OBVIOUS
<1> HIDE DEF seen
<1>4. Others(h) /\ th'[h].at = "work" /\ th'[h].want = th[h].want /\ th'[h].box = th[h].box
      /\ th'[h].left = excess /\ th'[h].todo = todo /\ th'[h].new = new /\ th'[h].seen = seen
  <2> HIDE DEF excess, todo, new
  <2>1. QED
    BY <1>1, <1>2 DEF Request, Others
<1>5. QED
  BY <1>2, <1>3, <1>4

LEMMA StopDoes ==
  ASSUME Types, NEW h \in Handler, Stop(h)
  PROVE  \E o \in th[h].left :
           /\ o \in Ordinals /\ o = Max(th[h].left) /\ th[h].at = "work"
           /\ Others(h) /\ th'[h].at = "kill" /\ SamePlan(h)
           /\ th'[h].seen = th[h].seen /\ th'[h].box = th[h].box
           /\ SameBut(o) /\ row'[o].box = row[o].box
           /\ row'[o].status = IF HasRow(o) THEN "stopping" ELSE row[o].status
           /\ UNCHANGED << up, leaky >>
<1>1. /\ th[h] \in Request /\ th \in [ Handler -> Request ]
      /\ Max(th[h].left) \in th[h].left /\ row \in [ Ordinals -> Row ]
  BY Extremes DEF Stop, Types, Stores
<1> PICK o \in th[h].left : o = Max(th[h].left)
  BY <1>1
<1>2. o \in Ordinals
  BY <1>1 DEF Request
<1>3. /\ row' = IF HasRow(o) THEN [ row EXCEPT ![o].status = "stopping" ] ELSE row
      /\ th' = [ th EXCEPT ![h].at = "kill" ] /\ UNCHANGED << up, leaky >> /\ th[h].at = "work"
  BY DEF Stop, To
<1>4. SameBut(o) /\ row'[o].box = row[o].box
      /\ row'[o].status = IF HasRow(o) THEN "stopping" ELSE row[o].status
  BY <1>1, <1>2, <1>3 DEF SameBut, Row
<1>5. /\ Others(h) /\ th'[h].at = "kill" /\ SamePlan(h)
      /\ th'[h].seen = th[h].seen /\ th'[h].box = th[h].box
  BY <1>1, <1>3 DEF Others, SamePlan, Request
<1>6. QED
  BY <1>2, <1>3, <1>4, <1>5

LEMMA KillDoes ==
  ASSUME Types, NEW h \in Handler, Kill(h)
  PROVE  \E o \in th[h].left :
           /\ o \in Ordinals /\ o = Max(th[h].left) /\ th[h].at = "kill"
           /\ Others(h) /\ th'[h].at = "drop" /\ SamePlan(h) /\ th'[h].box = th[h].box
           /\ th'[h].seen[o] = NoBox
           /\ \A p \in Ordinals \ { o } : th'[h].seen[p] = th[h].seen[p]
           /\ UNCHANGED row
           /\ (up' = up \ { th[h].seen[o] } /\ leaky' = leaky) \/ (up' = up /\ leaky')
<1>1. /\ th[h] \in Request /\ th \in [ Handler -> Request ]
      /\ Max(th[h].left) \in th[h].left
  BY Extremes DEF Kill, Sound
<1> PICK o \in th[h].left : o = Max(th[h].left)
  BY <1>1
<1>2. o \in Ordinals
  BY <1>1 DEF Request
<1>3. /\ th' = [ th EXCEPT ![h].at = "drop", ![h].seen[o] = NoBox ] /\ UNCHANGED row
      /\ th[h].at = "kill"
      /\ (up' = up \ { th[h].seen[o] } /\ leaky' = leaky) \/ (up' = up /\ leaky')
  BY DEF Kill
<1>4. /\ Others(h) /\ th'[h].at = "drop" /\ SamePlan(h) /\ th'[h].box = th[h].box
      /\ th'[h].seen = [ th[h].seen EXCEPT ![o] = NoBox ]
  BY <1>1, <1>3 DEF Others, SamePlan, Request
<1>5. th[h].seen \in [ Ordinals -> Sandbox ]
  BY <1>1 DEF Request
<1>6. th'[h].seen[o] = NoBox /\ \A p \in Ordinals \ { o } : th'[h].seen[p] = th[h].seen[p]
  BY <1>2, <1>4, <1>5
<1>7. QED
  BY <1>2, <1>3, <1>4, <1>6

LEMMA DropDoes ==
  ASSUME Types, NEW h \in Handler, Drop(h)
  PROVE  \E o \in th[h].left :
           /\ o \in Ordinals /\ o = Max(th[h].left) /\ th[h].at = "drop"
           /\ Others(h) /\ th'[h].at = "work" /\ th'[h].left = th[h].left \ { o }
           /\ th'[h].want = th[h].want /\ th'[h].todo = th[h].todo /\ th'[h].new = th[h].new
           /\ th'[h].seen = th[h].seen /\ th'[h].box = th[h].box
           /\ SameBut(o) /\ row'[o] = NoRow /\ UNCHANGED << up, leaky >>
<1>1. /\ th[h] \in Request /\ th \in [ Handler -> Request ] /\ row \in [ Ordinals -> Row ]
      /\ Max(th[h].left) \in th[h].left
  BY Extremes DEF Drop, Sound, Types, Stores
<1> PICK o \in th[h].left : o = Max(th[h].left)
  BY <1>1
<1>2. o \in Ordinals
  BY <1>1 DEF Request
<1>3. /\ th' = [ th EXCEPT ![h].at = "work", ![h].left = @ \ { o } ] /\ th[h].at = "drop"
      /\ row' = [ row EXCEPT ![o] = NoRow ] /\ UNCHANGED << up, leaky >>
  BY DEF Drop
<1>4. SameBut(o) /\ row'[o] = NoRow
  BY <1>1, <1>2, <1>3 DEF SameBut
<1>5. QED
  BY <1>1, <1>2, <1>3, <1>4 DEF Others, Request

LEMMA MarkDoes ==
  ASSUME Types, NEW h \in Handler, Mark(h)
  PROVE  \E o \in th[h].todo :
           /\ o \in Ordinals /\ o = Min(th[h].todo) /\ th[h].at = "work" /\ th[h].left = {}
           /\ Others(h) /\ th'[h].at = "create" /\ SamePlan(h)
           /\ th'[h].seen = th[h].seen /\ th'[h].box = th[h].box
           /\ SameBut(o) /\ UNCHANGED << up, leaky >>
           /\ \/ /\ o \in th[h].new /\ ~HasRow(o)
                 /\ row'[o].status = "creating" /\ row'[o].box = NoBox
              \/ /\ o \notin th[h].new /\ HasRow(o)
                 /\ row'[o].status = "creating" /\ row'[o].box = row[o].box
              \/ o \notin th[h].new /\ ~HasRow(o) /\ row'[o] = row[o]
<1>1. /\ th[h] \in Request /\ th \in [ Handler -> Request ] /\ row \in [ Ordinals -> Row ]
      /\ Min(th[h].todo) \in th[h].todo
  BY Extremes DEF Mark, Deploys, Types, Stores
<1> PICK o \in th[h].todo : o = Min(th[h].todo)
  BY <1>1
<1>2. o \in Ordinals
  BY <1>1 DEF Request
<1>3. /\ ~(o \in th[h].new /\ (HasRow(o) \/ ~exists))
      /\ row' = IF o \in th[h].new THEN [ row EXCEPT ![o] = [ status |-> "creating", box |-> NoBox ] ]
                ELSE IF HasRow(o) THEN [ row EXCEPT ![o].status = "creating" ]
                ELSE row
  BY DEF Mark
<1>4. /\ th' = [ th EXCEPT ![h].at = "create" ] /\ UNCHANGED << up, leaky >>
      /\ th[h].at = "work" /\ th[h].left = {}
  BY DEF Mark, To, Deploys
<1>5. /\ SameBut(o)
      /\ \/ /\ o \in th[h].new /\ ~HasRow(o)
            /\ row'[o].status = "creating" /\ row'[o].box = NoBox
         \/ /\ o \notin th[h].new /\ HasRow(o)
            /\ row'[o].status = "creating" /\ row'[o].box = row[o].box
         \/ o \notin th[h].new /\ ~HasRow(o) /\ row'[o] = row[o]
  BY <1>1, <1>2, <1>3 DEF SameBut, Row
<1>6. /\ Others(h) /\ th'[h].at = "create" /\ SamePlan(h)
      /\ th'[h].seen = th[h].seen /\ th'[h].box = th[h].box
  BY <1>1, <1>4 DEF Others, SamePlan, Request
<1>7. QED
  BY <1>2, <1>4, <1>5, <1>6

LEMMA CreateDoes ==
  ASSUME Types, NEW h \in Handler, Create(h)
  PROVE  \E b \in Boxes \ (up \cup Remembered) :
           /\ th[h].at = "create" /\ Others(h) /\ th'[h].at = "settle" /\ SamePlan(h)
           /\ th'[h].seen = th[h].seen /\ th'[h].box = b
           /\ up' = up \cup { b } /\ UNCHANGED << row, leaky >>
<1>1. th[h] \in Request /\ th \in [ Handler -> Request ]
  BY Extremes
<1> DEFINE free == Boxes \ (up \cup Remembered)
<1>2. Min(free) \in free
  BY LeastMember, NumberAssumption DEF Create, Boxes
<1>3. /\ th' = [ th EXCEPT ![h].at = "settle", ![h].box = Min(free) ] /\ th[h].at = "create"
      /\ up' = up \cup { Min(free) } /\ UNCHANGED << row, leaky >>
  BY DEF Create, history
<1> HIDE DEF free
<1> PICK b \in free : b = Min(free)
  BY <1>2
<1>4. /\ Others(h) /\ th'[h].at = "settle" /\ SamePlan(h)
      /\ th'[h].seen = th[h].seen /\ th'[h].box = b
  BY <1>1, <1>3 DEF Others, SamePlan, Request
<1>5. QED
  BY <1>3, <1>4 DEF free

LEMMA SettleDoes ==
  ASSUME Types, NEW h \in Handler, Ready(h) \/ DeployFails(h)
  PROVE  \E o \in th[h].todo :
           /\ o \in Ordinals /\ o = Min(th[h].todo) /\ th[h].at \in { "create", "settle" }
           /\ Others(h) /\ th'[h].at = "work" /\ th'[h].todo = th[h].todo \ { o }
           /\ th'[h].new = th[h].new \ { o } /\ th'[h].want = th[h].want
           /\ th'[h].left = th[h].left /\ th'[h].seen = th[h].seen /\ th'[h].box = NoBox
           /\ SameBut(o)
           /\ ~HasRow(o) => row'[o] = row[o]
           /\ HasRow(o) /\ Ready(h) =>
                row'[o].status = "ready" /\ row'[o].box = th[h].box /\ th[h].at = "settle"
           /\ HasRow(o) /\ DeployFails(h) => row'[o].status = "failed" /\ row'[o].box = row[o].box
           /\ Ready(h) => UNCHANGED << up, leaky >>
           /\ DeployFails(h) =>
                (up' = up \ { th[h].box } /\ leaky' = leaky) \/ (up' = up /\ leaky')
<1>1. /\ th[h] \in Request /\ th \in [ Handler -> Request ] /\ row \in [ Ordinals -> Row ]
      /\ Min(th[h].todo) \in th[h].todo /\ th[h].at \in { "create", "settle" }
  BY Extremes DEF Ready, DeployFails, Sound, Types, Stores
<1> PICK o \in th[h].todo : o = Min(th[h].todo)
  BY <1>1
<1>2. o \in Ordinals
  BY <1>1 DEF Request
<1>3. th' = [ th EXCEPT ![h].at = "work", ![h].todo = @ \ { o }, ![h].new = @ \ { o },
                        ![h].box = NoBox ]
  BY DEF Ready, DeployFails, UpdateRow
<1>4. /\ Others(h) /\ th'[h].at = "work" /\ th'[h].todo = th[h].todo \ { o }
      /\ th'[h].new = th[h].new \ { o } /\ th'[h].want = th[h].want
      /\ th'[h].left = th[h].left /\ th'[h].seen = th[h].seen /\ th'[h].box = NoBox
  BY <1>1, <1>3 DEF Others, Request
<1>5. ASSUME Ready(h)
      PROVE  /\ SameBut(o)
             /\ ~HasRow(o) => row'[o] = row[o]
             /\ HasRow(o) => row'[o].status = "ready" /\ row'[o].box = th[h].box
             /\ th[h].at = "settle" /\ UNCHANGED << up, leaky >>
  <2>1. row' = IF HasRow(o) THEN [ row EXCEPT ![o] = [ status |-> "ready", box |-> th[h].box ] ]
               ELSE row
    BY <1>5 DEF Ready, UpdateRow
  <2>2. th[h].at = "settle" /\ UNCHANGED << up, leaky >>
    BY <1>5 DEF Ready
  <2>3. QED
    BY <1>1, <1>2, <2>1, <2>2 DEF SameBut
<1>6. ASSUME DeployFails(h)
      PROVE  /\ SameBut(o)
             /\ ~HasRow(o) => row'[o] = row[o]
             /\ HasRow(o) => row'[o].status = "failed" /\ row'[o].box = row[o].box
             /\ (up' = up \ { th[h].box } /\ leaky' = leaky) \/ (up' = up /\ leaky')
  <2>1. row' = IF HasRow(o) THEN [ row EXCEPT ![o] = [ row[o] EXCEPT !.status = "failed" ] ]
               ELSE row
    BY <1>6 DEF DeployFails, UpdateRow
  <2>2. (up' = up \ { th[h].box } /\ leaky' = leaky) \/ (up' = up /\ leaky')
    BY <1>6 DEF DeployFails
  <2>3. QED
    BY <1>1, <1>2, <2>1, <2>2 DEF SameBut, Row
<1>7. QED
  BY <1>1, <1>2, <1>4, <1>5, <1>6

LEMMA FinishDoes ==
  ASSUME Types, NEW h \in Handler, Finish(h)
  PROVE  /\ th[h].at = "work" /\ th[h].left = {} /\ th[h].todo = {}
         /\ Others(h) /\ th'[h].at = "release" /\ SamePlan(h)
         /\ th'[h].seen = th[h].seen /\ th'[h].box = th[h].box /\ UNCHANGED << row, up, leaky, clean >>
<1> DEFINE then == IF \E o \in Ordinals : row[o].status = "ready" THEN "deployed" ELSE "failed"
<1>1. /\ th[h].at = "work" /\ th[h].left = {} /\ th[h].todo = {}
      /\ UNCHANGED << row, up, leaky, clean >>
  BY DEF Finish, history
<1>2. th' = [ th EXCEPT ![h].at = "release", ![h].then = then ] /\ th[h] \in Request
      /\ th \in [ Handler -> Request ]
  BY Extremes DEF Finish
<1> HIDE DEF then
<1>3. QED
  BY <1>1, <1>2 DEF Others, SamePlan, Request

\* The steps that leave the table and the sandboxes alone.
Aside(h) ==
  \/ (\E n \in 1 .. MaxReplicas : Deploy(h, n)) \/ Acquire(h) \/ InsertFails(h) \/ Finish(h)
  \/ Release(h) \/ Publish(h) \/ Unpublish(h) \/ Crash(h)

LEMMA AsideDoes ==
  ASSUME Types, NEW h \in Handler, Aside(h)
  PROVE  /\ Others(h) /\ row' = row /\ up' = up /\ (leaky => leaky')
         /\ th'[h].box = th[h].box \/ th'[h].box = NoBox
         /\ \/ th'[h].seen = NoBoxes /\ th'[h].at \in { "idle", "lock", "publish" }
            \/ th'[h].seen = th[h].seen /\ th[h].at = "lock" /\ th'[h].at = "read"
            \/ th'[h].seen = th[h].seen /\ th[h].at = "work" /\ th'[h].at = "release"
<1> USE DEF Aside
<1>1. th \in [ Handler -> Request ] /\ th[h] \in Request
  BY Extremes
<1>2. row' = row /\ up' = up
  BY DEF Deploy, Acquire, InsertFails, Finish, Release, Publish, Unpublish, Crash
<1>3. leaky => leaky'
  BY Zenon DEF Deploy, Acquire, InsertFails, Finish, Release, Publish, Unpublish, Crash, history
<1>4. /\ Others(h) /\ (th'[h].box = th[h].box \/ th'[h].box = NoBox)
      /\ \/ th'[h].seen = NoBoxes /\ th'[h].at \in { "idle", "lock", "publish" }
         \/ th'[h].seen = th[h].seen /\ th[h].at = "lock" /\ th'[h].at = "read"
         \/ th'[h].seen = th[h].seen /\ th[h].at = "work" /\ th'[h].at = "release"
  <2>1. CASE th' = [ th EXCEPT ![h] = Idle ]
    BY <1>1, <2>1 DEF Others, Idle
  <2>2. CASE \E n \in 1 .. MaxReplicas : Deploy(h, n)
    BY <1>1, <2>2 DEF Others, Idle, Deploy
  <2>3. CASE Acquire(h)
    BY <1>1, <2>1, <2>3 DEF Others, Request, Acquire, To, Leaves
  <2>4. CASE InsertFails(h)
    BY <1>1, <2>4 DEF Others, Request, InsertFails, Deploys
  <2>5. CASE Finish(h)
    BY <2>5, FinishDoes
  <2>6. CASE Release(h)
    BY <1>1, <2>6 DEF Others, Idle, Release
  <2>7. QED
    BY <2>1, <2>2, <2>3, <2>4, <2>5, <2>6 DEF Publish, Unpublish, Crash, Leaves
<1>5. QED
  BY <1>2, <1>3, <1>4

LEMMA RemoveDoes ==
  ASSUME Types, NEW h \in Handler, Undeploy(h) \/ Delete(h)
  PROVE  /\ th[h].at = "idle" /\ Others(h) /\ th'[h].box = NoBox
         /\ row' = row /\ up' = up /\ (leaky => leaky')
         /\ Reconciling # {} => leaky'
         /\ \/ /\ th'[h].at = "wipe" /\ th'[h].left = Boxed
               /\ \A o \in Ordinals : th'[h].seen[o] = row[o].box
            \/ /\ th'[h].at = "erase" /\ (Boxed # {} => leaky')
               /\ \A o \in Ordinals : th'[h].seen[o] = NoBox
<1>1. th \in [ Handler -> Request ] /\ th[h] \in Request /\ th[h].at = "idle"
  BY Extremes DEF Undeploy, Delete
<1>2. row' = row /\ up' = up /\ (leaky => leaky') /\ (Reconciling # {} => leaky')
  BY Zenon DEF Undeploy, Delete
<1>3. (\A o \in Ordinals : BoxOf[o] = row[o].box) /\ (\A o \in Ordinals : NoBoxes[o] = NoBox)
  BY DEF BoxOf, NoBoxes
<1>4. Delete(h) /\ ~deployed /\ Boxed # {} => leaky'
  BY Zenon DEF Delete
<1>5. /\ Others(h) /\ th'[h].box = NoBox
      /\ \/ th'[h].at = "wipe" /\ th'[h].seen = BoxOf /\ th'[h].left = Boxed
         \/ th'[h].at = "erase" /\ th'[h].seen = NoBoxes /\ Delete(h) /\ ~deployed
  <2>1. CASE Undeploy(h)
    BY <1>1, <2>1 DEF Undeploy, Others, Idle
  <2>2. CASE Delete(h) /\ deployed
    BY <1>1, <2>2 DEF Delete, Others, Idle
  <2>3. CASE Delete(h) /\ ~deployed
    BY <1>1, <2>3 DEF Delete, Others, Idle
  <2>4. QED
    BY <2>1, <2>2, <2>3
<1>6. QED
  BY <1>1, <1>2, <1>3, <1>4, <1>5

LEMMA WipeDoes ==
  ASSUME Types, NEW h \in Handler, Wipe(h)
  PROVE  \E o \in th[h].left :
           /\ o \in Ordinals /\ th[h].at = "wipe" /\ Others(h) /\ th'[h].at = "wipe"
           /\ th'[h].seen = th[h].seen /\ th'[h].box = th[h].box /\ row' = row
           /\ th'[h].left = th[h].left \ { o }
           /\ (up' = up \ { th[h].seen[o] } /\ leaky' = leaky) \/ (up' = up /\ leaky')
<1>1. th \in [ Handler -> Request ] /\ th[h] \in Request /\ th[h].at = "wipe" /\ row' = row
  BY Extremes DEF Wipe
<1>2. PICK o \in th[h].left :
        /\ th' = [ th EXCEPT ![h].left = @ \ { o } ]
        /\ (up' = up \ { th[h].seen[o] } /\ leaky' = leaky) \/ (up' = up /\ leaky')
  BY DEF Wipe
<1>3. /\ o \in Ordinals /\ Others(h) /\ th'[h].at = "wipe" /\ th'[h].seen = th[h].seen
      /\ th'[h].box = th[h].box /\ th'[h].left = th[h].left \ { o }
  BY <1>1, <1>2 DEF Others, Request
<1>4. QED
  BY <1>1, <1>2, <1>3

LEMMA EmptyDoes ==
  ASSUME Types, NEW h \in Handler, Clear(h) \/ Erase(h)
  PROVE  /\ Others(h) /\ th'[h].box = NoBox /\ th'[h].seen = NoBoxes /\ th'[h].at # "kill"
         /\ \/ th[h].at = "wipe" /\ th[h].left = {} /\ th'[h].at \in { "unpublish", "erase" }
            \/ th[h].at = "erase" /\ th'[h].at = "idle"
         /\ (\A o \in Ordinals : row'[o] = NoRow) /\ up' = up /\ leaky' = leaky
<1>1. th \in [ Handler -> Request ] /\ th[h] \in Request
  BY Extremes
<1>2. (\A o \in Ordinals : row'[o] = NoRow) /\ up' = up /\ leaky' = leaky
  BY DEF Clear, Erase
<1>3. CASE Clear(h)
  <2>1. /\ th' = [ th EXCEPT ![h].at = th[h].then, ![h].seen = NoBoxes ]
        /\ th[h].at = "wipe" /\ th[h].left = {}
    BY <1>3 DEF Clear
  <2>2. th[h].then \in { "unpublish", "erase" } /\ th[h].box = NoBox
    BY <2>1, Extremes DEF Sound
  <2>3. QED
    BY <1>1, <1>2, <2>1, <2>2 DEF Others, Request
<1>4. CASE Erase(h)
  BY <1>1, <1>2, <1>4 DEF Erase, Leaves, Others, Idle
<1>5. QED
  BY <1>3, <1>4

-------------------------------------------------------------------------------
(* What an undisturbed reconciliation has done and has yet to do.          *)

\* The rows it must take down are those beyond the count, and what it deploys
\* next has a row to be settled in.
Planned(h) ==
  /\ th[h].at \in Section \ { "read" }
  /\ \A o \in Ordinals : HasRow(o) => o < th[h].want \/ o \in th[h].left
  /\ \A o \in th[h].left : ~(o < th[h].want)
  /\ \A o \in th[h].todo : o < th[h].want
  /\ \A o \in th[h].todo \ th[h].new : HasRow(o)
  /\ th[h].at \in { "create", "settle" } => HasRow(Min(th[h].todo))
  /\ th[h].at \in { "create", "settle", "release" } => th[h].left = {}
  /\ th[h].at = "release" => th[h].todo = {}

\* A replica below the count is ready, or is still to be deployed.
Covered(h) ==
  \A o \in Ordinals : o < th[h].want => o \in th[h].todo \/ row[o].status = "ready"

OnTrack == \A h \in clean : Planned(h) /\ Covered(h)

\* Nobody but h moves, and the rows stay as they are for the others that count
\* as undisturbed.
LEMMA OthersOnTrack ==
  ASSUME Types, OnTrack, NEW h \in Handler, Others(h), clean' \subseteq clean \cup { h },
         row' = row \/ clean' \subseteq { h }, h \in clean' => Planned(h)' /\ Covered(h)'
  PROVE  OnTrack'
<1> SUFFICES ASSUME NEW g \in clean' PROVE Planned(g)' /\ Covered(g)'
  BY DEF OnTrack
<1>1. CASE g = h
  BY <1>1
<1>2. CASE g # h
  <2>1. g \in clean /\ g \in Handler /\ row' = row
    BY <1>2 DEF Types, InSection
  <2>2. th'[g] = th[g] /\ Planned(g) /\ Covered(g)
    BY <1>2, <2>1 DEF Others, OnTrack
  <2>3. QED
    BY <2>1, <2>2 DEF Planned, Covered, HasRow
<1>3. QED
  BY <1>1, <1>2

LEMMA ReadPlanned ==
  ASSUME Types, NEW h \in Handler, Read(h) PROVE Planned(h)' /\ Covered(h)'
<1>1. /\ Others(h) /\ th'[h].at = "work" /\ th'[h].want = th[h].want
      /\ th'[h].left = { o \in Ordinals : HasRow(o) /\ o >= th[h].want }
      /\ th'[h].todo = ToDeploy(th[h].want)
      /\ th'[h].new = { o \in ToDeploy(th[h].want) : ~HasRow(o) }
      /\ row' = row
  BY ReadDoes
<1>2. th[h].want \in Nat /\ Ordinals \subseteq Nat
  BY Extremes, NumberAssumption DEF Request, Ordinals
<1>3. \A o \in Ordinals : o < th[h].want \/ o >= th[h].want
  BY <1>2
<1>4. \A o \in Ordinals : o >= th[h].want => ~(o < th[h].want)
  <2>1. \A m, n \in Nat : m >= n => ~(m < n)
    OBVIOUS
  <2>2. QED
    BY <1>2, <2>1, Zenon
<1>5. Planned(h)'
  BY <1>1, <1>3, <1>4 DEF Planned, HasRow, ToDeploy, Section
<1>6. Covered(h)'
  BY <1>1 DEF Covered, ToDeploy
<1>7. QED
  BY <1>5, <1>6

LEMMA ReadOnTrack ==
  ASSUME Types, OnTrack, NEW h \in Handler, Read(h) PROVE OnTrack'
<1>1. Others(h) /\ clean' \subseteq { h }
  BY ReadDoes DEF Read
<1>2. QED
  BY <1>1, ReadPlanned, OthersOnTrack

LEMMA StopPlanned ==
  ASSUME Types, NEW h \in Handler, Stop(h), Planned(h)
  PROVE  Planned(h)' /\ (Covered(h) => Covered(h)')
<1> PICK o \in th[h].left :
      /\ o \in Ordinals /\ th[h].at = "work" /\ Others(h) /\ th'[h].at = "kill" /\ SamePlan(h)
      /\ SameBut(o) /\ row'[o].status = IF HasRow(o) THEN "stopping" ELSE row[o].status
  BY StopDoes
<1>1. \A p \in Ordinals : HasRow(p)' <=> HasRow(p)
  BY DEF HasRow, SameBut
<1>2. \A p \in Ordinals : p < th[h].want => row'[p] = row[p]
  BY DEF Planned, SameBut
<1>3. Planned(h)'
  BY <1>1, Extremes DEF Planned, SamePlan, Section, Request
<1>4. Covered(h) => Covered(h)'
  BY <1>2 DEF Covered, SamePlan
<1>5. QED
  BY <1>3, <1>4

LEMMA DropPlanned ==
  ASSUME Types, NEW h \in Handler, Drop(h), Planned(h)
  PROVE  Planned(h)' /\ (Covered(h) => Covered(h)')
<1> PICK o \in th[h].left :
      /\ o \in Ordinals /\ th[h].at = "drop" /\ Others(h) /\ th'[h].at = "work"
      /\ th'[h].left = th[h].left \ { o } /\ th'[h].want = th[h].want
      /\ th'[h].todo = th[h].todo /\ th'[h].new = th[h].new /\ SameBut(o) /\ row'[o] = NoRow
  BY DropDoes
<1>1. \A p \in Ordinals \ { o } : HasRow(p)' <=> HasRow(p)
  BY DEF HasRow, SameBut
<1>2. ~HasRow(o)' /\ o \notin th[h].todo
  BY DEF HasRow, NoRow, Planned
<1>3. \A p \in Ordinals : p < th[h].want => row'[p] = row[p]
  BY DEF Planned, SameBut
<1>4. Planned(h)'
  BY <1>1, <1>2, Extremes DEF Planned, Section, Request
<1>5. Covered(h) => Covered(h)'
  BY <1>3 DEF Covered
<1>6. QED
  BY <1>4, <1>5

LEMMA MarkPlanned ==
  ASSUME Types, NEW h \in Handler, Mark(h), Planned(h)
  PROVE  Planned(h)' /\ (Covered(h) => Covered(h)')
<1> PICK o \in th[h].todo :
      /\ o \in Ordinals /\ o = Min(th[h].todo) /\ th[h].left = {}
      /\ Others(h) /\ th'[h].at = "create" /\ SamePlan(h) /\ SameBut(o)
      /\ \/ o \in th[h].new /\ ~HasRow(o) /\ row'[o].status = "creating"
         \/ o \notin th[h].new /\ HasRow(o) /\ row'[o].status = "creating"
         \/ o \notin th[h].new /\ ~HasRow(o)
  BY MarkDoes
<1>1. row'[o].status = "creating" /\ o < th[h].want
  BY DEF Planned
<1>2. HasRow(o)' /\ \A p \in Ordinals \ { o } : HasRow(p)' <=> HasRow(p)
  BY <1>1 DEF HasRow, SameBut
<1>3. o = Min(th'[h].todo)
  BY DEF SamePlan
<1>4. Planned(h)'
  BY <1>1, <1>2, <1>3, Extremes DEF Planned, SamePlan, Section, Request
<1>5. Covered(h) => Covered(h)'
  BY DEF Covered, SamePlan, SameBut
<1>6. QED
  BY <1>4, <1>5

LEMMA SettlePlanned ==
  ASSUME Types, NEW h \in Handler, Ready(h) \/ DeployFails(h), Planned(h)
  PROVE  Planned(h)' /\ (Ready(h) /\ Covered(h) => Covered(h)')
<1> PICK o \in th[h].todo :
      /\ o \in Ordinals /\ o = Min(th[h].todo) /\ th[h].at \in { "create", "settle" }
      /\ Others(h) /\ th'[h].at = "work" /\ th'[h].todo = th[h].todo \ { o }
      /\ th'[h].new = th[h].new \ { o } /\ th'[h].want = th[h].want /\ th'[h].left = th[h].left
      /\ SameBut(o)
      /\ HasRow(o) /\ Ready(h) => row'[o].status = "ready"
      /\ HasRow(o) /\ DeployFails(h) => row'[o].status = "failed"
  BY SettleDoes
<1>1. HasRow(o) /\ o < th[h].want
  BY DEF Planned
<1>2. HasRow(o)' /\ \A p \in Ordinals \ { o } : HasRow(p)' <=> HasRow(p)
  BY <1>1 DEF HasRow, SameBut
<1>3. Planned(h)'
  BY <1>1, <1>2, Extremes DEF Planned, Section, Request
<1>4. Ready(h) /\ Covered(h) => Covered(h)'
  BY <1>1 DEF Covered, SameBut
<1>5. QED
  BY <1>3, <1>4

LEMMA OtherwisePlanned ==
  ASSUME Types, NEW h \in Handler, Kill(h) \/ Create(h) \/ Finish(h), Planned(h)
  PROVE  Planned(h)' /\ (Covered(h) => Covered(h)')
<1>1. CASE Kill(h)
  BY <1>1, KillDoes DEF Planned, Covered, SamePlan, HasRow, Section
<1>2. CASE Create(h)
  BY <1>2, CreateDoes DEF Planned, Covered, SamePlan, HasRow, Section
<1>3. CASE Finish(h)
  BY <1>3, FinishDoes DEF Planned, Covered, SamePlan, HasRow, Section
<1>4. QED
  BY <1>1, <1>2, <1>3

LEMMA SectionOnTrack ==
  ASSUME Types, OnTrack, NEW h \in Handler,
         Stop(h) \/ Kill(h) \/ Drop(h) \/ Mark(h) \/ Create(h) \/ Ready(h) \/ Finish(h)
  PROVE  OnTrack'
<1>1. Others(h)
  BY StopDoes, KillDoes, DropDoes, MarkDoes, CreateDoes, SettleDoes, FinishDoes
<1>2. clean' = clean \cap { h } \/ (clean' = clean /\ row' = row)
  BY DEF Stop, Kill, Drop, Mark, Create, Ready, Finish, Disturbs, history
<1>3. ASSUME h \in clean' PROVE Planned(h)' /\ Covered(h)'
  <2>1. Planned(h) /\ Covered(h)
    BY <1>2, <1>3 DEF OnTrack
  <2>2. QED
    BY <2>1, StopPlanned, DropPlanned, MarkPlanned, SettlePlanned, OtherwisePlanned
<1>4. QED
  BY <1>1, <1>2, <1>3, OthersOnTrack

\* The other steps of a request: it is not, or no longer, undisturbed.
LEMMA OthersDo ==
  ASSUME Types, NEW h \in Handler,
         \/ (\E n \in 1 .. MaxReplicas : Deploy(h, n)) \/ Undeploy(h) \/ Delete(h)
         \/ Acquire(h) \/ InsertFails(h) \/ DeployFails(h) \/ Release(h) \/ Publish(h)
         \/ Wipe(h) \/ Clear(h) \/ Unpublish(h) \/ Erase(h) \/ Crash(h)
  PROVE  /\ Others(h) /\ h \notin clean' /\ clean' \subseteq clean
         /\ row' = row \/ clean' = {}
<1>1. th \in [ Handler -> Request ] /\ clean \subseteq InSection
  BY DEF Types, Requests
<1>2. Others(h)
  BY <1>1 DEF Others, Deploy, Undeploy, Delete, Acquire, InsertFails, DeployFails, UpdateRow, Release,
     Publish, Wipe, Clear, Unpublish, Erase, Crash, Leaves, To
<1>3. CASE InsertFails(h) \/ DeployFails(h) \/ Release(h) \/ Crash(h)
  <2>1. clean' = {} \/ (clean' = clean \ { h } /\ row' = row)
    BY <1>3 DEF InsertFails, DeployFails, Release, Crash
  <2>2. QED
    BY <1>2, <2>1
<1>4. CASE ~(InsertFails(h) \/ DeployFails(h) \/ Release(h) \/ Crash(h))
  <2>1. h \notin clean
    BY <1>1, <1>4 DEF Deploy, Undeploy, Delete, Acquire, Publish, Wipe, Clear, Unpublish, Erase,
       InSection, Section
  <2>2. clean' = clean \cap { h } \/ (clean' = clean /\ row' = row)
    BY <1>4 DEF Deploy, Undeploy, Delete, Acquire, Publish, Wipe, Clear, Unpublish, Erase,
       Disturbs, history
  <2>3. QED
    BY <1>2, <2>1, <2>2
<1>5. QED
  BY <1>3, <1>4

LEMMA StaysOnTrack == Types /\ OnTrack /\ [Next]_vars => OnTrack'
<1> SUFFICES ASSUME Types, OnTrack, [Next]_vars PROVE OnTrack'
  OBVIOUS
<1>1. CASE UNCHANGED vars \/ LockExpires
  BY <1>1 DEF vars, history, LockExpires, OnTrack, Planned, Covered, HasRow
<1>2. ASSUME NEW h \in Handler,
             \/ (\E n \in 1 .. MaxReplicas : Deploy(h, n)) \/ Undeploy(h) \/ Delete(h)
             \/ Acquire(h) \/ InsertFails(h) \/ DeployFails(h) \/ Release(h) \/ Publish(h)
             \/ Destroy(h) \/ Crash(h)
      PROVE  OnTrack'
  <2>1. Others(h) /\ h \notin clean' /\ clean' \subseteq clean /\ (row' = row \/ clean' = {})
    BY <1>2, OthersDo DEF Destroy
  <2>2. QED
    BY <2>1, OthersOnTrack
<1>3. ASSUME NEW h \in Handler, Reconcile(h) PROVE OnTrack'
  BY <1>2, <1>3, ReadOnTrack, SectionOnTrack DEF Reconcile
<1>4. QED
  BY <1>1, <1>2, <1>3 DEF Next

\* A reconciliation that nobody disturbs and whose deployments succeed leaves
\* exactly the replicas asked for, all of them ready, whatever it found in the
\* table (reconcileServiceReplicas).
THEOREM ReconcilingHeals == Spec => []Heals
<1>1. Init => OnTrack
  BY DEF Init, OnTrack
<1>2. Types /\ OnTrack => Heals
  <2> SUFFICES ASSUME Types, OnTrack, NEW h \in clean, th[h].at = "release", NEW o \in Ordinals
               PROVE  row[o].status = IF o < th[h].want THEN "ready" ELSE "none"
    BY DEF Heals
  <2>1. Planned(h) /\ Covered(h)
    BY DEF OnTrack
  <2>2. th[h].left = {} /\ th[h].todo = {}
    BY <2>1 DEF Planned
  <2>3. QED
    BY <2>1, <2>2 DEF Planned, Covered, HasRow
<1>3. QED
  BY <1>1, <1>2, StaysOnTrack, Invariant, PTL DEF Spec

-------------------------------------------------------------------------------
(* Whose sandbox is whose.                                                 *)

\* A new sandbox runs, and nobody else knows of it before its row does.
Fresh ==
  \A h \in Handler : th[h].box # NoBox =>
    /\ th[h].box \in up
    /\ \A o \in Ordinals : th[h].box # row[o].box
    /\ \A g \in Handler, o \in Ordinals : th[h].box # th[g].seen[o]
    /\ \A g \in Handler \ { h } : th[h].box # th[g].box

\* A sandbox belongs to one ordinal, in the table and in what was read of it.
Apart ==
  \A o, p \in Ordinals : o # p =>
    /\ row[o].box # NoBox => row[o].box # row[p].box
    /\ \A h \in Handler : th[h].seen[o] # NoBox => th[h].seen[o] # row[p].box

\* The sandbox about to be destroyed is not the one its row calls ready: the
\* row was marked before, and has since been made ready by another sandbox only.
Marked ==
  \A h \in Handler : th[h].at = "kill" =>
    \/ row[Max(th[h].left)].status # "ready"
    \/ row[Max(th[h].left)].box # th[h].seen[Max(th[h].left)]

Filled == \A o \in Ordinals : row[o].status = "ready" => row[o].box # NoBox

Forgotten ==
  \A h \in Handler : th[h].at \in { "unpublish", "erase" } =>
    \A o \in Ordinals : th[h].seen[o] = NoBox

Owned == Fresh /\ Apart /\ Marked /\ Filled /\ Forgotten /\ ReadyIsUp

\* No sandbox is named that was not known for the ordinal, and no row becomes
\* ready.
Recalls ==
  /\ \A o \in Ordinals :
       /\ row'[o].box = row[o].box \/ row'[o].box = NoBox
       /\ row'[o].status = "ready" => row'[o] = row[o]
  /\ \A g \in Handler :
       /\ th'[g].box = th[g].box \/ th'[g].box = NoBox
       /\ \A o \in Ordinals :
            th'[g].seen[o] = th[g].seen[o] \/ th'[g].seen[o] = NoBox \/ th'[g].seen[o] = row[o].box

\* Such a step takes at most one sandbox away: not a new one, and no ready one
\* unless its row is about to be deleted.
LEMMA OwnedKept ==
  ASSUME Types, Owned, NEW h \in Handler, Others(h), Recalls, leaky => leaky',
         NEW gone \in Sandbox, up' = up \ { gone },
         \A g \in Handler : th'[g].box # NoBox => th'[g].box # gone,
         th'[h].at = "kill" => row'[Max(th'[h].left)].status # "ready",
         th'[h].at \in { "unpublish", "erase" } => \A o \in Ordinals : th'[h].seen[o] = NoBox,
         th[h].at \in Removing =>
           \/ leaky'
           \/ th'[h].at \in Removing /\ th'[h].seen = th[h].seen
           \/ \A o \in Ordinals : row'[o].status # "ready"
           \/ \A o \in Ordinals : th[h].seen[o] = NoBox,
         \A o \in Ordinals : row'[o].status = "ready" /\ row[o].box = gone =>
           leaky' \/ (th'[h].at \in Removing /\ th'[h].seen[o] = gone)
  PROVE  Owned'
<1>1. Fresh'
  <2> SUFFICES ASSUME NEW g \in Handler, th'[g].box # NoBox
               PROVE  /\ th'[g].box \in up'
                      /\ \A o \in Ordinals : th'[g].box # row'[o].box
                      /\ \A f \in Handler, o \in Ordinals : th'[g].box # th'[f].seen[o]
                      /\ \A f \in Handler \ { g } : th'[g].box # th'[f].box
    BY DEF Fresh
  <2>1. th'[g].box = th[g].box
    BY DEF Recalls
  <2>2. /\ th[g].box \in up
        /\ \A o \in Ordinals : th[g].box # row[o].box
        /\ \A f \in Handler, o \in Ordinals : th[g].box # th[f].seen[o]
        /\ \A f \in Handler \ { g } : th[g].box # th[f].box
    BY <2>1 DEF Owned, Fresh
  <2>3. QED
    BY <2>1, <2>2 DEF Recalls
<1>2. Apart'
  <2> SUFFICES ASSUME NEW o \in Ordinals, NEW p \in Ordinals, o # p
               PROVE  /\ row'[o].box # NoBox => row'[o].box # row'[p].box
                      /\ \A g \in Handler : th'[g].seen[o] # NoBox => th'[g].seen[o] # row'[p].box
    BY DEF Apart
  <2>1. /\ row[o].box # NoBox => row[o].box # row[p].box
        /\ \A g \in Handler : th[g].seen[o] # NoBox => th[g].seen[o] # row[p].box
    BY DEF Owned, Apart
  <2>2. QED
    BY <2>1 DEF Recalls
<1>3. Marked'
  <2> SUFFICES ASSUME NEW g \in Handler, th'[g].at = "kill", row'[Max(th'[g].left)].status = "ready"
               PROVE  row'[Max(th'[g].left)].box # th'[g].seen[Max(th'[g].left)]
    BY DEF Marked
  <2>1. g # h /\ th'[g] = th[g]
    BY DEF Others
  <2>2. th[g].left # {} /\ Max(th[g].left) \in Ordinals
    BY <2>1, Extremes DEF Sound, Request
  <2> PICK o \in Ordinals : o = Max(th[g].left)
    BY <2>2
  <2>3. row'[o].status = "ready" /\ row'[o] = row[o]
    BY <2>1 DEF Recalls
  <2>4. QED
    BY <2>1, <2>3 DEF Owned, Marked
<1>4. Filled'
  BY DEF Owned, Filled, Recalls
<1>5. Forgotten'
  <2> SUFFICES ASSUME NEW g \in Handler, th'[g].at \in { "unpublish", "erase" }, NEW o \in Ordinals
               PROVE  th'[g].seen[o] = NoBox
    BY DEF Forgotten
  <2>1. CASE g # h
    BY <2>1 DEF Others, Owned, Forgotten
  <2>2. QED
    BY <2>1
<1>6. ReadyIsUp'
  <2> SUFFICES ASSUME NEW o \in Ordinals, row'[o].status = "ready", ~leaky'
               PROVE  \/ row'[o].box \in up'
                      \/ \E g \in Handler : th'[g].at \in Removing /\ th'[g].seen[o] = row'[o].box
    BY DEF ReadyIsUp, Destroying
  <2>1. row'[o] = row[o] /\ row[o].status = "ready" /\ ~leaky
    BY DEF Recalls
  <2>2. row[o].box # NoBox
    BY <2>1 DEF Owned, Filled
  <2>3. CASE row[o].box \in up
    BY <2>1, <2>3
  <2>4. CASE \E g \in Handler : th[g].at \in Removing /\ th[g].seen[o] = row[o].box
    <3> PICK g \in Handler : th[g].at \in Removing /\ th[g].seen[o] = row[o].box
      BY <2>4
    <3>1. CASE g # h
      BY <2>1, <3>1 DEF Others
    <3>2. CASE g = h
      BY <2>1, <2>2, <3>2
    <3>3. QED
      BY <3>1, <3>2
  <2>5. QED
    BY <2>1, <2>3, <2>4 DEF Owned, ReadyIsUp, Destroying
<1>7. QED
  BY <1>1, <1>2, <1>3, <1>4, <1>5, <1>6 DEF Owned

\* ... and most steps take none away.
LEMMA OwnedIfAllRun ==
  ASSUME Types, Owned, NEW h \in Handler, Others(h), Recalls, leaky => leaky', up' = up,
         th'[h].at = "kill" => row'[Max(th'[h].left)].status # "ready",
         th'[h].at \in { "unpublish", "erase" } => \A o \in Ordinals : th'[h].seen[o] = NoBox,
         th[h].at \in Removing =>
           \/ leaky'
           \/ th'[h].at \in Removing /\ th'[h].seen = th[h].seen
           \/ \A o \in Ordinals : row'[o].status # "ready"
           \/ \A o \in Ordinals : th[h].seen[o] = NoBox
  PROVE  Owned'
<1>1. up' = up \ { NoBox } /\ NoBox \in Sandbox
  BY NumberAssumption DEF Types, Stores, Boxes, NoBox, Sandbox
<1>2. \A o \in Ordinals : row'[o].status = "ready" => row[o].box # NoBox
  BY DEF Recalls, Owned, Filled
<1>3. QED
  BY <1>1, <1>2, OwnedKept

LEMMA ReadOwned ==
  ASSUME Types, Owned, NEW h \in Handler, Read(h) PROVE Owned'
<1>1. /\ Others(h) /\ th'[h].at = "work" /\ th'[h].box = th[h].box
      /\ \A o \in Ordinals :
           th'[h].seen[o] = IF HasRow(o) /\ o >= th[h].want THEN row[o].box ELSE NoBox
      /\ UNCHANGED << row, up, leaky >>
  BY ReadDoes
<1>2. Recalls
  BY <1>1 DEF Recalls, Others
<1>3. th[h].at \notin Removing
  BY DEF Read, Removing
<1>4. QED
  BY <1>1, <1>2, <1>3, OwnedIfAllRun

LEMMA StopOwned ==
  ASSUME Types, Owned, NEW h \in Handler, Stop(h) PROVE Owned'
<1> PICK o \in th[h].left :
      /\ o \in Ordinals /\ o = Max(th[h].left) /\ th[h].at = "work"
      /\ Others(h) /\ th'[h].at = "kill" /\ SamePlan(h)
      /\ th'[h].seen = th[h].seen /\ th'[h].box = th[h].box
      /\ SameBut(o) /\ row'[o].box = row[o].box
      /\ row'[o].status = IF HasRow(o) THEN "stopping" ELSE row[o].status
      /\ UNCHANGED << up, leaky >>
  BY StopDoes
<1>1. row'[o].status # "ready"
  BY DEF HasRow
<1>2. Recalls
  BY <1>1 DEF Recalls, Others, SameBut
<1>3. th[h].at \notin Removing /\ o = Max(th'[h].left)
  BY DEF Removing, SamePlan
<1>4. QED
  BY <1>1, <1>2, <1>3, OwnedIfAllRun

LEMMA KillOwned ==
  ASSUME Types, Owned, NEW h \in Handler, Kill(h) PROVE Owned'
<1> PICK o \in th[h].left :
      /\ o \in Ordinals /\ o = Max(th[h].left) /\ th[h].at = "kill"
      /\ Others(h) /\ th'[h].at = "drop" /\ th'[h].box = th[h].box
      /\ th'[h].seen[o] = NoBox
      /\ \A p \in Ordinals \ { o } : th'[h].seen[p] = th[h].seen[p]
      /\ UNCHANGED row
      /\ (up' = up \ { th[h].seen[o] } /\ leaky' = leaky) \/ (up' = up /\ leaky')
  BY KillDoes
<1>1. Recalls
  BY DEF Recalls, Others
<1>2. th[h].at \notin Removing
  BY DEF Removing
<1>3. CASE up' = up /\ leaky'
  BY <1>1, <1>2, <1>3, OwnedIfAllRun
<1>4. CASE up' = up \ { th[h].seen[o] } /\ leaky' = leaky
  <2>1. \A g \in Handler : th'[g].box # NoBox => th'[g].box # th[h].seen[o]
    BY DEF Others, Owned, Fresh
  <2>2. ASSUME NEW p \in Ordinals, row'[p].status = "ready" PROVE row[p].box # th[h].seen[o]
    <3>1. row[p].box # NoBox /\ row[p].status = "ready"
      BY <2>2 DEF Owned, Filled
    <3>2. CASE p = o
      BY <3>1, <3>2 DEF Owned, Marked
    <3>3. CASE p # o
      BY <3>1, <3>3 DEF Owned, Apart
    <3>4. QED
      BY <3>2, <3>3
  <2>3. th[h].seen[o] \in Sandbox
    BY Extremes DEF Request
  <2>4. QED
    BY <1>1, <1>2, <1>4, <2>1, <2>2, <2>3, OwnedKept
<1>5. QED
  BY <1>3, <1>4

LEMMA DropOwned ==
  ASSUME Types, Owned, NEW h \in Handler, Drop(h) PROVE Owned'
<1> PICK o \in th[h].left :
      /\ o \in Ordinals /\ th[h].at = "drop" /\ Others(h) /\ th'[h].at = "work"
      /\ th'[h].seen = th[h].seen /\ th'[h].box = th[h].box
      /\ SameBut(o) /\ row'[o] = NoRow /\ UNCHANGED << up, leaky >>
  BY DropDoes
<1>1. Recalls
  BY DEF Recalls, Others, SameBut, NoRow
<1>2. QED
  BY <1>1, OwnedIfAllRun DEF Removing

LEMMA MarkOwned ==
  ASSUME Types, Owned, NEW h \in Handler, Mark(h) PROVE Owned'
<1> PICK o \in th[h].todo :
      /\ o \in Ordinals /\ th[h].at = "work" /\ Others(h) /\ th'[h].at = "create"
      /\ th'[h].seen = th[h].seen /\ th'[h].box = th[h].box
      /\ SameBut(o) /\ UNCHANGED << up, leaky >>
      /\ \/ row'[o].status = "creating" /\ row'[o].box = NoBox
         \/ row'[o].status = "creating" /\ row'[o].box = row[o].box
         \/ row'[o] = row[o]
  BY MarkDoes
<1>1. Recalls
  BY DEF Recalls, Others, SameBut
<1>2. QED
  BY <1>1, OwnedIfAllRun DEF Removing

LEMMA DeployFailsOwned ==
  ASSUME Types, Owned, NEW h \in Handler, DeployFails(h) PROVE Owned'
<1>1. PICK o \in th[h].todo :
        /\ o \in Ordinals /\ th[h].at \in { "create", "settle" }
        /\ Others(h) /\ th'[h].at = "work" /\ th'[h].seen = th[h].seen /\ th'[h].box = NoBox
        /\ SameBut(o)
        /\ ~HasRow(o) => row'[o] = row[o]
        /\ HasRow(o) => row'[o].status = "failed" /\ row'[o].box = row[o].box
        /\ (up' = up \ { th[h].box } /\ leaky' = leaky) \/ (up' = up /\ leaky')
  BY SettleDoes
<1>2. Recalls
  BY <1>1 DEF Recalls, Others, SameBut
<1>3. Others(h) /\ th'[h].at \notin { "kill", "unpublish", "erase" } /\ th[h].at \notin Removing
  BY <1>1 DEF Removing
<1>4. CASE up' = up /\ leaky'
  BY <1>2, <1>3, <1>4, OwnedIfAllRun
<1>5. CASE up' = up \ { th[h].box } /\ leaky' = leaky
  <2>1. \A g \in Handler : th'[g].box # NoBox => th'[g].box # th[h].box
    BY <1>1 DEF Others, Owned, Fresh
  <2>2. ASSUME NEW p \in Ordinals, row'[p].status = "ready" PROVE row[p].box # th[h].box
    <3>1. row[p].box # NoBox
      BY <1>2, <2>2 DEF Owned, Filled, Recalls
    <3>2. QED
      BY <3>1 DEF Owned, Fresh
  <2>3. \A p \in Ordinals : ~(row'[p].status = "ready" /\ row[p].box = th[h].box)
    BY <2>2
  <2>4. leaky => leaky'
    BY <1>5
  <2>5. th[h].box \in Sandbox
    BY Extremes DEF Request
  <2>6. QED
    BY <1>2, <1>3, <1>5, <2>1, <2>3, <2>4, <2>5, OwnedKept
<1>6. QED
  BY <1>1, <1>4, <1>5

\* The new sandbox is one that nobody remembers.
LEMMA CreateOwned ==
  ASSUME Types, Owned, NEW h \in Handler, Create(h) PROVE Owned'
<1> PICK b \in Boxes \ (up \cup Remembered) :
      /\ th[h].at = "create" /\ Others(h) /\ th'[h].at = "settle"
      /\ th'[h].seen = th[h].seen /\ th'[h].box = b
      /\ up' = up \cup { b } /\ UNCHANGED << row, leaky >>
  BY CreateDoes
<1>1. /\ \A o \in Ordinals : b # row[o].box
      /\ \A g \in Handler : b # th[g].box /\ \A o \in Ordinals : b # th[g].seen[o]
  BY DEF Remembered
<1>2. \A g \in Handler : th'[g].seen = th[g].seen
  BY DEF Others
<1>3. Fresh'
  <2> SUFFICES ASSUME NEW g \in Handler, th'[g].box # NoBox
               PROVE  /\ th'[g].box \in up'
                      /\ \A o \in Ordinals : th'[g].box # row'[o].box
                      /\ \A f \in Handler, o \in Ordinals : th'[g].box # th'[f].seen[o]
                      /\ \A f \in Handler \ { g } : th'[g].box # th'[f].box
    BY DEF Fresh
  <2>1. CASE g = h
    BY <1>1, <1>2, <2>1 DEF Others
  <2>2. CASE g # h
    BY <1>1, <1>2, <2>2 DEF Others, Owned, Fresh
  <2>3. QED
    BY <2>1, <2>2
<1>4. Apart' /\ Filled'
  BY <1>2 DEF Owned, Apart, Filled
<1>5. Marked' /\ Forgotten'
  BY DEF Others, Owned, Marked, Forgotten
<1>6. ReadyIsUp'
  BY DEF Others, Owned, ReadyIsUp, Destroying, Removing
<1>7. QED
  BY <1>3, <1>4, <1>5, <1>6 DEF Owned

\* A row gets the sandbox nobody else knows of.
LEMMA ReadyOwned ==
  ASSUME Types, Owned, NEW h \in Handler, Ready(h) PROVE Owned'
<1> PICK o \in th[h].todo :
      /\ o \in Ordinals
      /\ Others(h) /\ th'[h].at = "work" /\ th'[h].seen = th[h].seen /\ th'[h].box = NoBox
      /\ SameBut(o)
      /\ ~HasRow(o) => row'[o] = row[o]
      /\ HasRow(o) => row'[o].status = "ready" /\ row'[o].box = th[h].box
      /\ UNCHANGED << up, leaky >>
  BY SettleDoes
<1>1. th[h].at = "settle" /\ th[h].box # NoBox
  BY Extremes DEF Ready, Sound
<1>2. /\ th[h].box \in up
      /\ \A p \in Ordinals : th[h].box # row[p].box
      /\ \A g \in Handler, p \in Ordinals : th[h].box # th[g].seen[p]
      /\ \A g \in Handler \ { h } : th[h].box # th[g].box
  BY <1>1 DEF Owned, Fresh
<1>3. CASE row'[o] = row[o]
  <2>1. Recalls
    BY <1>3 DEF Recalls, Others, SameBut
  <2>2. QED
    BY <1>1, <2>1, OwnedIfAllRun DEF Removing
<1>4. CASE row'[o].status = "ready" /\ row'[o].box = th[h].box
  <2>1. \A g \in Handler : th'[g].seen = th[g].seen
    BY DEF Others
  <2>2. Fresh'
    <3> SUFFICES ASSUME NEW g \in Handler, th'[g].box # NoBox
                 PROVE  /\ th'[g].box \in up'
                        /\ \A p \in Ordinals : th'[g].box # row'[p].box
                        /\ \A f \in Handler, p \in Ordinals : th'[g].box # th'[f].seen[p]
                        /\ \A f \in Handler \ { g } : th'[g].box # th'[f].box
      BY DEF Fresh
    <3>1. g # h /\ th'[g] = th[g]
      BY DEF Others
    <3>2. /\ th[g].box \in up
          /\ \A p \in Ordinals : th[g].box # row[p].box
          /\ \A f \in Handler, p \in Ordinals : th[g].box # th[f].seen[p]
          /\ \A f \in Handler \ { g } : th[g].box # th[f].box
      BY <3>1 DEF Owned, Fresh
    <3>3. QED
      BY <1>2, <1>4, <2>1, <3>1, <3>2 DEF SameBut, Others
  <2>3. Apart'
    <3> SUFFICES ASSUME NEW p \in Ordinals, NEW q \in Ordinals, p # q
                 PROVE  /\ row'[p].box # NoBox => row'[p].box # row'[q].box
                        /\ \A g \in Handler : th'[g].seen[p] # NoBox => th'[g].seen[p] # row'[q].box
      BY DEF Apart
    <3>1. /\ row[p].box # NoBox => row[p].box # row[q].box
          /\ \A g \in Handler : th[g].seen[p] # NoBox => th[g].seen[p] # row[q].box
      BY DEF Owned, Apart
    <3>2. QED
      BY <1>2, <1>4, <2>1, <3>1 DEF SameBut
  <2>4. Marked'
    <3> SUFFICES ASSUME NEW g \in Handler, th'[g].at = "kill", row'[Max(th'[g].left)].status = "ready"
                 PROVE  row'[Max(th'[g].left)].box # th'[g].seen[Max(th'[g].left)]
      BY DEF Marked
    <3>1. g # h /\ th'[g] = th[g]
      BY DEF Others
    <3>2. th[g].left # {} /\ Max(th[g].left) \in Ordinals
      BY <3>1, Extremes DEF Sound, Request
    <3> PICK p \in Ordinals : p = Max(th[g].left)
      BY <3>2
    <3>3. CASE p = o
      BY <1>2, <1>4, <3>1, <3>3
    <3>4. CASE p # o
      BY <3>1, <3>4 DEF SameBut, Owned, Marked
    <3>5. QED
      BY <3>3, <3>4
  <2>5. Filled'
    BY <1>1, <1>4 DEF Owned, Filled, SameBut
  <2>6. Forgotten'
    BY DEF Others, Owned, Forgotten
  <2>7. ReadyIsUp'
    <3> SUFFICES ASSUME NEW p \in Ordinals, row'[p].status = "ready", ~leaky'
                 PROVE  \/ row'[p].box \in up'
                        \/ \E g \in Handler : th'[g].at \in Removing /\ th'[g].seen[p] = row'[p].box
      BY DEF ReadyIsUp, Destroying
    <3>1. CASE p = o
      BY <1>2, <1>4, <3>1
    <3>2. CASE p # o
      <4>1. row'[p] = row[p] /\ ~leaky
        BY <3>2 DEF SameBut
      <4>2. \/ row[p].box \in up
            \/ \E g \in Handler : th[g].at \in Removing /\ th[g].seen[p] = row[p].box
        BY <4>1 DEF Owned, ReadyIsUp, Destroying
      <4>3. \A g \in Handler : th[g].at \in Removing => th'[g].at \in Removing
        BY <1>1 DEF Others, Removing
      <4>4. QED
        BY <2>1, <4>1, <4>2, <4>3
    <3>3. QED
      BY <3>1, <3>2
  <2>8. QED
    BY <2>2, <2>3, <2>4, <2>5, <2>6, <2>7 DEF Owned
<1>5. QED
  BY <1>3, <1>4

\* Steps that leave the table and the sandboxes alone.
LEMMA AsideOwned ==
  ASSUME Types, Owned, NEW h \in Handler, Aside(h) PROVE Owned'
<1>1. /\ Others(h) /\ row' = row /\ up' = up /\ (leaky => leaky')
      /\ th'[h].box = th[h].box \/ th'[h].box = NoBox
      /\ th'[h].seen = th[h].seen \/ th'[h].seen = NoBoxes
      /\ th'[h].at \in { "idle", "lock", "publish", "read", "release" }
  BY AsideDoes
<1>2. th[h].at \in Removing => leaky' \/ \A o \in Ordinals : th[h].seen[o] = NoBox
  <2>1. CASE Crash(h)
    BY <2>1, Zenon DEF Crash
  <2>2. CASE Unpublish(h)
    BY <2>2 DEF Unpublish, Owned, Forgotten
  <2>3. CASE ~Crash(h) /\ ~Unpublish(h)
    BY <2>3 DEF Aside, Deploy, Acquire, InsertFails, Finish, Release, Publish, Deploys, Removing
  <2>4. QED
    BY <2>1, <2>2, <2>3
<1>3. Recalls
  BY <1>1 DEF Recalls, Others, NoBoxes
<1>4. QED
  BY <1>1, <1>2, <1>3, OwnedIfAllRun

LEMMA RemoveOwned ==
  ASSUME Types, Owned, NEW h \in Handler, Undeploy(h) \/ Delete(h) PROVE Owned'
<1>1. /\ th[h].at = "idle" /\ Others(h) /\ th'[h].box = NoBox
      /\ row' = row /\ up' = up /\ (leaky => leaky')
      /\ \/ /\ th'[h].at = "wipe"
            /\ \A o \in Ordinals : th'[h].seen[o] = row[o].box
         \/ /\ th'[h].at = "erase"
            /\ \A o \in Ordinals : th'[h].seen[o] = NoBox
  BY RemoveDoes
<1>2. Recalls
  BY <1>1 DEF Recalls, Others
<1>3. QED
  BY <1>1, <1>2, OwnedIfAllRun DEF Removing

LEMMA WipeOwned ==
  ASSUME Types, Owned, NEW h \in Handler, Wipe(h) PROVE Owned'
<1>1. PICK o \in th[h].left :
        /\ o \in Ordinals /\ th[h].at = "wipe" /\ Others(h) /\ th'[h].at = "wipe"
        /\ th'[h].seen = th[h].seen /\ th'[h].box = th[h].box /\ row' = row
        /\ (up' = up \ { th[h].seen[o] } /\ leaky' = leaky) \/ (up' = up /\ leaky')
  BY WipeDoes
<1>2. Recalls
  BY <1>1 DEF Recalls, Others
<1>3. CASE up' = up /\ leaky'
  BY <1>1, <1>2, <1>3, OwnedIfAllRun
<1>4. CASE up' = up \ { th[h].seen[o] } /\ leaky' = leaky
  <2>1. \A g \in Handler : th'[g].box # NoBox => th'[g].box # th[h].seen[o]
    BY <1>1 DEF Others, Owned, Fresh
  <2>2. ASSUME NEW p \in Ordinals, row'[p].status = "ready", row[p].box = th[h].seen[o]
        PROVE  th'[h].at \in Removing /\ th'[h].seen[p] = th[h].seen[o]
    <3>1. row[p].box # NoBox
      BY <1>1, <2>2 DEF Owned, Filled
    <3>2. p = o
      BY <1>1, <2>2, <3>1 DEF Owned, Apart
    <3>3. QED
      BY <1>1, <3>2 DEF Removing
  <2>3. th'[h].at \in Removing
    BY <1>1 DEF Removing
  <2>4. th[h].seen[o] \in Sandbox
    BY <1>1, Extremes DEF Request
  <2>5. QED
    BY <1>1, <1>2, <1>4, <2>1, <2>2, <2>3, <2>4, OwnedKept
<1>5. QED
  BY <1>1, <1>3, <1>4

\* The whole table goes.
LEMMA EmptyOwned ==
  ASSUME Types, Owned, NEW h \in Handler, Clear(h) \/ Erase(h) PROVE Owned'
<1>1. /\ Others(h) /\ th'[h].box = NoBox /\ th'[h].seen = NoBoxes /\ th'[h].at # "kill"
      /\ (\A o \in Ordinals : row'[o] = NoRow) /\ up' = up /\ leaky' = leaky
  BY EmptyDoes
<1>2. \A o \in Ordinals : row'[o].box = NoBox /\ row'[o].status # "ready" /\ NoBoxes[o] = NoBox
  BY <1>1 DEF NoRow, NoBoxes
<1>3. Recalls
  BY <1>1, <1>2 DEF Recalls, Others
<1>4. QED
  BY <1>1, <1>2, <1>3, OwnedIfAllRun

LEMMA StaysOwned == Types /\ Owned /\ [Next]_vars => Owned'
<1> SUFFICES ASSUME Types, Owned, [Next]_vars PROVE Owned'
  OBVIOUS
<1>1. CASE UNCHANGED vars \/ LockExpires
  <2>1. th' = th /\ row' = row /\ up' = up
    BY <1>1 DEF vars, LockExpires
  <2>2. leaky => leaky'
    BY <1>1, Zenon DEF vars, history, LockExpires
  <2>3. Fresh' /\ Apart' /\ Marked' /\ Filled' /\ Forgotten'
    BY <2>1 DEF Owned, Fresh, Apart, Marked, Filled, Forgotten
  <2>4. ReadyIsUp'
    BY <2>1, <2>2 DEF Owned, ReadyIsUp, Destroying
  <2>5. QED
    BY <2>3, <2>4 DEF Owned
<1>2. ASSUME NEW h \in Handler,
             (\E n \in 1 .. MaxReplicas : Deploy(h, n)) \/ Undeploy(h) \/ Delete(h) \/ Crash(h)
      PROVE  Owned'
  BY <1>2, AsideOwned, RemoveOwned DEF Aside
<1>3. ASSUME NEW h \in Handler, Reconcile(h) PROVE Owned'
  BY <1>3, AsideOwned, ReadOwned, StopOwned, KillOwned, DropOwned, MarkOwned, CreateOwned, ReadyOwned,
     DeployFailsOwned DEF Reconcile, Aside
<1>4. ASSUME NEW h \in Handler, Destroy(h) PROVE Owned'
  BY <1>4, AsideOwned, WipeOwned, EmptyOwned DEF Destroy, Aside
<1>5. QED
  BY <1>1, <1>2, <1>3, <1>4 DEF Next

\* A row that says ready has a sandbox that was not destroyed, unless a request
\* that destroys them all is between that sandbox and the rows, or one of the
\* troubles that NoOrphans names has occurred before (reconcileServiceReplicas,
\* destroyServiceReplicas).
THEOREM ReadyRowsAreUp == Spec => []ReadyIsUp
<1>1. Init => Owned
  <2> SUFFICES ASSUME Init PROVE Owned
    OBVIOUS
  <2>1. \A o \in Ordinals : row[o].box = NoBox /\ row[o].status = "none"
    BY DEF Init, NoRow
  <2>2. \A h \in Handler : th[h].box = NoBox /\ th[h].at = "idle" /\ th[h].seen = NoBoxes
    BY DEF Init, Idle
  <2>3. \A o \in Ordinals : NoBoxes[o] = NoBox
    BY DEF NoBoxes
  <2>4. QED
    BY <2>1, <2>2, <2>3 DEF Owned, Fresh, Apart, Marked, Filled, Forgotten, ReadyIsUp
<1>2. Owned => ReadyIsUp
  BY DEF Owned
<1>3. QED
  BY <1>1, <1>2, StaysOwned, Invariant, PTL DEF Spec

-------------------------------------------------------------------------------
(* Who knows of a sandbox that runs.                                       *)

\* A request past its reading of the rows.
Under(h) == th[h].at \in Section \ { "read" }

\* It destroys what it takes down before the row goes, what it deploys anew
\* has no sandbox, and every sandbox is its new one, or in a row, or yet to be
\* taken down.
Tended(h) ==
  /\ \A o \in Ordinals : th[h].seen[o] \in up => o \in th[h].left
  /\ \A o \in th[h].left : row[o].box \in up => row[o].box = th[h].seen[o]
  /\ th[h].at = "drop" =>
       row[Max(th[h].left)].box \notin up /\ th[h].seen[Max(th[h].left)] \notin up
  /\ \A o \in th[h].todo : row[o].box \notin up
  /\ \A o \in Ordinals : row[o].box \in up => row[o].status = "ready" \/ o \in th[h].left
  /\ \A b \in up : b = th[h].box \/ \E o \in Ordinals : b = row[o].box \/ b = th[h].seen[o]

\* With no such request they are in ready rows, or known to who destroys them.
Settled ==
  /\ \A o \in Ordinals : row[o].box \in up => row[o].status = "ready"
  /\ \A b \in up : \E o \in Ordinals :
       b = row[o].box \/ \E h \in Destroying : b = th[h].seen[o]

Wiping(h) ==
  /\ th[h].at = "wipe" => \A o \in Ordinals :
       /\ th[h].seen[o] \in up => o \in th[h].left
       /\ row[o].box \in up => row[o].box = th[h].seen[o]
  /\ th[h].at = "erase" => \A o \in Ordinals : row[o].box \notin up

\* Who reads the rows for the first time, or is done, knows of no sandbox.
Blank ==
  \A h \in Handler : ~Under(h) /\ th[h].at # "wipe" =>
    \A o \in Ordinals : th[h].seen[o] = NoBox

Empty == \A o \in Ordinals : ~HasRow(o) => row[o].box = NoBox

Known ==
  /\ Blank /\ Empty
  /\ ~leaky =>
       /\ overdue = {}
       /\ Reconciling = {} \/ Destroying = {}
       /\ \A h \in Handler : Under(h) => Planned(h) /\ Tended(h)
       /\ (\A h \in Handler : ~Under(h)) => Settled
       /\ \A h \in Handler : Wiping(h)

\* While nothing has gone wrong the lock does its work: a request in its section
\* is there alone, and nobody destroys beside it.
LEMMA Lone ==
  ASSUME Redis, Types, Locked, Known, ~leaky, NEW h \in InSection
  PROVE  Destroying = {} /\ \A g \in Handler \ { h } : g \notin InSection /\ ~Under(g)
<1>1. overdue = {} /\ (Reconciling = {} \/ Destroying = {})
  BY DEF Known
<1>2. h \in Reconciling
  BY DEF InSection, Reconciling
<1>3. \A g \in InSection : lock = g
  BY <1>1 DEF Locked
<1>4. \A g \in Handler : Under(g) => g \in InSection
  BY DEF Under, InSection
<1>5. QED
  BY <1>1, <1>2, <1>3, <1>4

\* What that request does concerns only itself.
LEMMA UnderKnown ==
  ASSUME Redis, Types, Locked, Known, ~leaky, NEW h \in InSection, Others(h), overdue' = {},
         Under(h)', Planned(h)', Tended(h)', Empty'
  PROVE  Known'
<1>1. h \in Handler /\ Destroying = {} /\ \A g \in Handler \ { h } : g \notin InSection /\ ~Under(g)
  BY Lone DEF InSection
<1>2. \A g \in Handler \ { h } : th'[g] = th[g]
  BY DEF Others
<1>3. th'[h].at \notin Removing /\ Removing = { "wipe", "unpublish", "erase" }
  BY DEF Under, Section, Removing
<1>4. Destroying' = {}
  BY <1>1, <1>2, <1>3 DEF Destroying
<1>5. \A g \in Handler \ { h } : ~Under(g)'
  BY <1>1, <1>2 DEF Under
<1>6. Blank'
  BY <1>1, <1>2 DEF Known, Blank, Under
<1>7. \A g \in Handler : Wiping(g)'
  BY <1>3, <1>4 DEF Wiping, Destroying
<1>8. QED
  BY <1>1, <1>4, <1>5, <1>6, <1>7 DEF Known

LEMMA EmptyKept ==
  ASSUME Types, Empty, NEW h \in Handler,
         Aside(h) \/ Read(h) \/ Stop(h) \/ Kill(h) \/ Drop(h) \/ Mark(h) \/ Create(h) \/ Ready(h)
         \/ DeployFails(h) \/ Undeploy(h) \/ Delete(h) \/ Wipe(h) \/ Clear(h) \/ Erase(h)
  PROVE  Empty'
<1>1. ASSUME row' = row PROVE Empty'
  BY <1>1 DEF Empty, HasRow
<1>2. CASE Aside(h) \/ Read(h) \/ Kill(h) \/ Create(h) \/ Undeploy(h) \/ Delete(h) \/ Wipe(h)
  BY <1>1, <1>2, AsideDoes, ReadDoes, KillDoes, CreateDoes, RemoveDoes, WipeDoes
<1>3. CASE Stop(h)
  BY <1>3, StopDoes DEF Empty, HasRow, SameBut
<1>4. CASE Drop(h)
  BY <1>4, DropDoes DEF Empty, HasRow, SameBut, NoRow
<1>5. CASE Mark(h)
  BY <1>5, MarkDoes DEF Empty, HasRow, SameBut
<1>6. CASE Ready(h) \/ DeployFails(h)
  BY <1>6, SettleDoes DEF Empty, HasRow, SameBut
<1>7. CASE Clear(h) \/ Erase(h)
  BY <1>7, EmptyDoes DEF Empty, HasRow, NoRow
<1>8. QED
  BY <1>2, <1>3, <1>4, <1>5, <1>6, <1>7

LEMMA BlankKept ==
  ASSUME Types, Blank, NEW h \in Handler,
         Aside(h) \/ Read(h) \/ Stop(h) \/ Kill(h) \/ Drop(h) \/ Mark(h) \/ Create(h) \/ Ready(h)
         \/ DeployFails(h) \/ Undeploy(h) \/ Delete(h) \/ Wipe(h) \/ Clear(h) \/ Erase(h)
  PROVE  Blank'
<1>1. ASSUME Others(h), Under(h)' \/ th'[h].at = "wipe" \/ \A o \in Ordinals : th'[h].seen[o] = NoBox
      PROVE  Blank'
  BY <1>1 DEF Blank, Others, Under
<1>2. \A o \in Ordinals : NoBoxes[o] = NoBox
  BY DEF NoBoxes
<1>3. CASE Aside(h)
  <2>1. th[h].at = "lock" => \A o \in Ordinals : th[h].seen[o] = NoBox
    BY DEF Blank, Under, Section
  <2>2. th'[h].at = "release" => Under(h)'
    BY DEF Under, Section
  <2>3. QED
    BY <1>1, <1>2, <1>3, <2>1, <2>2, AsideDoes
<1>4. CASE Read(h) \/ Stop(h) \/ Kill(h) \/ Drop(h) \/ Mark(h) \/ Create(h) \/ Ready(h) \/ DeployFails(h)
  <2>1. Others(h) /\ th'[h].at \in { "work", "kill", "drop", "create", "settle" }
    BY <1>4, ReadDoes, StopDoes, KillDoes, DropDoes, MarkDoes, CreateDoes, SettleDoes
  <2>2. Under(h)'
    BY <2>1 DEF Under, Section
  <2>3. QED
    BY <1>1, <2>1, <2>2
<1>5. CASE Undeploy(h) \/ Delete(h) \/ Wipe(h) \/ Clear(h) \/ Erase(h)
  BY <1>1, <1>2, <1>5, RemoveDoes, WipeDoes, EmptyDoes
<1>6. QED
  BY <1>3, <1>4, <1>5

LEMMA NoBoxRuns == ASSUME Types PROVE NoBox \notin up
BY NumberAssumption DEF Types, Stores, Boxes, NoBox

LEMMA ReadTended ==
  ASSUME Types, Settled, Destroying = {}, NEW h \in Handler, Read(h) PROVE Tended(h)'
<1>1. /\ th'[h].at = "work"
      /\ th'[h].left = { o \in Ordinals : HasRow(o) /\ o >= th[h].want }
      /\ th'[h].todo = ToDeploy(th[h].want)
      /\ \A o \in Ordinals :
           th'[h].seen[o] = IF HasRow(o) /\ o >= th[h].want THEN row[o].box ELSE NoBox
      /\ UNCHANGED << row, up >>
  BY ReadDoes
<1>2. NoBox \notin up
  BY NoBoxRuns
<1>3. \A o \in Ordinals : row[o].box \in up => row[o].status = "ready"
  BY DEF Settled
<1>4. \A b \in up : \E o \in Ordinals : b = row[o].box
  BY DEF Settled
<1>5. \A o \in ToDeploy(th[h].want) : row[o].box \notin up
  BY <1>2, <1>3 DEF ToDeploy
<1>6. QED
  BY <1>1, <1>2, <1>3, <1>4, <1>5 DEF Tended

LEMMA StopTended ==
  ASSUME Types, NEW h \in Handler, Stop(h), Planned(h), Tended(h) PROVE Tended(h)'
<1> PICK o \in th[h].left :
      /\ o \in Ordinals /\ th'[h].at = "kill" /\ SamePlan(h)
      /\ th'[h].seen = th[h].seen /\ th'[h].box = th[h].box
      /\ SameBut(o) /\ row'[o].box = row[o].box /\ up' = up
  BY StopDoes
<1>1. \A p \in Ordinals : row'[p].box = row[p].box /\ (p # o => row'[p] = row[p])
  BY DEF SameBut
<1>2. th[h].left \subseteq Ordinals /\ th[h].todo \subseteq Ordinals
  BY Extremes DEF Request
<1>3. QED
  BY <1>1, <1>2 DEF Tended, SamePlan

LEMMA KillTended ==
  ASSUME Types, NEW h \in Handler, Kill(h), ~leaky', Planned(h), Tended(h) PROVE Tended(h)'
<1> PICK o \in th[h].left :
      /\ o \in Ordinals /\ o = Max(th[h].left) /\ th'[h].at = "drop" /\ SamePlan(h)
      /\ th'[h].box = th[h].box /\ th'[h].seen[o] = NoBox
      /\ \A p \in Ordinals \ { o } : th'[h].seen[p] = th[h].seen[p]
      /\ row' = row /\ up' = up \ { th[h].seen[o] }
  BY KillDoes
<1>1. th[h].left \subseteq Ordinals /\ th[h].todo \subseteq Ordinals /\ NoBox \notin up
  BY Extremes, NoBoxRuns DEF Request
<1>2. o = Max(th'[h].left)
  BY DEF SamePlan
<1>3. row[o].box \notin up' /\ th'[h].seen[o] \notin up'
  BY <1>1 DEF Tended
<1>4. \A b \in up' : b = th[h].box \/ \E p \in Ordinals : b = row[p].box \/ b = th'[h].seen[p]
  <2> TAKE b \in up'
  <2>1. b \in up /\ b # th[h].seen[o]
    OBVIOUS
  <2>2. CASE \E p \in Ordinals : b = th[h].seen[p]
    BY <2>1, <2>2
  <2>3. QED
    BY <2>1, <2>2 DEF Tended
<1>5. \A p \in Ordinals : th'[h].seen[p] \in up' => p \in th[h].left
  BY <1>3 DEF Tended
<1>6. \A p \in th[h].left : row[p].box \in up' => row[p].box = th'[h].seen[p]
  BY <1>1, <1>3 DEF Tended
<1>7. QED
  BY <1>1, <1>2, <1>3, <1>4, <1>5, <1>6 DEF Tended, SamePlan

LEMMA DropTended ==
  ASSUME Types, NEW h \in Handler, Drop(h), Planned(h), Tended(h) PROVE Tended(h)'
<1> PICK o \in th[h].left :
      /\ o \in Ordinals /\ o = Max(th[h].left) /\ th[h].at = "drop" /\ th'[h].at = "work"
      /\ th'[h].left = th[h].left \ { o } /\ th'[h].todo = th[h].todo
      /\ th'[h].seen = th[h].seen /\ th'[h].box = th[h].box
      /\ SameBut(o) /\ row'[o] = NoRow /\ up' = up
  BY DropDoes
<1>1. th[h].left \subseteq Ordinals /\ th[h].todo \subseteq Ordinals /\ NoBox \notin up
  BY Extremes, NoBoxRuns DEF Request
<1>2. row[o].box \notin up /\ th[h].seen[o] \notin up
  BY DEF Tended
<1>3. row'[o].box = NoBox /\ \A p \in Ordinals : p # o => row'[p] = row[p]
  BY DEF NoRow, SameBut
<1>4. \A b \in up : b = th[h].box \/ \E p \in Ordinals : b = row'[p].box \/ b = th[h].seen[p]
  BY <1>2, <1>3 DEF Tended
<1>5. QED
  BY <1>1, <1>2, <1>3, <1>4 DEF Tended

\* A row to deploy has no sandbox that runs: none is lost when it is written.
LEMMA MarkTended ==
  ASSUME Types, Empty, NEW h \in Handler, Mark(h), Planned(h), Tended(h) PROVE Tended(h)'
<1> PICK o \in th[h].todo :
      /\ o \in Ordinals /\ th[h].left = {} /\ th'[h].at = "create" /\ SamePlan(h)
      /\ th'[h].seen = th[h].seen /\ th'[h].box = th[h].box /\ SameBut(o) /\ up' = up
      /\ \/ ~HasRow(o) /\ row'[o].box = NoBox
         \/ row'[o].box = row[o].box
         \/ row'[o] = row[o]
  BY MarkDoes
<1>1. th[h].left \subseteq Ordinals /\ th[h].todo \subseteq Ordinals /\ NoBox \notin up
  BY Extremes, NoBoxRuns DEF Request
<1>2. row[o].box \notin up
  BY DEF Tended
<1>3. row'[o].box \notin up /\ \A p \in Ordinals : p # o => row'[p] = row[p]
  BY <1>1, <1>2 DEF SameBut
<1>4. \A b \in up : b = th[h].box \/ \E p \in Ordinals : b = row'[p].box \/ b = th[h].seen[p]
  BY <1>2, <1>3 DEF Tended
<1>5. QED
  BY <1>1, <1>2, <1>3, <1>4 DEF Tended, SamePlan

LEMMA CreateTended ==
  ASSUME Types, NEW h \in Handler, Create(h), Planned(h), Tended(h) PROVE Tended(h)'
<1> PICK b \in Boxes \ (up \cup Remembered) :
      /\ th[h].at = "create" /\ th'[h].at = "settle" /\ SamePlan(h)
      /\ th'[h].seen = th[h].seen /\ th'[h].box = b /\ up' = up \cup { b } /\ row' = row
  BY CreateDoes
<1>1. th[h].left \subseteq Ordinals /\ th[h].todo \subseteq Ordinals /\ NoBox \notin up
      /\ th[h].box = NoBox
  BY Extremes, NoBoxRuns DEF Request, Sound
<1>2. \A o \in Ordinals : b # row[o].box /\ b # th[h].seen[o]
  BY DEF Remembered
<1>3. \A c \in up' : c = b \/ \E o \in Ordinals : c = row[o].box \/ c = th[h].seen[o]
  BY <1>1 DEF Tended
<1>4. QED
  BY <1>1, <1>2, <1>3 DEF Tended, SamePlan

LEMMA SettleTended ==
  ASSUME Types, NEW h \in Handler, Ready(h) \/ DeployFails(h), ~leaky', Planned(h), Tended(h)
  PROVE  Tended(h)'
<1>1. PICK o \in th[h].todo :
        /\ o \in Ordinals /\ o = Min(th[h].todo) /\ th[h].at \in { "create", "settle" }
        /\ th'[h].at = "work" /\ th'[h].todo = th[h].todo \ { o }
        /\ th'[h].left = th[h].left /\ th'[h].seen = th[h].seen /\ th'[h].box = NoBox
        /\ SameBut(o)
        /\ HasRow(o) /\ Ready(h) =>
             row'[o].status = "ready" /\ row'[o].box = th[h].box /\ th[h].at = "settle"
        /\ HasRow(o) /\ DeployFails(h) => row'[o].status = "failed" /\ row'[o].box = row[o].box
        /\ Ready(h) => UNCHANGED << up, leaky >>
        /\ DeployFails(h) => (up' = up \ { th[h].box } /\ leaky' = leaky) \/ (up' = up /\ leaky')
  BY SettleDoes
<1>2. th[h].left = {} /\ HasRow(o) /\ th[h].todo \subseteq Ordinals /\ NoBox \notin up
  BY <1>1, Extremes, NoBoxRuns DEF Planned, Request
<1>3. row[o].box \notin up /\ (\A p \in th[h].todo : row[p].box \notin up)
      /\ \A p \in Ordinals : p # o => row'[p] = row[p]
  BY <1>1 DEF Tended, SameBut
<1>4. \A p \in Ordinals : th[h].seen[p] \notin up /\ (row[p].box \in up => row[p].status = "ready")
  BY <1>2 DEF Tended
<1>5. \A b \in up : b = th[h].box \/ \E p \in Ordinals \ { o } : b = row[p].box
  BY <1>3, <1>4 DEF Tended
<1>6. CASE Ready(h)
  <2>1. row'[o].status = "ready" /\ row'[o].box = th[h].box /\ up' = up
    BY <1>1, <1>2, <1>6
  <2>2. \A b \in up : \E p \in Ordinals : b = row'[p].box
    BY <1>1, <1>3, <1>5, <2>1
  <2>3. \A p \in Ordinals : row'[p].box \in up => row'[p].status = "ready"
    BY <1>3, <1>4, <2>1
  <2>4. \A p \in th[h].todo \ { o } : row'[p].box \notin up
    BY <1>2, <1>3
  <2>5. QED
    BY <1>1, <1>2, <1>4, <2>1, <2>2, <2>3, <2>4 DEF Tended
<1>7. CASE DeployFails(h)
  <2>1. row'[o].box = row[o].box /\ up' = up \ { th[h].box }
    BY <1>1, <1>2, <1>7
  <2>2. \A b \in up' : \E p \in Ordinals : b = row'[p].box
    BY <1>3, <1>5, <2>1
  <2>3. \A p \in Ordinals : row'[p].box \in up' => row'[p].status = "ready"
    BY <1>3, <1>4, <2>1
  <2>4. \A p \in th[h].todo \ { o } : row'[p].box \notin up'
    BY <1>2, <1>3, <2>1
  <2>5. QED
    BY <1>1, <1>2, <1>4, <2>1, <2>2, <2>3, <2>4 DEF Tended
<1>8. QED
  BY <1>6, <1>7

LEMMA EndsTended ==
  ASSUME Types, NEW h \in Handler, InsertFails(h) \/ Finish(h), Planned(h), Tended(h)
  PROVE  Under(h)' /\ Planned(h)' /\ Tended(h)'
<1>1. CASE Finish(h)
  BY <1>1, FinishDoes, OtherwisePlanned DEF Tended, SamePlan, Under, Section
<1>2. CASE InsertFails(h)
  <2>1. th[h].left = {} /\ row' = row /\ up' = up
    BY <1>2 DEF InsertFails, Deploys
  <2>2. /\ th'[h].at = "release" /\ th'[h].todo = {} /\ th'[h].new = {} /\ th'[h].left = {}
        /\ th'[h].want = th[h].want /\ th'[h].seen = th[h].seen /\ th'[h].box = th[h].box
    BY <1>2, <2>1, Extremes DEF InsertFails, Request
  <2>3. Under(h)' /\ Planned(h)'
    BY <2>1, <2>2 DEF Under, Planned, HasRow, Section
  <2>4. Tended(h)'
    BY <2>1, <2>2 DEF Tended
  <2>5. QED
    BY <2>3, <2>4
<1>3. QED
  BY <1>1, <1>2

LEMMA SectionKnown ==
  ASSUME Redis, Types, Types', Locked, Known, Empty', Blank', NEW h \in Handler, leaky => leaky',
         \/ Read(h) \/ Stop(h) \/ Kill(h) \/ Drop(h) \/ Mark(h) \/ InsertFails(h) \/ Create(h)
         \/ Ready(h) \/ DeployFails(h) \/ Finish(h)
  PROVE  Known'
<1>1. CASE leaky'
  BY <1>1 DEF Known
<1>2. CASE ~leaky'
  <2>1. h \in InSection
    BY DEF Read, Stop, Kill, Drop, Mark, Deploys, InsertFails, Create, Ready, DeployFails, Finish,
       InSection, Section
  <2>2. ~leaky
    BY <1>2
  <2>3. overdue' = {}
    BY <2>2 DEF Known, Read, Stop, Kill, Drop, Mark, InsertFails, Create, Ready, DeployFails, Finish
  <2>4. Destroying = {} /\ \A g \in Handler \ { h } : ~Under(g)
    BY <2>1, <2>2, Lone
  <2>5. Others(h)
    BY ReadDoes, StopDoes, KillDoes, DropDoes, MarkDoes, CreateDoes, SettleDoes, AsideDoes DEF Aside
  <2>6. CASE Read(h)
    <3>1. ~Under(h)
      BY <2>6 DEF Read, Under
    <3>2. Settled
      BY <2>2, <2>4, <3>1 DEF Known
    <3>3. Under(h)'
      BY <2>6, ReadDoes DEF Under, Section
    <3>4. QED
      BY <2>1, <2>2, <2>3, <2>4, <2>5, <2>6, <3>2, <3>3, ReadPlanned, ReadTended, UnderKnown
  <2>7. CASE ~Read(h)
    <3>1. Under(h)
      BY <2>7 DEF Stop, Kill, Drop, Mark, Deploys, InsertFails, Create, Ready, DeployFails, Finish,
         Under, Section
    <3>2. Planned(h) /\ Tended(h) /\ Empty
      BY <2>2, <3>1 DEF Known
    <3>3. Planned(h)' /\ Tended(h)'
      BY <1>2, <2>7, <3>2, StopPlanned, DropPlanned, MarkPlanned, SettlePlanned, OtherwisePlanned,
         StopTended, KillTended, DropTended, MarkTended, CreateTended, SettleTended, EndsTended
    <3>4. Under(h)'
      <4>1. InsertFails(h) \/ Finish(h) => Under(h)'
        BY <3>2, EndsTended
      <4>2. ~InsertFails(h) /\ ~Finish(h) =>
              th'[h].at \in { "kill", "drop", "work", "create", "settle" }
        BY <2>7, StopDoes, KillDoes, DropDoes, MarkDoes, CreateDoes, SettleDoes
      <4>3. QED
        BY <4>1, <4>2 DEF Under, Section
    <3>5. QED
      BY <2>1, <2>2, <2>3, <2>5, <3>3, <3>4, UnderKnown
  <2>8. QED
    BY <2>6, <2>7
<1>3. QED
  BY <1>1, <1>2

\* A request comes or goes, and nobody is past the reading when it destroys.
LEMMA AsideKnown ==
  ASSUME Redis, Types, Locked, Known, Empty', Blank', NEW h \in Handler,
         Aside(h), ~InsertFails(h), ~Finish(h)
  PROVE  Known'
<1>1. /\ Others(h) /\ row' = row /\ up' = up /\ (leaky => leaky')
      /\ th'[h].at \in { "idle", "lock", "publish", "read" }
      /\ th'[h].at = "read" => th[h].at = "lock"
  <2>1. th[h].at = "work" => th'[h].at # "release"
    <3>1. th[h].at = "work" => Crash(h)
      BY DEF Aside, Deploy, Acquire, Release, Publish, Unpublish
    <3>2. Crash(h) => th'[h].at = "idle"
      BY Extremes DEF Crash, Leaves, Idle
    <3>3. QED
      BY <3>1, <3>2
  <2>2. QED
    BY <2>1, AsideDoes
<1>2. CASE leaky'
  BY <1>2 DEF Known
<1>3. CASE ~leaky'
  <2>1. /\ ~leaky /\ overdue = {} /\ (Reconciling = {} \/ Destroying = {})
        /\ \A g \in Handler : Under(g) => Planned(g) /\ Tended(g)
        /\ (\A g \in Handler : ~Under(g)) => Settled
        /\ \A g \in Handler : Wiping(g)
    BY <1>1, <1>3 DEF Known
  <2>2. overdue' = {}
    BY <2>1 DEF Aside, Deploy, Acquire, InsertFails, Finish, Release, Publish, Unpublish, Crash
  <2>3. \A g \in Handler \ { h } : th'[g] = th[g]
    BY <1>1 DEF Others
  <2>4. ~Under(h)' /\ ~(th'[h].at \in Removing)
    BY <1>1 DEF Under, Section, Removing
  <2>5. Reconciling' = {} \/ Destroying' = {}
    <3>1. Destroying' \subseteq Destroying
      BY <2>3, <2>4 DEF Destroying
    <3>2. CASE \E n \in 1 .. MaxReplicas : Deploy(h, n)
      <4>1. Destroying # {} => leaky'
        BY <3>2, Zenon DEF Deploy
      <4>2. QED
        BY <1>3, <3>1, <4>1
    <3>3. CASE h \in Reconciling
      BY <2>1, <3>1, <3>3
    <3>4. CASE ~(\E n \in 1 .. MaxReplicas : Deploy(h, n)) /\ h \notin Reconciling
      <4>1. th'[h].at = "idle"
        BY <3>4 DEF Aside, Acquire, InsertFails, Finish, Deploys, Release, Publish, Unpublish, Crash,
           Leaves, Idle, Reconciling, Section, Types, Requests
      <4>2. h \notin Reconciling'
        BY <4>1 DEF Reconciling, Section
      <4>3. Reconciling' \subseteq Reconciling
        BY <2>3, <4>2 DEF Reconciling
      <4>4. QED
        BY <2>1, <3>1, <4>3
    <3>5. QED
      BY <3>2, <3>3, <3>4
  <2>6. \A g \in Handler : Under(g)' => Planned(g)' /\ Tended(g)'
    <3> SUFFICES ASSUME NEW g \in Handler, Under(g)' PROVE Planned(g)' /\ Tended(g)'
      OBVIOUS
    <3>1. g # h /\ th'[g] = th[g] /\ Under(g)
      BY <2>3, <2>4 DEF Under
    <3>2. QED
      BY <1>1, <2>1, <3>1 DEF Planned, Tended, HasRow
  <2>7. \A g \in Handler : Wiping(g)'
    BY <1>1, <2>1, <2>3 DEF Wiping
  <2>8. (\A g \in Handler : ~Under(g)') => Settled'
    <3> SUFFICES ASSUME \A g \in Handler : ~Under(g)' PROVE Settled'
      OBVIOUS
    <3>1. \A g \in Handler \ { h } : ~Under(g)
      BY <2>3 DEF Under
    <3>2. CASE ~Under(h)
      <4>1. Settled
        BY <2>1, <3>1, <3>2
      <4>2. \A o \in Ordinals : row[o].box \in up => row[o].status = "ready"
        BY <4>1 DEF Settled
      <4>3. h \in Destroying => \A o \in Ordinals : th[h].seen[o] \notin up
        <5>1. h \in Destroying => th[h].at \in { "unpublish", "erase" } \/ leaky'
          BY <1>1 DEF Destroying, Removing, Aside, Deploy, Acquire, Release, Publish, Unpublish, Crash
        <5>2. th[h].at \in { "unpublish", "erase" } => \A o \in Ordinals : th[h].seen[o] = NoBox
          BY DEF Known, Blank, Under, Section
        <5>3. QED
          BY <1>3, <5>1, <5>2, NoBoxRuns
      <4>4. \A b \in up : \E o \in Ordinals :
              b = row[o].box \/ \E g \in Destroying \ { h } : b = th[g].seen[o]
        BY <4>1, <4>3 DEF Settled
      <4>5. \A g \in Destroying \ { h } : g \in Destroying' /\ th'[g] = th[g]
        BY <2>3 DEF Destroying
      <4>6. QED
        BY <1>1, <4>2, <4>4, <4>5 DEF Settled
    <3>3. CASE Under(h)
      <4>1. Planned(h) /\ Tended(h)
        BY <2>1, <3>3
      <4>2. th[h].at = "release" \/ Crash(h)
        BY <3>3 DEF Under, Aside, Deploy, Acquire, Release, Publish, Unpublish, Section
      <4>3. Crash(h) => leaky'
        BY Zenon DEF Crash
      <4>4. th[h].at = "release"
        BY <1>3, <4>2, <4>3
      <4>5. th[h].left = {} /\ th[h].box = NoBox
        BY <4>1, <4>4, Extremes DEF Planned, Sound
      <4>6. \A o \in Ordinals : th[h].seen[o] \notin up /\ (row[o].box \in up => row[o].status = "ready")
        BY <4>1, <4>5 DEF Tended
      <4>7. \A b \in up : \E o \in Ordinals : b = row[o].box
        BY <4>1, <4>5, <4>6, NoBoxRuns DEF Tended
      <4>8. QED
        BY <1>1, <4>6, <4>7 DEF Settled
    <3>4. QED
      BY <3>2, <3>3
  <2>9. QED
    BY <2>2, <2>5, <2>6, <2>7, <2>8 DEF Known
<1>4. QED
  BY <1>2, <1>3

\* Nobody is past the reading while a request destroys.
LEMMA NobodyUnder ==
  ASSUME Known, ~leaky, Reconciling = {}
  PROVE  Settled /\ \A g \in Handler : ~Under(g) /\ Wiping(g)
<1>1. \A g \in Handler : ~Under(g)
  BY DEF Reconciling, Under
<1>2. QED
  BY <1>1 DEF Known

LEMMA RemovalKnown ==
  ASSUME Types, Known, ~leaky, Blank', Empty', NEW h \in Handler, Others(h), overdue' = {},
         Reconciling = {}, th'[h].at \in Removing \cup { "idle" }, Settled',
         \A g \in Handler : Wiping(g)'
  PROVE  Known'
<1>1. \A g \in Handler : ~(th'[g].at \in Section \cup { "lock", "publish" })
  <2> TAKE g \in Handler
  <2>1. CASE g = h
    BY <2>1 DEF Section, Removing
  <2>2. CASE g # h
    BY <2>2 DEF Reconciling, Others
  <2>3. QED
    BY <2>1, <2>2
<1>2. Reconciling' = {} /\ \A g \in Handler : ~Under(g)'
  BY <1>1 DEF Reconciling, Under
<1>3. QED
  BY <1>2 DEF Known

LEMMA RemoveKnown ==
  ASSUME Types, Known, Empty', Blank', NEW h \in Handler, Undeploy(h) \/ Delete(h)
  PROVE  Known'
<1>1. /\ th[h].at = "idle" /\ Others(h) /\ row' = row /\ up' = up /\ (leaky => leaky')
      /\ Reconciling # {} => leaky'
      /\ \/ /\ th'[h].at = "wipe" /\ th'[h].left = Boxed
            /\ \A o \in Ordinals : th'[h].seen[o] = row[o].box
         \/ /\ th'[h].at = "erase" /\ (Boxed # {} => leaky')
            /\ \A o \in Ordinals : th'[h].seen[o] = NoBox
  BY RemoveDoes
<1>2. CASE leaky'
  BY <1>2 DEF Known
<1>3. CASE ~leaky'
  <2>1. ~leaky /\ Reconciling = {}
    BY <1>1, <1>3
  <2>2. overdue' = {}
    BY <2>1 DEF Known, Undeploy, Delete
  <2>3. Settled /\ \A g \in Handler : ~Under(g) /\ Wiping(g)
    BY <2>1, NobodyUnder
  <2>4. th'[h].at \in Removing \cup { "idle" } /\ NoBox \notin up
    BY <1>1, NoBoxRuns DEF Removing
  <2>5. Settled'
    <3>1. \A g \in Destroying : g \in Destroying' /\ th'[g] = th[g]
      BY <1>1 DEF Others, Destroying, Removing
    <3>2. QED
      BY <1>1, <2>3, <3>1 DEF Settled
  <2>6. \A g \in Handler : Wiping(g)'
    <3> TAKE g \in Handler
    <3>1. CASE g # h
      BY <1>1, <2>3, <3>1 DEF Wiping, Others
    <3>2. CASE g = h
      <4>1. CASE th'[h].at = "wipe"
        BY <1>1, <2>4, <3>2, <4>1 DEF Wiping, Boxed
      <4>2. CASE th'[h].at = "erase" /\ Boxed = {}
        BY <1>1, <2>4, <3>2, <4>2 DEF Wiping, Boxed
      <4>3. QED
        BY <1>1, <1>3, <4>1, <4>2
    <3>3. QED
      BY <3>1, <3>2
  <2>7. QED
    BY <1>1, <2>1, <2>2, <2>4, <2>5, <2>6, RemovalKnown
<1>4. QED
  BY <1>2, <1>3

LEMMA WipeKnown ==
  ASSUME Types, Known, Empty', Blank', NEW h \in Handler, Wipe(h)
  PROVE  Known'
<1>1. PICK o \in th[h].left :
        /\ o \in Ordinals /\ th[h].at = "wipe" /\ Others(h) /\ th'[h].at = "wipe"
        /\ th'[h].seen = th[h].seen /\ row' = row /\ th'[h].left = th[h].left \ { o }
        /\ (up' = up \ { th[h].seen[o] } /\ leaky' = leaky) \/ (up' = up /\ leaky')
  BY WipeDoes
<1>2. CASE leaky'
  BY <1>2 DEF Known
<1>3. CASE ~leaky'
  <2>1. ~leaky /\ up' = up \ { th[h].seen[o] }
    BY <1>1, <1>3
  <2>2. h \in Destroying
    BY <1>1 DEF Destroying, Removing
  <2>3. Reconciling = {} /\ overdue' = {}
    BY <2>1, <2>2 DEF Known, Wipe
  <2>4. Settled /\ \A g \in Handler : ~Under(g) /\ Wiping(g)
    BY <2>1, <2>3, NobodyUnder
  <2>5. \A g \in Handler : th'[g].at = th[g].at /\ th'[g].seen = th[g].seen
    BY <1>1 DEF Others
  <2>6. Destroying' = Destroying
    BY <2>5 DEF Destroying
  <2>7. Settled'
    <3>1. \A b \in up : \E p \in Ordinals :
            b = row'[p].box \/ \E g \in Destroying' : b = th'[g].seen[p]
      <4> TAKE b \in up
      <4>1. PICK p \in Ordinals : b = row[p].box \/ \E g \in Destroying : b = th[g].seen[p]
        BY <2>4 DEF Settled
      <4>2. CASE b = row[p].box
        BY <1>1, <4>2
      <4>3. CASE \E g \in Destroying : b = th[g].seen[p]
        BY <2>5, <2>6, <4>3 DEF Destroying
      <4>4. QED
        BY <4>1, <4>2, <4>3
    <3>2. up' \subseteq up /\ \A p \in Ordinals : row'[p].box \in up' => row'[p].status = "ready"
      BY <1>1, <2>1, <2>4 DEF Settled
    <3>3. QED
      BY <3>1, <3>2 DEF Settled
  <2>8. \A g \in Handler : Wiping(g)'
    <3> TAKE g \in Handler
    <3>1. CASE g # h
      BY <1>1, <2>1, <2>4, <3>1 DEF Wiping, Others
    <3>2. CASE g = h
      BY <1>1, <2>1, <2>4, <3>2 DEF Wiping
    <3>3. QED
      BY <3>1, <3>2
  <2>9. th'[h].at \in Removing \cup { "idle" }
    BY <1>1 DEF Removing
  <2>10. QED
    BY <1>1, <2>1, <2>3, <2>7, <2>8, <2>9, RemovalKnown
<1>4. QED
  BY <1>2, <1>3

LEMMA EmptyKnown ==
  ASSUME Types, Known, Empty', Blank', NEW h \in Handler, Clear(h) \/ Erase(h)
  PROVE  Known'
<1>1. /\ Others(h) /\ th'[h].seen = NoBoxes
      /\ \/ th[h].at = "wipe" /\ th[h].left = {} /\ th'[h].at \in { "unpublish", "erase" }
         \/ th[h].at = "erase" /\ th'[h].at = "idle"
      /\ (\A o \in Ordinals : row'[o] = NoRow) /\ up' = up /\ leaky' = leaky
  BY EmptyDoes
<1>2. CASE leaky'
  BY <1>2 DEF Known
<1>3. CASE ~leaky'
  <2>1. ~leaky /\ NoBox \notin up /\ \A o \in Ordinals : row'[o].box = NoBox
    BY <1>1, <1>3, NoBoxRuns DEF NoRow
  <2>2. h \in Destroying
    BY <1>1 DEF Destroying, Removing
  <2>3. Reconciling = {} /\ overdue' = {}
    BY <2>1, <2>2 DEF Known, Clear, Erase
  <2>4. Settled /\ \A g \in Handler : ~Under(g) /\ Wiping(g)
    BY <2>1, <2>3, NobodyUnder
  <2>5. \A o \in Ordinals : th[h].seen[o] \notin up
    <3>1. CASE th[h].at = "wipe"
      BY <1>1, <2>4, <3>1 DEF Wiping
    <3>2. CASE th[h].at = "erase"
      BY <2>1, <3>2 DEF Known, Blank, Under, Section
    <3>3. QED
      BY <1>1, <3>1, <3>2
  <2>6. \A o \in Ordinals : row[o].box \notin up
    BY <1>1, <2>4, <2>5 DEF Wiping
  <2>7. Settled'
    <3>1. \A b \in up : \E o \in Ordinals, g \in Destroying \ { h } : b = th[g].seen[o]
      BY <2>4, <2>5, <2>6 DEF Settled
    <3>2. \A g \in Destroying \ { h } : g \in Destroying' /\ th'[g] = th[g]
      BY <1>1 DEF Others, Destroying
    <3>3. QED
      BY <1>1, <2>1, <3>1, <3>2 DEF Settled
  <2>8. \A g \in Handler : Wiping(g)'
    <3> TAKE g \in Handler
    <3>1. CASE g # h
      BY <1>1, <2>1, <2>4, <3>1 DEF Wiping, Others
    <3>2. CASE g = h
      BY <1>1, <2>1, <3>2 DEF Wiping
    <3>3. QED
      BY <3>1, <3>2
  <2>9. th'[h].at \in Removing \cup { "idle" }
    BY <1>1 DEF Removing
  <2>10. QED
    BY <1>1, <2>1, <2>3, <2>7, <2>8, <2>9, RemovalKnown
<1>4. QED
  BY <1>2, <1>3

LEMMA ExpiryKnown ==
  ASSUME Redis, Types, Locked, Known, LockExpires \/ UNCHANGED vars
  PROVE  Known'
<1>1. th' = th /\ row' = row /\ up' = up
  BY DEF LockExpires, vars
<1>2. leaky => leaky'
  BY Zenon DEF LockExpires, vars, history
<1>3. Blank' /\ Empty'
  BY <1>1 DEF Known, Blank, Empty, Under, HasRow
<1>4. CASE leaky'
  BY <1>3, <1>4 DEF Known
<1>5. CASE ~leaky'
  <2>1. LockExpires /\ lock \in InSection => leaky'
    BY Zenon DEF LockExpires
  <2>2. ~leaky /\ overdue' = {}
    BY <1>2, <1>5, <2>1 DEF Known, LockExpires, vars
  <2>3. Settled => Settled'
    BY <1>1 DEF Settled, Destroying
  <2>4. \A h \in Handler : (Wiping(h) => Wiping(h)') /\ (Tended(h) => Tended(h)')
                           /\ (Planned(h) => Planned(h)') /\ (Under(h)' <=> Under(h))
    BY <1>1 DEF Wiping, Tended, Planned, Under, HasRow
  <2>5. Reconciling' = Reconciling /\ Destroying' = Destroying
    BY <1>1 DEF Reconciling, Destroying
  <2>6. QED
    BY <1>3, <2>2, <2>3, <2>4, <2>5 DEF Known
<1>6. QED
  BY <1>4, <1>5

LEMMA StaysKnown ==
  ASSUME Redis, Types, Types', Locked, Known, [Next]_vars PROVE Known'
<1>1. Blank /\ Empty
  BY DEF Known
<1>2. CASE LockExpires \/ UNCHANGED vars
  BY <1>2, ExpiryKnown
<1>3. ASSUME NEW h \in Handler, Aside(h) PROVE Known'
  <2>1. Blank' /\ Empty'
    BY <1>1, <1>3, BlankKept, EmptyKept
  <2>2. leaky => leaky'
    BY <1>3, AsideDoes
  <2>3. QED
    BY <1>3, <2>1, <2>2, AsideKnown, SectionKnown
<1>4. ASSUME NEW h \in Handler, Undeploy(h) \/ Delete(h) \/ Wipe(h) \/ Clear(h) \/ Erase(h)
      PROVE  Known'
  <2>1. Blank' /\ Empty'
    BY <1>1, <1>4, BlankKept, EmptyKept
  <2>2. QED
    BY <1>4, <2>1, RemoveKnown, WipeKnown, EmptyKnown
<1>5. ASSUME NEW h \in Handler,
             Read(h) \/ Stop(h) \/ Kill(h) \/ Drop(h) \/ Mark(h) \/ Create(h) \/ Ready(h) \/ DeployFails(h)
      PROVE  Known'
  <2>1. Blank' /\ Empty'
    BY <1>1, <1>5, BlankKept, EmptyKept
  <2>2. leaky => leaky'
    BY <1>5, Zenon DEF Read, Stop, Kill, Drop, Mark, Create, Ready, DeployFails, history
  <2>3. QED
    BY <1>5, <2>1, <2>2, SectionKnown
<1>6. QED
  BY <1>2, <1>3, <1>4, <1>5 DEF Next, Reconcile, Destroy, Aside

\* With Redis every sandbox belongs to a row or is in the hands of a request, as
\* long as none of what the service does not guard against has happened
\* (reconcileServiceReplicas, destroyServiceReplicas).
THEOREM SandboxesAreKnown == Redis => (Spec => []NoOrphans)
<1> SUFFICES ASSUME Redis PROVE Spec => []NoOrphans
  OBVIOUS
<1>1. Init => Known
  <2> SUFFICES ASSUME Init PROVE Known
    OBVIOUS
  <2>1. \A o \in Ordinals : row[o].box = NoBox /\ row[o].status = "none"
    BY DEF Init, NoRow
  <2>2. \A h \in Handler : th[h].at = "idle" /\ th[h].seen = NoBoxes
    BY DEF Init, Idle
  <2>3. \A o \in Ordinals : NoBoxes[o] = NoBox
    BY DEF NoBoxes
  <2>4. Blank /\ Empty /\ overdue = {} /\ up = {}
    BY <2>1, <2>2, <2>3 DEF Init, Blank, Empty
  <2>5. Destroying = {} /\ \A h \in Handler : ~Under(h) /\ Wiping(h)
    BY <2>2 DEF Destroying, Removing, Under, Section, Wiping
  <2>6. Settled
    BY <2>4 DEF Settled
  <2>7. QED
    BY <2>4, <2>5, <2>6 DEF Known
<1>2. Types /\ Known => NoOrphans
  <2> SUFFICES ASSUME Types, Known, ~leaky, NEW b \in up PROVE b \in Remembered
    BY DEF NoOrphans
  <2>1. CASE \E h \in Handler : Under(h)
    <3> PICK h \in Handler : Under(h)
      BY <2>1
    <3>1. b = th[h].box \/ \E o \in Ordinals : b = row[o].box \/ b = th[h].seen[o]
      BY DEF Known, Tended
    <3>2. QED
      BY <3>1 DEF Remembered
  <2>2. CASE \A h \in Handler : ~Under(h)
    <3>1. \E o \in Ordinals : b = row[o].box \/ \E h \in Destroying : b = th[h].seen[o]
      BY <2>2 DEF Known, Settled
    <3>2. QED
      BY <3>1 DEF Remembered, Destroying
  <2>3. QED
    BY <2>1, <2>2
<1>3. Types /\ Types' /\ Locked /\ Known /\ [Next]_vars => Known'
  BY StaysKnown
<1>4. QED
  BY <1>1, <1>2, <1>3, Invariant, PTL DEF Spec
===============================================================================
