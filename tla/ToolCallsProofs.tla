---------------------------- MODULE ToolCallsProofs ----------------------------
(***************************************************************************)
(* Proofs about ToolCalls, for any calls, attempts and faults: its types,  *)
(* and that it implements the ledger: whatever crashes, and however late a *)
(* job, a callback or a watchdog comes, a tool runs at most once and only  *)
(* after its call was journaled, and a call is closed once.                *)
(***************************************************************************)
EXTENDS ToolCalls, TLAPS

\* What is known of a call: it is run only when it is journaled; a job that
\* waits, and the driver that is about to send it, have not run it; what has
\* run, or ended well, was run.
CallSound(c) ==
  /\ runs[c] \in { 0, 1 }
  /\ runs[c] = 1 => row[c] # "none"
  /\ c \notin issued => row[c] = "none" /\ job[c] = "none" /\ pc["exec"][c] = "idle"
  /\ job[c] = "waiting" => row[c] # "none" /\ runs[c] = 0
  /\ pc["exec"][c] = "run" => runs[c] = 1
  /\ pod[c] = "running" => runs[c] = 1
  /\ outcome[c] = "completed" => runs[c] = 1
  /\ drv.at \in { "row", "send" } /\ drv.call = c =>
       /\ runs[c] = 0 /\ job[c] = "none" /\ pc["exec"][c] = "idle"
       /\ row[c] = "none" <=> drv.at = "row"

CallsSound == \A c \in Calls : CallSound(c)

Driver == [ at : DriverPlace, call : Calls \cup { NoCall }, sent : BOOLEAN ]

\* TypeOK by what a step may touch.
DriverTyped ==
  /\ status \in { "running", "paused_for_tool", "ended" }
  /\ drv \in Driver
  /\ drv.at # "none" => status = "running"
  /\ drv.at \in { "row", "send", "unwind" } => drv.call \in issued
  /\ issued \in SUBSET Calls
RowsTyped ==
  /\ row \in [ Calls -> { "none", "pending" } \cup Settled ]
  /\ runs \in [ Calls -> Nat ]
QueueTyped ==
  /\ dog \in [ Calls -> { "none", "waiting", "active", "done" } ]
  /\ job \in [ Calls -> { "none", "waiting", "taken", "failed" } ]
  /\ pod \in [ Calls -> { "none", "up", "running", "posted", "gone" } ]
  /\ tries \in [ Calls -> Nat ]
HandlersTyped ==
  /\ pc \in [ Source -> [ Calls -> Place ] ]
  /\ outcome \in [ Calls -> Settled ]
CountersTyped ==
  /\ redis \in BOOLEAN /\ stranded \in BOOLEAN
  /\ guards \in Nat /\ wakers \in Nat /\ faults \in 0 .. MaxFaults

LEMMA TypeParts ==
  TypeOK <=> DriverTyped /\ RowsTyped /\ QueueTyped /\ HandlersTyped /\ CountersTyped
BY DEF TypeOK, DriverTyped, RowsTyped, QueueTyped, HandlersTyped, CountersTyped, Driver

LEMMA TypePartsPrimed ==
  TypeOK' <=> DriverTyped' /\ RowsTyped' /\ QueueTyped' /\ HandlersTyped' /\ CountersTyped'
BY TypeParts, PTL

-------------------------------------------------------------------------------
(* What the helpers keep.                                                  *)

LEMMA FaultCounts ==
  ASSUME CountersTyped, Fault PROVE faults' \in 0 .. MaxFaults
BY NumberAssumption DEF CountersTyped, Fault

LEMMA DriverMoves ==
  ASSUME DriverTyped, NEW c \in Calls \cup { NoCall }, NEW place \in DriverPlace, DriverAt(place, c)
  PROVE  drv' \in Driver /\ drv'.at = place /\ drv'.call = c /\ drv'.sent = drv.sent
BY DEF DriverTyped, DriverAt, Driver

LEMMA HandlerMoves ==
  ASSUME HandlersTyped, NEW s \in Source, NEW c \in Calls, NEW place \in Place, HandlerTo(s, c, place)
  PROVE  /\ pc' \in [ Source -> [ Calls -> Place ] ]
         /\ \A r \in Source, d \in Calls :
              pc'[r][d] = IF r = s /\ d = c THEN place ELSE pc[r][d]
BY DEF HandlersTyped, HandlerTo

LEMMA NoDriverTyped == NoDriver \in Driver /\ NoDriver.at = "none"
BY DEF NoDriver, Driver, DriverPlace

\* A call whose tool, row and driver are left alone stays as sound as it was.
LEMMA CallLeftAlone ==
  ASSUME NEW c \in Calls, CallSound(c), issued \subseteq issued',
         runs'[c] = runs[c], row'[c] = row[c], job'[c] # "waiting" \/ job'[c] = job[c],
         job'[c] = "none" <=> job[c] = "none",
         pod'[c] # "running" \/ pod'[c] = pod[c],
         pc'["exec"][c] = pc["exec"][c],
         outcome'[c] # "completed" \/ outcome'[c] = outcome[c],
         \/ drv'.at \notin { "row", "send" } \/ drv'.call # c
         \/ drv'.at = drv.at /\ drv'.call = drv.call
  PROVE  CallSound(c)'
BY DEF CallSound

-------------------------------------------------------------------------------
(* Types.                                                                  *)

LEMMA InitTyped == Init => TypeOK /\ CallsSound
<1> SUFFICES ASSUME Init PROVE TypeOK /\ CallsSound
  OBVIOUS
<1>1. DriverTyped
  BY DEF Init, DriverTyped, Driver, DriverPlace
<1>2. RowsTyped /\ QueueTyped /\ HandlersTyped
  BY DEF Init, RowsTyped, QueueTyped, HandlersTyped, Settled, Place, Source
<1>3. CountersTyped
  <2>1. redis \in BOOLEAN /\ stranded \in BOOLEAN
    BY DEF Init
  <2>2. guards \in Nat /\ wakers \in Nat /\ faults \in 0 .. MaxFaults
    BY NumberAssumption DEF Init
  <2>3. QED
    BY <2>1, <2>2 DEF CountersTyped
<1>4. CallsSound
  BY DEF Init, CallsSound, CallSound, Source
<1>5. QED
  BY <1>1, <1>2, <1>3, <1>4, TypeParts

LEMMA DispatchingTyped ==
  ASSUME TypeOK, NEW c \in Calls, Dispatching(c) PROVE TypeOK'
<1>1. DriverTyped /\ RowsTyped /\ QueueTyped /\ HandlersTyped /\ CountersTyped
  BY TypeParts
<1>2. DriverTyped'
  <2>1. drv.at # "none" /\ issued \subseteq issued' /\ issued' \in SUBSET Calls
    BY <1>1 DEF Dispatching, NextCall, Journal, Enqueue, Launch, PodSetupFails, Unwind,
       DriverTyped
  <2>2. ASSUME NEW place \in DriverPlace, NEW d \in issued \cup { NoCall }, DriverAt(place, d),
               UNCHANGED status, place \in { "row", "send", "unwind" } => d \in issued
        PROVE  DriverTyped'
    BY <1>1, <2>1, <2>2, DriverMoves DEF DriverTyped
  <2>3. CASE NextCall(c)
    BY <1>1, <2>3 DEF NextCall, DriverTyped, Driver, DriverPlace
  <2>4. (c \in issued /\ UNCHANGED status) \/ NextCall(c)
    BY <1>1 DEF Dispatching, Journal, Enqueue, Launch, PodSetupFails, Unwind, DriverTyped
  <2>5. CASE ~NextCall(c)
    BY <2>2, <2>4, <2>5 DEF Dispatching, Journal, Enqueue, Launch, PodSetupFails, Unwind, DriverPlace
  <2>6. QED
    BY <2>3, <2>5
<1>3. RowsTyped'
  BY <1>1 DEF Dispatching, NextCall, Journal, Enqueue, Launch, PodSetupFails, Unwind,
     RowsTyped, Settled
<1>4. QueueTyped'
  BY <1>1 DEF Dispatching, NextCall, Arm, Journal, Enqueue, Launch, PodSetupFails, Unwind,
     QueueTyped, queue
<1>5. HandlersTyped'
  BY <1>1, HandlerMoves DEF Dispatching, NextCall, Journal, Enqueue, Launch, PodSetupFails, Unwind,
     HandlersTyped, settling, Source, Place
<1>6. CountersTyped'
  BY <1>1, FaultCounts DEF Dispatching, NextCall, Arm, Journal, Enqueue, Launch, PodSetupFails,
     Unwind, CountersTyped, resuming
<1>7. QED
  BY <1>2, <1>3, <1>4, <1>5, <1>6, TypePartsPrimed

Driven == Suspend \/ Finish \/ DispatchThrows \/ Guard \/ Wake \/ DriverDies

LEMMA DrivenTyped ==
  ASSUME TypeOK, Driven PROVE TypeOK'
<1>1. DriverTyped /\ RowsTyped /\ QueueTyped /\ HandlersTyped /\ CountersTyped
  BY TypeParts
<1>2. UNCHANGED << row, runs, queue, settling, issued >>
  BY DEF Driven, Suspend, Finish, DispatchThrows, Guard, Wake, DriverDies
<1>3. DriverTyped'
  <2>1. CASE drv' = NoDriver /\ status' \in { status, "paused_for_tool", "ended" }
    BY <1>1, <1>2, <2>1, NoDriverTyped DEF DriverTyped
  <2>2. CASE drv' = [ NoDriver EXCEPT !.at = "loop" ] /\ status' = "running"
    <3>1. drv' \in Driver /\ drv'.at = "loop"
      BY <2>2 DEF NoDriver, Driver, DriverPlace
    <3>2. QED
      BY <1>1, <1>2, <2>2, <3>1 DEF DriverTyped
  <2>3. CASE UNCHANGED << drv, status >>
    BY <1>1, <1>2, <2>3 DEF DriverTyped
  <2>4. QED
    BY <2>1, <2>2, <2>3 DEF Driven, Suspend, Finish, DispatchThrows, Guard, Wake, DriverDies
<1>4. CountersTyped'
  <2>1. guards' \in Nat /\ wakers' \in Nat
    BY <1>1 DEF Driven, Suspend, Finish, DispatchThrows, Guard, Wake, DriverDies, CountersTyped,
       resuming
  <2>2. faults' \in 0 .. MaxFaults /\ stranded' \in BOOLEAN /\ redis' \in BOOLEAN
    BY <1>1, FaultCounts DEF Driven, Suspend, Finish, DispatchThrows, Guard, Wake, DriverDies,
       CountersTyped
  <2>3. QED
    BY <2>1, <2>2 DEF CountersTyped
<1>5. RowsTyped' /\ QueueTyped' /\ HandlersTyped'
  BY <1>1, <1>2 DEF RowsTyped, QueueTyped, HandlersTyped, queue, settling
<1>6. QED
  BY <1>3, <1>4, <1>5, TypePartsPrimed

\* The steps of workers, tools, watchdogs and handlers.
Served(c) ==
  \/ TakeJob(c) \/ DogFires(c) \/ ExecDies(c) \/ DogDies(c)
  \/ \E how \in Settled : ToolEnds(c, how) \/ PodEnds(c, how)
  \/ \E s \in Source : Settling(s, c) \/ ReportDies(s, c)

LEMMA ServedTyped ==
  ASSUME TypeOK, NEW c \in Calls, Served(c) PROVE TypeOK'
<1>1. DriverTyped /\ RowsTyped /\ QueueTyped /\ HandlersTyped /\ CountersTyped
  BY TypeParts
<1>2. DriverTyped'
  BY <1>1 DEF Served, TakeJob, DogFires, ExecDies, DogDies, ToolEnds, PodEnds, Settling, Apply,
     Count, ReportDies, DriverTyped
<1>3. RowsTyped'
  BY <1>1 DEF Served, TakeJob, DogFires, ExecDies, DogDies, ToolEnds, PodEnds, Settling, Apply,
     Count, ReportDies, Reported, RowsTyped, HandlersTyped, Settled
<1>4. QueueTyped'
  BY <1>1 DEF Served, TakeJob, DogFires, ExecDies, DogDies, ToolEnds, PodEnds, Settling, Apply,
     Count, DogAfter, ReportDies, QueueTyped, queue
<1>5. HandlersTyped'
  <2>1. outcome' \in [ Calls -> Settled ]
    BY <1>1 DEF Served, TakeJob, DogFires, ExecDies, DogDies, ToolEnds, PodEnds, Settling, Apply,
       Count, ReportDies, HandlersTyped, Settled
  <2>2. CASE ExecDies(c)
    BY <1>1, <2>1, <2>2 DEF ExecDies, HandlersTyped, Source, Place
  <2>3. CASE ~ExecDies(c)
    <3>1. \E s \in Source, place \in Place : HandlerTo(s, c, place)
      BY <2>3 DEF Served, TakeJob, DogFires, DogDies, ToolEnds, PodEnds, Settling, Apply,
         Count, ReportDies, Source, Place
    <3>2. QED
      BY <1>1, <2>1, <3>1, HandlerMoves DEF HandlersTyped
  <2>4. QED
    BY <2>2, <2>3
<1>6. CountersTyped'
  <2>1. guards' \in Nat /\ wakers' \in Nat /\ redis' \in BOOLEAN
    BY <1>1 DEF Served, TakeJob, DogFires, ExecDies, DogDies, ToolEnds, PodEnds, Settling,
       Apply, Count, ReportDies, CountersTyped, resuming
  <2>2. faults' \in 0 .. MaxFaults
    BY <1>1, FaultCounts DEF Served, TakeJob, DogFires, ExecDies, DogDies, ToolEnds, PodEnds,
       Settling, Apply, Count, ReportDies, CountersTyped
  <2>3. stranded' \in BOOLEAN
    BY <1>1 DEF Served, TakeJob, DogFires, ExecDies, DogDies, ToolEnds, PodEnds,
       Settling, Apply, Count, ReportDies, CountersTyped
  <2>4. QED
    BY <2>1, <2>2, <2>3 DEF CountersTyped
<1>7. QED
  BY <1>2, <1>3, <1>4, <1>5, <1>6, TypePartsPrimed

LEMMA StepTyped == TypeOK /\ [Next]_vars => TypeOK'
<1>1. ASSUME TypeOK, UNCHANGED vars PROVE TypeOK'
  BY <1>1 DEF vars, queue, settling, resuming, TypeOK
<1>2. QED
  BY <1>1, DispatchingTyped, DrivenTyped, ServedTyped DEF Next, Driving, Driven, Served

\* Types; a driver drives a running execution, and has drawn the id of the call
\* it is at.
THEOREM TypeCorrect == Spec => []TypeOK
BY InitTyped, StepTyped, PTL DEF Spec

-------------------------------------------------------------------------------
(* What is known of the calls.                                             *)

\* Nobody touches another call than the one he is at.
LEMMA DispatchingSound ==
  ASSUME TypeOK, CallsSound, NEW c \in Calls, Dispatching(c) PROVE CallsSound'
<1>1. DriverTyped /\ RowsTyped /\ QueueTyped /\ HandlersTyped /\ c \notin Queued \cap Pod
      /\ c \notin Queued \cap Immediate
  BY TypeParts, KindAssumption
<1> USE DEF RowsTyped, QueueTyped, HandlersTyped
<1>2. ASSUME NEW d \in Calls \ { c } PROVE CallSound(d)'
  <2>1. CallSound(d) /\ d # NoCall
    BY KindAssumption DEF CallsSound
  <2>2. issued \subseteq issued' /\ runs'[d] = runs[d] /\ row'[d] = row[d] /\ job'[d] = job[d]
        /\ pod'[d] = pod[d] /\ outcome'[d] = outcome[d]
    BY <1>1 DEF Dispatching, NextCall, Journal, Enqueue, Launch, PodSetupFails, Unwind, queue, settling
  <2>3. pc'["exec"][d] = pc["exec"][d]
    BY <1>1 DEF Dispatching, NextCall, Journal, Enqueue, Launch, PodSetupFails, Unwind,
       settling, HandlerTo, Source
  <2>4. drv'.at \notin { "row", "send" } \/ drv'.call # d
    <3>1. ASSUME NEW place \in DriverPlace, NEW e \in { c, NoCall }, DriverAt(place, e)
          PROVE  drv'.call # d
      BY <1>1, <2>1, <3>1, DriverMoves
    <3>2. CASE NextCall(c)
      BY <3>2 DEF NextCall
    <3>3. NextCall(c) \/ \E place \in DriverPlace, e \in { c, NoCall } : DriverAt(place, e)
      BY DEF Dispatching, Journal, Enqueue, Launch, PodSetupFails, Unwind, DriverPlace
    <3>4. QED
      BY <3>1, <3>2, <3>3
  <2>5. QED
    BY <2>1, <2>2, <2>3, <2>4, CallLeftAlone
<1>3. CallSound(c)
  BY DEF CallsSound
<1>4. CASE NextCall(c)
  <2>1. /\ UNCHANGED << row, runs, job, pc, outcome >> /\ c \notin issued /\ c \in issued'
        /\ drv'.at = "row"
        /\ pod'[c] # "running" \/ pod'[c] = pod[c]
    BY <1>1, <1>4 DEF NextCall, settling
  <2>2. CallSound(c)'
    BY <1>3, <2>1 DEF CallSound
  <2>3. QED
    BY <1>2, <2>2 DEF CallsSound
<1>5. CASE Journal(c)
  <2>1. UNCHANGED << issued, runs, job, pod, outcome >> /\ row'[c] = "pending" /\ drv.at = "row"
        /\ drv.call = c
    BY <1>1, <1>5 DEF Journal, queue
  <2>2. pc'["exec"][c] = pc["exec"][c] /\ drv'.at # "row"
    BY <1>1, <1>5 DEF Journal, HandlerTo, Source, DriverAt, DriverTyped, Driver
  <2>3. runs[c] = 0 /\ job[c] = "none" /\ c \in issued
    BY <1>1, <1>3, <2>1 DEF CallSound, DriverTyped
  <2>4. CallSound(c)'
    BY <1>3, <2>1, <2>2, <2>3 DEF CallSound
  <2>5. QED
    BY <1>2, <2>4 DEF CallsSound
<1>6. CASE Enqueue(c)
  <2>1. UNCHANGED << issued, row, pod, outcome >> /\ drv'.at = "loop" /\ c \in issued
        /\ row[c] # "none" /\ runs[c] = 0 /\ job[c] = "none"
    BY <1>1, <1>3, <1>6 DEF Enqueue, DriverAt, DriverTyped, Driver, CallSound
  <2>2. \/ job'[c] = "waiting" /\ UNCHANGED << runs, pc >>
        \/ runs'[c] = 1 /\ UNCHANGED job
    BY <1>1, <1>6, <2>1 DEF Enqueue
  <2>3. CallSound(c)'
    BY <1>3, <2>1, <2>2 DEF CallSound
  <2>4. QED
    BY <1>2, <2>3 DEF CallsSound
<1>7. CASE Launch(c)
  <2>1. /\ c \in issued /\ row[c] # "none" /\ runs[c] = 0 /\ job[c] = "none"
        /\ pc["exec"][c] = "idle"
    BY <1>1, <1>3, <1>7 DEF Launch, DriverTyped, CallSound
  <2>2. UNCHANGED << issued, row, job, pc, outcome >> /\ runs'[c] = 1
    BY <1>1, <1>7, <2>1 DEF Launch, settling
  <2>3. drv'.at \in { "loop", "unwind" }
    BY <1>1, <1>7, DriverMoves DEF Launch, DriverPlace
  <2>4. CallSound(c)'
    BY <1>3, <2>1, <2>2, <2>3 DEF CallSound
  <2>5. QED
    BY <1>2, <2>4 DEF CallsSound
<1>8. CASE PodSetupFails(c)
  <2>1. UNCHANGED << issued, runs, row, job, pod, pc, outcome >> /\ drv'.at = "unwind"
    BY <1>1, <1>8 DEF PodSetupFails, DriverAt, DriverTyped, Driver, settling, queue
  <2>2. CallSound(c)'
    BY <1>3, <2>1 DEF CallSound
  <2>3. QED
    BY <1>2, <2>2 DEF CallsSound
<1>9. CASE Unwind(c)
  <2>1. /\ UNCHANGED << issued, runs, job, pc, outcome >> /\ drv'.at = "loop"
        /\ row'[c] = "none" <=> row[c] = "none"
        /\ pod'[c] = "gone"
    BY <1>1, <1>9 DEF Unwind, DriverAt, DriverTyped, Driver, settling
  <2>2. CallSound(c)'
    BY <1>3, <2>1 DEF CallSound
  <2>3. QED
    BY <1>2, <2>2 DEF CallsSound
<1>10. QED
  BY <1>4, <1>5, <1>6, <1>7, <1>8, <1>9 DEF Dispatching

LEMMA DrivenSound ==
  ASSUME TypeOK, CallsSound, Driven PROVE CallsSound'
<1>1. UNCHANGED << row, runs, queue, settling, issued >>
  BY DEF Driven, Suspend, Finish, DispatchThrows, Guard, Wake, DriverDies
<1>2. drv'.at \notin { "row", "send" } \/ UNCHANGED drv
  BY NoDriverTyped DEF Driven, Suspend, Finish, DispatchThrows, Guard, Wake, DriverDies, resuming, NoDriver
<1>3. QED
  BY <1>1, <1>2 DEF CallsSound, CallSound, queue, settling

LEMMA ServedSound ==
  ASSUME TypeOK, CallsSound, NEW c \in Calls, Served(c) PROVE CallsSound'
<1>1. RowsTyped /\ QueueTyped /\ HandlersTyped /\ CallSound(c)
  BY TypeParts DEF CallsSound
<1> USE DEF RowsTyped, QueueTyped, HandlersTyped
<1>2. UNCHANGED << issued, drv >>
  BY DEF Served, TakeJob, DogFires, ExecDies, DogDies, ToolEnds, PodEnds, Settling, Apply,
     Count, ReportDies
<1>3. ASSUME NEW d \in Calls \ { c } PROVE CallSound(d)'
  <2>1. runs'[d] = runs[d] /\ row'[d] = row[d] /\ job'[d] = job[d]
        /\ pod'[d] = pod[d] /\ outcome'[d] = outcome[d]
    BY <1>1 DEF Served, TakeJob, DogFires, ExecDies, DogDies, ToolEnds, PodEnds, Settling, Apply,
       Count, ReportDies, queue
  <2>2. pc'["exec"][d] = pc["exec"][d]
    <3>1. CASE ExecDies(c)
      BY <1>1, <3>1 DEF ExecDies, Source
    <3>2. ASSUME NEW s \in Source, NEW place \in Place, HandlerTo(s, c, place)
          PROVE  pc'["exec"][d] = pc["exec"][d]
      BY <1>1, <3>2, HandlerMoves DEF Source
    <3>3. ExecDies(c) \/ \E s \in Source, place \in Place : HandlerTo(s, c, place)
      BY DEF Served, TakeJob, DogFires, DogDies, ToolEnds, PodEnds, Settling, Apply,
         Count, ReportDies, Source, Place
    <3>4. QED
      BY <3>1, <3>2, <3>3
  <2>3. QED
    BY <1>2, <2>1, <2>2 DEF CallsSound, CallSound
<1>4. CASE TakeJob(c)
  <2>1. /\ UNCHANGED << row, pod, outcome >> /\ row[c] # "none" /\ runs[c] = 0
        /\ runs'[c] = 1 /\ job[c] = "waiting" /\ job'[c] = "taken"
    BY <1>1, <1>4 DEF TakeJob, CallSound
  <2>2. CallSound(c)'
    BY <1>1, <1>2, <2>1 DEF CallSound
  <2>3. QED
    BY <1>3, <2>2 DEF CallsSound
<1>5. CASE ~TakeJob(c)
  <2>1. /\ UNCHANGED runs /\ (row'[c] = "none" <=> row[c] = "none")
        /\ job'[c] = job[c] \/ (job'[c] = "failed" /\ pc["exec"][c] # "idle")
        /\ pod'[c] # "running" \/ pod'[c] = pod[c]
    BY <1>1, <1>5 DEF Served, DogFires, ExecDies, DogDies, ToolEnds, PodEnds, Settling, Apply, Count,
       ReportDies, Reported, queue, Settled
  <2>2. \/ pc'["exec"][c] = pc["exec"][c]
        \/ pc["exec"][c] # "idle" /\ pc'["exec"][c] # "run"
    <3>1. CASE ExecDies(c)
      BY <1>1, <3>1 DEF ExecDies, Source
    <3>2. ASSUME NEW s \in Source, NEW place \in Place \ { "run" }, HandlerTo(s, c, place),
                 s = "exec" => pc["exec"][c] # "idle"
          PROVE  \/ pc'["exec"][c] = pc["exec"][c]
                 \/ pc["exec"][c] # "idle" /\ pc'["exec"][c] # "run"
      BY <1>1, <3>2, HandlerMoves DEF Source
    <3>3. \/ ExecDies(c)
          \/ \E s \in Source, place \in Place \ { "run" } :
               HandlerTo(s, c, place) /\ (s = "exec" => pc["exec"][c] # "idle")
      BY <1>5 DEF Served, DogFires, DogDies, ToolEnds, PodEnds, Settling, Apply, Count, ReportDies,
         Source, Place
    <3>4. QED
      BY <3>1, <3>2, <3>3
  <2>3. outcome'[c] = "completed" => outcome[c] = "completed" \/ runs[c] = 1
    BY <1>1, <1>5 DEF Served, DogFires, ExecDies, DogDies, ToolEnds, PodEnds, Settling, Apply, Count,
       ReportDies, CallSound
  <2>4. CASE ~ExecDies(c)
    <3>1. CallSound(c)'
      BY <1>1, <1>2, <2>1, <2>2, <2>3, <2>4 DEF CallSound
    <3>2. QED
      BY <1>3, <3>1 DEF CallsSound
  <2>5. CASE ExecDies(c)
    <3>1. CallSound(c)'
      BY <1>1, <1>2, <2>1, <2>2, <2>3, <2>5 DEF CallSound
    <3>2. QED
      BY <1>3, <3>1 DEF CallsSound
  <2>6. QED
    BY <2>4, <2>5
<1>6. QED
  BY <1>4, <1>5

LEMMA CallsStep == TypeOK /\ CallsSound /\ [Next]_vars => CallsSound'
<1>1. ASSUME CallsSound, UNCHANGED vars PROVE CallsSound'
  BY <1>1 DEF vars, queue, settling, CallsSound, CallSound
<1>2. QED
  BY <1>1, DispatchingSound, DrivenSound, ServedSound DEF Next, Driving, Driven, Served

-------------------------------------------------------------------------------
(* The refinement: how the table of the work log and the runs of the tools *)
(* may change.                                                             *)

Rows == /\ row \in [ Calls -> { "none", "pending" } \cup Settled ]
        /\ runs \in [ Calls -> Nat ]

LEMMA LedgerIssue ==
  ASSUME Rows, NEW c \in Calls, row[c] = "none", runs[c] = 0,
         row' = [ row EXCEPT ![c] = "pending" ], UNCHANGED runs
  PROVE  Ledger!Next
<1>1. c \notin Pending /\ Pending' = Pending \cup { c }
  BY DEF Rows, Pending
<1>2. UNCHANGED << { d \in Calls : row[d] = "completed" }, { d \in Calls : row[d] = "failed" } >>
  BY DEF Rows
<1>3. Ledger!Issue(c)
  BY <1>1, <1>2 DEF Ledger!Issue, Ledger!Journaled
<1>4. QED
  BY <1>3 DEF Ledger!Next

LEMMA LedgerRun ==
  ASSUME Rows, NEW c \in Calls, row[c] # "none", runs[c] = 0,
         runs' = [ runs EXCEPT ![c] = 1 ], UNCHANGED row
  PROVE  Ledger!Next
<1>1. UNCHANGED << Pending, { d \in Calls : row[d] = "completed" },
                   { d \in Calls : row[d] = "failed" } >>
  BY DEF Pending
<1>2. c \in Ledger!Journaled
  BY DEF Rows, Ledger!Journaled, Pending, Settled
<1>3. Ledger!Run(c)
  BY <1>1, <1>2 DEF Ledger!Run
<1>4. QED
  BY <1>3 DEF Ledger!Next

LEMMA LedgerClose ==
  ASSUME Rows, NEW c \in Calls, NEW how \in Settled, row[c] = "pending",
         how = "completed" => runs[c] = 1, row' = [ row EXCEPT ![c] = how ], UNCHANGED runs
  PROVE  Ledger!Next
<1>1. c \in Pending /\ Pending' = Pending \ { c }
  BY DEF Rows, Pending, Settled
<1>2. CASE how = "completed"
  <2>1. /\ { d \in Calls : row'[d] = "completed" } = { d \in Calls : row[d] = "completed" } \cup { c }
        /\ { d \in Calls : row'[d] = "failed" } = { d \in Calls : row[d] = "failed" }
    BY <1>2 DEF Rows
  <2>2. QED
    BY <1>1, <1>2, <2>1 DEF Ledger!Next, Ledger!Close
<1>3. CASE how = "failed"
  <2>1. /\ { d \in Calls : row'[d] = "completed" } = { d \in Calls : row[d] = "completed" }
        /\ { d \in Calls : row'[d] = "failed" } = { d \in Calls : row[d] = "failed" } \cup { c }
    BY <1>3 DEF Rows
  <2>2. QED
    BY <1>1, <2>1 DEF Ledger!Next, Ledger!Close
<1>4. QED
  BY <1>2, <1>3 DEF Settled

LEMMA LedgerRests ==
  ASSUME UNCHANGED << row, runs >> PROVE UNCHANGED Ledger!ledger
BY DEF Ledger!ledger, Pending

LEMMA DispatchingImplements ==
  ASSUME TypeOK, CallsSound, NEW c \in Calls, Dispatching(c)
  PROVE  [Ledger!Next]_(Ledger!ledger)
<1>1. Rows /\ CallSound(c)
  BY TypeParts DEF RowsTyped, Rows, CallsSound
<1>2. CASE Journal(c)
  <2>1. row[c] = "none" /\ runs[c] = 0
    BY <1>1, <1>2 DEF Journal, CallSound
  <2>2. QED
    BY <1>1, <1>2, <2>1, LedgerIssue DEF Journal
<1>3. CASE Enqueue(c) \/ Launch(c)
  <2>1. row[c] # "none" /\ runs[c] = 0 /\ UNCHANGED row
    BY <1>1, <1>3 DEF Enqueue, Launch, CallSound
  <2>2. runs' = [ runs EXCEPT ![c] = 1 ] \/ UNCHANGED runs
    BY <1>3, <2>1 DEF Enqueue, Launch
  <2>3. QED
    BY <1>1, <2>1, <2>2, LedgerRun, LedgerRests
<1>4. CASE Unwind(c)
  <2>1. CASE row[c] = "pending"
    <3>1. row' = [ row EXCEPT ![c] = "failed" ] /\ UNCHANGED runs
      BY <1>4, <2>1 DEF Unwind
    <3>2. QED
      BY <1>1, <2>1, <3>1, LedgerClose DEF Settled
  <2>2. CASE row[c] # "pending"
    <3>1. UNCHANGED << row, runs >>
      BY <1>1, <1>4, <2>2 DEF Unwind, Rows
    <3>2. QED
      BY <3>1, LedgerRests
  <2>3. QED
    BY <2>1, <2>2
<1>5. CASE NextCall(c) \/ PodSetupFails(c)
  BY <1>5, LedgerRests DEF NextCall, PodSetupFails
<1>6. QED
  BY <1>2, <1>3, <1>4, <1>5 DEF Dispatching

LEMMA ServedImplements ==
  ASSUME TypeOK, CallsSound, NEW c \in Calls, Served(c)
  PROVE  [Ledger!Next]_(Ledger!ledger)
<1>1. Rows /\ CallSound(c) /\ outcome \in [ Calls -> Settled ]
  BY TypeParts DEF RowsTyped, HandlersTyped, Rows, CallsSound
<1>2. CASE TakeJob(c)
  <2>1. row[c] # "none" /\ runs[c] = 0
    BY <1>1, <1>2 DEF TakeJob, CallSound
  <2>2. UNCHANGED row /\ runs' = [ runs EXCEPT ![c] = 1 ]
    BY <1>2, <2>1 DEF TakeJob
  <2>3. QED
    BY <1>1, <2>1, <2>2, LedgerRun
<1>3. ASSUME NEW s \in Source, Apply(s, c) PROVE [Ledger!Next]_(Ledger!ledger)
  <2>1. Reported(s, c) \in Settled /\ (Reported(s, c) = "completed" => runs[c] = 1)
    BY <1>1 DEF Reported, CallSound, Settled
  <2>2. CASE row[c] = "pending"
    BY <1>1, <1>3, <2>1, <2>2, LedgerClose DEF Apply
  <2>3. CASE row[c] # "pending"
    BY <1>3, <2>3, LedgerRests DEF Apply
  <2>4. QED
    BY <2>2, <2>3
<1>4. CASE UNCHANGED << row, runs >>
  BY <1>4, LedgerRests
<1>5. QED
  BY <1>2, <1>3, <1>4 DEF Served, DogFires, ExecDies, DogDies, ToolEnds, PodEnds, Settling, Count,
     ReportDies

\* Whatever crashes, and however late a job, a callback or a watchdog comes: the
\* tool of a call runs at most once and only after the call was journaled, and
\* the call is closed once, by the first of its handlers, as completed only if
\* its tool has run.
THEOREM CallsImplementLedger == Spec => ImplementsLedger
<1>1. Init => Ledger!Init
  BY DEF Init, Ledger!Init, Pending
<1>2. TypeOK /\ CallsSound /\ [Next]_vars => [Ledger!Next]_(Ledger!ledger)
  <2>1. ASSUME Driven \/ UNCHANGED vars PROVE UNCHANGED << row, runs >>
    BY <2>1 DEF Driven, Suspend, Finish, DispatchThrows, Guard, Wake, DriverDies, vars
  <2>2. QED
    BY <2>1, LedgerRests, DispatchingImplements, ServedImplements DEF Next, Driving, Driven, Served
<1>3. QED
  BY <1>1, <1>2, InitTyped, StepTyped, CallsStep, PTL DEF Spec, ImplementsLedger, Ledger!Spec
===============================================================================
