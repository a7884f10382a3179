------------------------- MODULE ResultDeliveryProofs -------------------------
(***************************************************************************)
(* Proofs about ResultDelivery, for any number of resuming handlers: its    *)
(* types; that a hand-off the guard refuses finds the result; that a result *)
(* given in the conversation's turn is not pushed as well; and how many     *)
(* results are delivered at most.                                           *)
(***************************************************************************)
EXTENDS ResultDelivery, FiniteSetTheorems, TLAPS

\* What ReplyExcludesPush needs besides: while the conversation has the delivery
\* in hand the flag is down, so that nothing has been pushed; before that nothing
\* runs that could have been suspended; and a reply is the last thing it does.
Before == { "trigger", "suppress" }
InHand == { "wait", "hand", "recheck", "replied" }
DeliveryInv ==
  /\ conv \in Before => status \notin Paused /\ (~Terminal \/ status = "cancelled")
  /\ conv = "trigger" => status # "running"
  /\ conv \in InHand => push = FALSE
  /\ conv \in InHand \cup Before \cup { "refused" } => pushes = 0
  /\ conv = "replied" => replies = 1
  /\ conv # "replied" => replies = 0
  /\ conv = "recheck" => Terminal
  /\ conv = "refused" => /\ status = "cancelled" /\ first = "idle"
                         /\ \A h \in Resume : resume[h] = "idle"

\* An execution that has ended has ended for good: no transition of these
\* handlers leaves a terminal status.
LEMMA EndIsFinal ==
  ASSUME TypeOK, Next, Terminal
  PROVE  Terminal'
<1>1. ASSUME NEW from \in Status \ SopTerminalStatuses, NEW to, Transition(from, to)
      PROVE  Terminal'
  BY <1>1 DEF Transition, AfterTransition, Transits, Terminal
<1>2. \A s \in { "pending", "running", "paused_for_human", "paused_for_tool" } :
        s \in Status \ SopTerminalStatuses
  BY DEF Status, SopTerminalStatuses
<1>3. CASE UNCHANGED status
  BY <1>3 DEF Terminal
<1>4. CASE Trigger \/ FirstRuns
  BY <1>1, <1>2, <1>4 DEF Trigger, FirstRuns
<1>5. ASSUME NEW h \in Resume, HumanResume(h) \/ ToolResume(h) \/ Continue(h)
      PROVE  Terminal'
  BY <1>1, <1>2, <1>3, <1>5 DEF HumanResume, ToolResume, Continue, Route, Redo, Execute, Notify
<1>6. CASE EndsElsewhere
  BY <1>6 DEF EndsElsewhere
<1>7. QED
  BY <1>3, <1>4, <1>5, <1>6 DEF Next, Converse, Suppress, Reply, GiveUp, Hand, Recheck,
     FirstReturned, BridgeThrows

LEMMA StatusTyped ==
  ASSUME TypeOK, Next
  PROVE  status' \in Status
<1>1. ASSUME NEW from, NEW to \in Status, Transition(from, to)
      PROVE  status' \in Status
  BY <1>1 DEF Transition, AfterTransition, TypeOK
<1>2. CASE UNCHANGED status
  BY <1>2 DEF TypeOK
<1>3. { "running", "completed", "error", "failed", "timed_out", "cancelled" }
        \cup Outcomes \cup Paused \subseteq Status
  BY DEF Status, Outcomes, Paused
<1>4. CASE Trigger \/ FirstRuns
  BY <1>1, <1>3, <1>4 DEF Trigger, FirstRuns
<1>5. ASSUME NEW h \in Resume, HumanResume(h) \/ ToolResume(h) \/ Continue(h)
      PROVE  status' \in Status
  BY <1>1, <1>2, <1>3, <1>5 DEF HumanResume, ToolResume, Continue, Route, Redo, Execute, Notify
<1>6. CASE EndsElsewhere
  BY <1>1, <1>3, <1>6 DEF EndsElsewhere
<1>7. QED
  BY <1>2, <1>4, <1>5, <1>6 DEF Next, Converse, Suppress, Reply, GiveUp, Hand, Recheck,
     FirstReturned, BridgeThrows

LEMMA TypeStep ==
  ASSUME TypeOK, DeliveryInv, [Next]_vars
  PROVE  TypeOK'
<1>1. CASE UNCHANGED vars
  BY <1>1 DEF vars, TypeOK
<1>2. CASE Converse
  <2>1. status' \in Status
    BY <1>2, StatusTyped DEF Next
  <2>2. QED
    <3>1. CASE Trigger
      BY <2>1, <3>1 DEF Trigger, counters, TypeOK, ConvPlace
    <3>2. CASE Suppress
      BY <2>1, <3>2 DEF Suppress, counters, TypeOK, ConvPlace
    <3>3. CASE Reply
      BY <2>1, <3>3 DEF Reply, TypeOK, ConvPlace
    <3>4. CASE GiveUp
      BY <2>1, <3>4 DEF GiveUp, counters, TypeOK, ConvPlace
    <3>5. CASE Hand
      BY <2>1, <3>5 DEF Hand, counters, TypeOK, ConvPlace
    <3>6. CASE Recheck
      BY <2>1, <3>6 DEF Recheck, TypeOK, ConvPlace
    <3>7. CASE FirstReturned
      BY <2>1, <3>7 DEF FirstReturned, TypeOK, ConvPlace
    <3>8. QED
      BY <1>2, <3>1, <3>2, <3>3, <3>4, <3>5, <3>6, <3>7 DEF Converse
<1>3. CASE BridgeThrows \/ FirstRuns \/ EndsElsewhere
  <2>1. status' \in Status
    BY <1>3, StatusTyped DEF Next
  <2>2. QED
    BY <1>3, <2>1 DEF BridgeThrows, FirstRuns, EndsElsewhere, counters, TypeOK, ConvPlace
<1>4. ASSUME NEW h \in Resume, HumanResume(h) \/ ToolResume(h)
      PROVE  TypeOK'
  <2>1. status' \in Status
    BY <1>4, StatusTyped DEF Next
  <2>2. status \in Paused
    BY <1>4 DEF HumanResume, ToolResume, Transits, Paused
  <2>3. conv \notin { "trigger", "suppress" }
    BY <2>2 DEF DeliveryInv, Before
  <2>4. QED
    BY <1>4, <2>1, <2>3 DEF HumanResume, ToolResume, GoTo, TypeOK, ResumePlace
<1>5. ASSUME NEW h \in Resume, Continue(h)
      PROVE  TypeOK'
  <2>1. status' \in Status
    BY <1>5, StatusTyped DEF Next
  <2>2. resume[h] # "idle"
    BY <1>5 DEF Continue, Route, Redo, Execute, Notify
  <2>3. conv \notin { "trigger", "suppress" }
    BY <2>2 DEF TypeOK
  <2>4. /\ UNCHANGED << push, conv, first, resumes, faults, replies >>
        /\ pushes' = pushes \/ pushes' = pushes + 1
        /\ \E place \in ResumePlace : GoTo(h, place)
    BY <1>5 DEF Continue, Route, Redo, Execute, Notify, counters, ResumePlace
  <2>5. QED
    BY <2>1, <2>3, <2>4 DEF GoTo, TypeOK
<1>6. QED
  BY <1>1, <1>2, <1>3, <1>4, <1>5 DEF Next

\* The conversation's own steps.
LEMMA ConverseKeeps ==
  ASSUME TypeOK, DeliveryInv, Converse
  PROVE  DeliveryInv'
<1>1. CASE Trigger
  <2>1. /\ conv = "trigger" /\ conv' \in { "suppress", "refused" }
        /\ UNCHANGED << push, first, resume, replies, pushes >>
    BY <1>1 DEF Trigger, counters
  <2>2. status' \in { "running", status }
    BY <1>1 DEF Trigger, Transition, AfterTransition
  <2>3. status' \notin Paused /\ (Terminal' => status' = "cancelled")
    BY <2>1, <2>2 DEF DeliveryInv, Before, Terminal, SopTerminalStatuses, Paused
  <2>4. conv' = "refused" => status' = status /\ status # "pending"
    BY <1>1 DEF Trigger, Transition, AfterTransition, Transits, ValidTransitions, Status
  <2>5. first = "idle" /\ \A h \in Resume : resume[h] = "idle"
    BY <2>1 DEF TypeOK
  <2>6. conv' = "refused" => status' = "cancelled"
    BY <1>1, <2>1, <2>4 DEF DeliveryInv, Before, TypeOK, Status, Terminal, SopTerminalStatuses, Paused
  <2>7. QED
    BY <2>1, <2>3, <2>5, <2>6 DEF DeliveryInv, Before, InHand
<1>2. CASE Suppress
  BY <1>2 DEF Suppress, DeliveryInv, Before, InHand, Terminal, counters
<1>3. CASE Reply
  BY <1>3 DEF Reply, DeliveryInv, Before, InHand, Terminal
<1>4. CASE GiveUp
  BY <1>4 DEF GiveUp, DeliveryInv, Before, InHand, Terminal, counters
<1>5. CASE Hand
  BY <1>5 DEF Hand, DeliveryInv, Before, InHand, Terminal, counters
<1>6. CASE Recheck
  BY <1>6 DEF Recheck, DeliveryInv, Before, InHand, Terminal
<1>7. CASE FirstReturned
  BY <1>7 DEF FirstReturned, DeliveryInv, Before, InHand, Terminal
<1>8. QED
  BY <1>1, <1>2, <1>3, <1>4, <1>5, <1>6, <1>7 DEF Converse

\* The engine's steps: they begin after the conversation started it, and push
\* only when the flag is up.
LEMMA EngineKeeps ==
  ASSUME TypeOK, DeliveryInv,
         \/ FirstRuns \/ \E h \in Resume : HumanResume(h) \/ ToolResume(h) \/ Continue(h)
  PROVE  DeliveryInv'
<1>1. conv \notin Before \cup { "refused" }
  <2>1. CASE FirstRuns
    BY <2>1 DEF FirstRuns, TypeOK, DeliveryInv, Before
  <2>2. ASSUME NEW h \in Resume, HumanResume(h) \/ ToolResume(h)
        PROVE  conv \notin Before \cup { "refused" }
    <3>1. status \in Paused
      BY <2>2 DEF HumanResume, ToolResume, Transits, Paused
    <3>2. QED
      BY <3>1 DEF DeliveryInv, Paused
  <2>3. ASSUME NEW h \in Resume, Continue(h)
        PROVE  conv \notin Before \cup { "refused" }
    <3>1. resume[h] # "idle"
      BY <2>3 DEF Continue, Route, Redo, Execute, Notify
    <3>2. QED
      BY <3>1 DEF TypeOK, DeliveryInv, Before
  <2>4. QED
    BY <2>1, <2>2, <2>3
<1>2. Terminal => Terminal'
  BY EndIsFinal DEF Next
<1>3. UNCHANGED << push, conv, replies >> /\ (pushes' = pushes \/ push = TRUE)
  BY DEF FirstRuns, HumanResume, ToolResume, Continue, Route, Redo, Execute, Notify, Notifies,
     counters, TypeOK
<1>4. QED
  BY <1>1, <1>2, <1>3 DEF DeliveryInv, Before, InHand

LEMMA OthersKeep ==
  ASSUME TypeOK, DeliveryInv, BridgeThrows \/ EndsElsewhere \/ UNCHANGED vars
  PROVE  DeliveryInv'
<1>1. CASE BridgeThrows
  BY <1>1 DEF BridgeThrows, DeliveryInv, Before, InHand, Terminal
<1>2. CASE EndsElsewhere
  <2>1. ~Terminal /\ UNCHANGED << push, conv, first, resume, counters >>
    BY <1>2 DEF EndsElsewhere
  <2>2. /\ conv \in Before => status \in { "pending", "running" }
        /\ conv = "trigger" => status = "pending"
    BY <2>1 DEF DeliveryInv, Before, TypeOK, Status, Terminal, SopTerminalStatuses, Paused
  <2>3. status \in { "pending", "running" } => status' = status \/ status' = "cancelled"
    BY <1>2 DEF EndsElsewhere, Transition, AfterTransition, Transits, ValidTransitions, Status
  <2>4. conv \in Before => ~Terminal' \/ status' = "cancelled"
    BY <2>1, <2>2, <2>3 DEF Terminal, SopTerminalStatuses
  <2>5. conv \in Before => status' \notin Paused
    BY <2>2, <2>3 DEF Paused
  <2>6. conv = "trigger" => status' # "running"
    BY <2>2, <2>3 DEF Before
  <2>7. QED
    BY <2>1, <2>4, <2>5, <2>6 DEF DeliveryInv, Before, InHand, counters, Terminal, SopTerminalStatuses
<1>3. CASE UNCHANGED vars
  BY <1>3 DEF vars, DeliveryInv, Terminal
<1>4. QED
  BY <1>1, <1>2, <1>3

\* Every variable has its type, and no run of the engine is under way before the
\* conversation has suppressed the push.
LEMMA DeliveryInvariant == Spec => [](TypeOK /\ DeliveryInv)
<1>1. Init => TypeOK /\ DeliveryInv
  BY DEF Init, TypeOK, DeliveryInv, Status, ConvPlace, ResumePlace, Before, InHand, Terminal,
     SopTerminalStatuses, Paused
<1>2. TypeOK /\ DeliveryInv /\ [Next]_vars => (TypeOK /\ DeliveryInv)'
  BY TypeStep, ConverseKeeps, EngineKeeps, OthersKeep DEF Next
<1>3. QED
  BY <1>1, <1>2, PTL DEF Spec

\* Beside the types: until the conversation has suppressed the engine's push no
\* run of the engine is under way.
THEOREM TypeCorrect == Spec => []TypeOK
<1>1. QED
  BY DeliveryInvariant, PTL

\* A result given in the conversation's turn is given once and never pushed as
\* well, for any number of resuming handlers and any number of resumes.
THEOREM RepliesExcludePushes == Spec => []ReplyExcludesPush
<1>1. TypeOK /\ DeliveryInv => ReplyExcludesPush
  BY DEF TypeOK, DeliveryInv, InHand, ReplyExcludesPush
<1>2. QED
  BY <1>1, DeliveryInvariant, PTL

\* A hand-off that the guard on the status refuses always finds a result.
THEOREM RefusedHandsHaveResult == Spec => []RefusedHandHasResult
<1>1. DeliveryInv => RefusedHandHasResult
  BY DEF DeliveryInv, RefusedHandHasResult
<1>2. QED
  BY <1>1, DeliveryInvariant, PTL

-------------------------------------------------------------------------------
(* How many results are delivered.                                         *)

\* Each resume may notify once, the conversation may give the result once.
Resuming == { h \in Resume : resume[h] # "idle" }
GivenHere == IF conv \in { "replied", "done" } THEN 1 ELSE 0
CountInv ==
  /\ IsFiniteSet(Resuming)
  /\ replies + pushes + Cardinality(Resuming) <= resumes + GivenHere

LEMMA CountStep ==
  ASSUME TypeOK, CountInv, UNCHANGED << resume, resumes, replies, pushes >>,
         conv' = conv \/ conv \notin { "replied", "done" }
  PROVE  CountInv'
<1>1. UNCHANGED Resuming /\ GivenHere <= GivenHere' /\ GivenHere \in Nat /\ GivenHere' \in Nat
  BY DEF Resuming, GivenHere
<1>2. Cardinality(Resuming) \in Nat
  BY FS_CardinalityType DEF CountInv
<1> DEFINE active == Cardinality(Resuming)
<1>3. active' = active
  BY <1>1
<1>4. QED
  BY <1>1, <1>2, <1>3 DEF CountInv, TypeOK

\* The conversation gives the result once, in its turn or by the callback.
LEMMA CountGiven ==
  ASSUME TypeOK, CountInv, Reply \/ Recheck \/ FirstReturned
  PROVE  CountInv'
<1>1. UNCHANGED << resume, resumes >> /\ UNCHANGED Resuming
  BY DEF Reply, Recheck, FirstReturned, Resuming
<1>2. \/ GivenHere = 0 /\ GivenHere' = 1 /\ replies' = replies + 1 /\ pushes' = pushes
      \/ GivenHere = 0 /\ GivenHere' = 1 /\ replies' = replies /\ pushes' = pushes + 1
      \/ GivenHere = 0 /\ GivenHere' = 1 /\ replies' = replies /\ pushes' = pushes
      \/ GivenHere = 0 /\ GivenHere' = 0 /\ replies' = replies /\ pushes' = pushes
  BY DEF Reply, Recheck, FirstReturned, GivenHere
<1>3. Cardinality(Resuming) \in Nat /\ replies \in Nat /\ pushes \in Nat /\ resumes \in Nat
  BY FS_CardinalityType DEF CountInv, TypeOK
<1>4. QED
  BY <1>1, <1>2, <1>3 DEF CountInv

\* A resume has one notification before it.
LEMMA CountResumed ==
  ASSUME TypeOK, CountInv, NEW h \in Resume, HumanResume(h) \/ ToolResume(h)
  PROVE  CountInv'
<1>1. /\ resume[h] = "idle" /\ resumes' = resumes + 1
      /\ UNCHANGED << conv, replies, pushes >>
      /\ \E place \in { "route", "redo" } : GoTo(h, place)
  BY DEF HumanResume, ToolResume
<1>2. Resuming' = Resuming \cup { h } /\ h \notin Resuming
  BY <1>1 DEF Resuming, GoTo, TypeOK
<1>3. IsFiniteSet(Resuming') /\ Cardinality(Resuming') = Cardinality(Resuming) + 1
  BY <1>2, FS_AddElement DEF CountInv
<1>4. Cardinality(Resuming) \in Nat /\ GivenHere \in Nat /\ GivenHere' = GivenHere
  BY <1>1, FS_CardinalityType DEF CountInv, GivenHere
<1>5. QED
  BY <1>1, <1>3, <1>4 DEF CountInv, TypeOK

\* It ends without, or with it.
LEMMA CountContinued ==
  ASSUME TypeOK, CountInv, NEW h \in Resume, Continue(h)
  PROVE  CountInv'
<1>1. resume[h] # "idle" /\ UNCHANGED << conv, resumes, replies >>
  BY DEF Continue, Route, Redo, Execute, Notify, counters
<1>2. \/ GoTo(h, "idle") /\ (pushes' = pushes \/ pushes' = pushes + 1)
      \/ pushes' = pushes /\ \E place \in ResumePlace \ { "idle" } : GoTo(h, place)
  BY DEF Continue, Route, Redo, Execute, Notify, counters, ResumePlace
<1>3. Cardinality(Resuming) \in Nat /\ GivenHere \in Nat /\ GivenHere' = GivenHere
  BY <1>1, FS_CardinalityType DEF CountInv, GivenHere
<1>4. CASE GoTo(h, "idle") /\ (pushes' = pushes \/ pushes' = pushes + 1)
  <2>1. Resuming' = Resuming \ { h } /\ h \in Resuming
    BY <1>1, <1>4 DEF Resuming, GoTo, TypeOK
  <2>2. IsFiniteSet(Resuming') /\ Cardinality(Resuming') = Cardinality(Resuming) - 1
    BY <2>1, FS_RemoveElement DEF CountInv
  <2>3. QED
    BY <1>1, <1>3, <1>4, <2>2 DEF CountInv, TypeOK
<1>5. CASE pushes' = pushes /\ \E place \in ResumePlace \ { "idle" } : GoTo(h, place)
  <2>1. Resuming' = Resuming
    BY <1>1, <1>5 DEF Resuming, GoTo, TypeOK
  <2>2. QED
    BY <1>1, <1>3, <1>5, <2>1 DEF CountInv
<1>6. QED
  BY <1>2, <1>4, <1>5

LEMMA CountInvariant == Spec => []CountInv
<1>1. Init => CountInv
  <2> SUFFICES ASSUME Init PROVE CountInv
    OBVIOUS
  <2>1. Resuming = {}
    BY DEF Init, Resuming
  <2>2. QED
    BY <2>1, FS_EmptySet DEF Init, CountInv, GivenHere
<1>2. TypeOK /\ CountInv /\ [Next]_vars => CountInv'
  <2> SUFFICES ASSUME TypeOK, CountInv, [Next]_vars PROVE CountInv'
    OBVIOUS
  <2>1. CASE Trigger \/ Suppress \/ GiveUp \/ Hand \/ BridgeThrows
    BY <2>1, CountStep DEF Trigger, Suppress, GiveUp, Hand, BridgeThrows, counters
  <2>2. CASE FirstRuns \/ EndsElsewhere \/ UNCHANGED vars
    BY <2>2, CountStep DEF FirstRuns, EndsElsewhere, vars, counters
  <2>3. QED
    BY <2>1, <2>2, CountGiven, CountResumed, CountContinued DEF Next, Converse
<1>3. QED
  BY <1>1, <1>2, DeliveryInvariant, PTL DEF Spec

\* A result is delivered at most once more than the execution was resumed: the
\* duplicates of push_by_engine are one for each resume and never more, and an
\* execution that was not resumed has its result delivered once at most.
THEOREM DeliveriesBounded ==
  Spec => [](replies + pushes <= 1 + resumes /\ (resumes = 0 => NeverDeliveredTwice))
<1>1. TypeOK /\ CountInv
        => replies + pushes <= 1 + resumes /\ (resumes = 0 => NeverDeliveredTwice)
  BY FS_CardinalityType DEF TypeOK, CountInv, GivenHere, NeverDeliveredTwice
<1>2. QED
  BY <1>1, CountInvariant, DeliveryInvariant, PTL

\* The safety half of DeliveredOnceUnsuspended: the result of an execution that is
\* never suspended is not delivered twice.
THEOREM UnsuspendedNotTwice == Spec /\ [](status \notin Paused) => []NeverDeliveredTwice
<1>1. Init => resumes = 0
  BY DEF Init
<1>2. status \notin Paused /\ resumes = 0 /\ [Next]_vars => (resumes = 0)'
  BY DEF Next, Converse, Trigger, Suppress, Reply, GiveUp, Hand, Recheck, FirstReturned,
     BridgeThrows, FirstRuns, EndsElsewhere, HumanResume, ToolResume, Transits, Paused,
     Continue, Route, Redo, Execute, Notify, counters, vars
<1>3. QED
  BY <1>1, <1>2, DeliveriesBounded, PTL DEF Spec
===============================================================================
