--------------------------- MODULE SopEngineProofs ---------------------------
(***************************************************************************)
(* Proofs about SopEngine, for any nodes, versions of the definition,       *)
(* handlers and bounds: the status follows the life cycle of SopLifecycle;  *)
(* the types, and the locals every handler relies on where it is; the limit *)
(* on rejections; and, where no live handler outlasts the threshold of      *)
(* recovery and a row is recovered once, that one handler drives at a time. *)
(***************************************************************************)
EXTENDS SopEngine, SequenceTheorems, WellFoundedInduction, TLAPS

-------------------------------------------------------------------------------
(* The engine implements the life cycle of an execution.                   *)

\* A change of status made by transitionStatus is a move of the life cycle,
\* or none at all.
LEMMA TransitionMoves ==
  ASSUME NEW from, NEW to \in Status, Transition(from, to)
  PROVE  [Lifecycle!Next]_status
BY DEF Transition, AfterTransition, Transits, Lifecycle!Next, Lifecycle!Move,
       Lifecycle!ValidTransitions, ValidTransitions, Lifecycle!Status, Status

\* Every action leaves the status alone or changes it by transitionStatus.
LEMMA StepMoves ==
  ASSUME [Next]_vars
  PROVE  [Lifecycle!Next]_status
<1>1. ASSUME NEW t \in Thread, Proceed(t)
      PROVE  [Lifecycle!Next]_status
  <2>0. \A from : \A to \in Status : Transition(from, to) => [Lifecycle!Next]_status
    BY TransitionMoves
  <2>1. CASE UNCHANGED status
    BY <2>1
  <2>2. CASE \E from : \E to \in Status : Transition(from, to)
    BY <2>0, <2>2
  <2>3. UNCHANGED status \/ \E from : \E to \in Status : Transition(from, to)
    <3>1. CASE \/ Load(t) \/ GateReroute(t) \/ Enter(t) \/ NodeDone(t) \/ NodeRetry(t)
               \/ NodeErrorExit(t) \/ AskHuman(t) \/ Arm(t) \/ Dispatch(t)
      BY <3>1 DEF Load, GateReroute, Enter, NodeDone, NodeRetry, NodeErrorExit,
                  AskHuman, Arm, Dispatch, row
    <3>2. CASE \/ DispatchFailed(t) \/ Save(t) \/ Guard(t) \/ ResumeLoad(t)
               \/ CountRejection(t) \/ ResumeSave(t) \/ Count(t) \/ WakeLoad(t)
               \/ RedoDone(t) \/ TimeoutRead(t)
      BY <3>2 DEF DispatchFailed, Save, Guard, ResumeLoad, CountRejection, ResumeSave,
                  Count, WakeLoad, RedoDone, TimeoutRead, row
    <3>3. CASE \/ LoadWithoutStartNode(t) \/ LimitReached(t) \/ NodeMissing(t)
               \/ GateTerminate(t) \/ Complete(t) \/ NodeFatal(t) \/ Suspend(t)
      BY <3>3 DEF LoadWithoutStartNode, LimitReached, NodeMissing, GateTerminate,
                  Complete, NodeFatal, Suspend, Status
    <3>4. CASE \/ RejectLimit(t) \/ Retake(t) \/ WakeCas(t)
               \/ RedoFail(t) \/ TimeoutEnd(t) \/ Cancel(t)
      BY <3>4 DEF RejectLimit, Retake, WakeCas, RedoFail, TimeoutEnd, Cancel, Status
    <3>5. CASE Route(t)
      BY <3>5 DEF Route, Status
    <3>6. QED
      BY <1>1, <3>1, <3>2, <3>3, <3>4, <3>5 DEF Proceed
  <2>4. QED
    BY <2>1, <2>2, <2>3
<1>2. ASSUME NEW t \in Thread,
             \/ Start(t) \/ StartRefused(t) \/ Throw(t) \/ Decide(t) \/ ToolCallback(t)
             \/ NodeTimeout(t) \/ SopTimeout(t) \/ CancelRead(t) \/ Crash(t)
      PROVE  [Lifecycle!Next]_status
  <2>1. CASE Start(t)
    BY <2>1, TransitionMoves DEF Start, Status
  <2>2. CASE Throw(t)
    BY <2>2, TransitionMoves DEF Throw, Status
  <2>3. CASE \/ StartRefused(t) \/ Decide(t) \/ ToolCallback(t) \/ NodeTimeout(t)
             \/ SopTimeout(t) \/ CancelRead(t) \/ Crash(t)
    BY <2>3 DEF StartRefused, Decide, ToolCallback, NodeTimeout, SopTimeout, CancelRead,
                Crash, row
  <2>4. QED
    BY <1>2, <2>1, <2>2, <2>3
<1>3. ASSUME NEW t \in Thread, Recover(t)
      PROVE  [Lifecycle!Next]_status
  <2>1. CASE RecoverLost(t)
    BY <2>1, TransitionMoves DEF RecoverLost, Status
  <2>2. CASE RecoverError(t)
    <3>1. UNCHANGED status \/ Transition("error", "timed_out") \/ Transition("error", "failed")
      BY <2>2 DEF RecoverError
    <3>2. QED
      BY <3>1, TransitionMoves DEF Status
  <2>3. CASE RecoverRunning(t) \/ RecoverWaiting(t) \/ RecoverDecided(t)
    BY <2>3 DEF RecoverRunning, RecoverWaiting, RecoverDecided, row
  <2>4. QED
    BY <1>3, <2>1, <2>2, <2>3 DEF Recover
<1>4. CASE LimitPasses \/ RowAges \/ EditDefinition \/ UNCHANGED vars
  BY <1>4 DEF LimitPasses, RowAges, EditDefinition, row, vars
<1>5. QED
  BY <1>1, <1>2, <1>3, <1>4 DEF Next

\* The status of an execution starts pending and only ever follows an edge of
\* VALID_TRANSITIONS, whichever handlers, retries, timeouts, cancels, crashes and
\* recoveries interleave.
THEOREM StatusFollowsLifecycle == Spec => ImplementsLifecycle
<1>1. Init => Lifecycle!Init
  BY DEF Init, Lifecycle!Init
<1>2. [Next]_vars => [Lifecycle!Next]_status
  BY StepMoves
<1>3. QED
  BY <1>1, <1>2, PTL DEF Spec, ImplementsLifecycle, Lifecycle!Spec

-------------------------------------------------------------------------------
(* What the operators of the model return.                                 *)

\* The least element of a set of positions is one of them.
LEMMA LeastMember ==
  ASSUME NEW S \in SUBSET Nat, S # {}
  PROVE  LeastOf(S) \in S
<1>1. \E x \in S : \A y \in S : ~ (<< y, x >> \in OpToRel(<, Nat))
  BY NatLessThanWellFounded, WFMin
<1>2. PICK x \in S : \A y \in S : ~ (<< y, x >> \in OpToRel(<, Nat))
  BY <1>1
<1>3. \A y \in S : x <= y
  <2>1. SUFFICES ASSUME NEW y \in S, ~(x <= y) PROVE FALSE
    OBVIOUS
  <2>0. x \in Nat /\ y \in Nat
    BY <1>2, <2>1
  <2>2. y < x /\ y \in Nat /\ x \in Nat
    BY <2>0, <2>1
  <2>3. << y, x >> \in OpToRel(<, Nat)
    BY <2>2 DEF OpToRel
  <2>4. QED
    BY <2>3, <1>2
<1>4. QED
  BY <1>2, <1>3 DEF LeastOf

\* The exits of a node are a sequence of exits with targets.
LEMMA ExitsOf ==
  ASSUME NEW def \in Definition, NEW n \in Node
  PROVE  /\ def.exits[n] \in Seq(Exit)
         /\ DOMAIN def.exits[n] \subseteq Nat
         /\ \A i \in DOMAIN def.exits[n] : def.exits[n][i].target \in Target
<1>1. def.exits[n] \in Seq(Exit)
  BY DEF Definition
<1>2. /\ DOMAIN def.exits[n] = 1 .. Len(def.exits[n])
      /\ Len(def.exits[n]) \in Nat
      /\ \A i \in 1 .. Len(def.exits[n]) : def.exits[n][i] \in Exit
  BY <1>1, LenProperties, ElementOfSeq
<1>3. \A e \in Exit : e.target \in Target
  BY DEF Exit
<1>4. QED
  BY <1>1, <1>2, <1>3

\* The resolver returns the position of an exit, or none.
LEMMA TargetTyped ==
  ASSUME NEW def \in Definition, NEW n \in Node, NEW out
  PROVE  TargetOf(def, n, out) \in Target
<1> DEFINE exits == def.exits[n]
           i == EvaluateExits(exits, Holds(exits, out))
<1>1. i = 0 \/ i \in DOMAIN exits
  <2> DEFINE normal == NormalExits(exits)
             matched == { j \in normal : exits[j].cond # Always /\ j \in Holds(exits, out) }
             default == { j \in normal : exits[j].cond = Always }
  <2>1. normal \subseteq DOMAIN exits /\ DOMAIN exits \subseteq Nat
    BY ExitsOf DEF NormalExits
  <2>2. matched # {} => LeastOf(matched) \in matched
    <3> HIDE DEF normal
    <3> QED BY <2>1, LeastMember
  <2>3. default # {} => LeastOf(default) \in default
    <3> HIDE DEF normal
    <3> QED BY <2>1, LeastMember
  <2>4. i = IF matched # {} THEN LeastOf(matched)
            ELSE IF default # {} THEN LeastOf(default) ELSE 0
    BY DEF EvaluateExits
  <2>5. QED
    <3> HIDE DEF normal, i
    <3> QED BY <2>1, <2>2, <2>3, <2>4
<1>2. TargetOf(def, n, out) = IF i = 0 THEN NullTarget ELSE exits[i].target
  BY DEF TargetOf
<1>3. \A j \in DOMAIN exits : exits[j].target \in Target
  BY ExitsOf
<1>4. QED
  <2> HIDE DEF exits, i
  <2> QED BY <1>1, <1>2, <1>3 DEF Target

\* The same for the error exit.
LEMMA ErrorTargetTyped ==
  ASSUME NEW def \in Definition, NEW n \in Node
  PROVE  ErrorTargetOf(def, n) \in Target
<1> DEFINE exits == def.exits[n]
           errors == { i \in DOMAIN exits : exits[i].error }
<1>1. errors # {} => LeastOf(errors) \in errors
  <2>1. errors \subseteq Nat
    BY ExitsOf
  <2>2. QED
    BY <2>1, LeastMember
<1>2. \A j \in DOMAIN exits : exits[j].target \in Target
  BY ExitsOf
<1>3. ResolveErrorExit(exits) = 0 \/ ResolveErrorExit(exits) \in errors
  <2> HIDE DEF exits
  <2> QED BY <1>1 DEF ResolveErrorExit
<1>4. QED
  <2> DEFINE i == ResolveErrorExit(exits)
  <2>1. ErrorTargetOf(def, n) = IF i = 0 THEN NullTarget ELSE exits[i].target
    BY DEF ErrorTargetOf
  <2> HIDE DEF exits, i
  <2>2. i = 0 \/ i \in DOMAIN exits
    BY <1>3 DEF i
  <2> QED BY <1>2, <2>1, <2>2 DEF Target

\* A push leaves a path of nodes.
LEMMA PushTyped ==
  ASSUME NEW path \in Seq(Node), NEW n \in Node
  PROVE  Push(path, n) \in Seq(Node) /\ PushIfAbsent(path, n) \in Seq(Node)
<1>1. Append(path, n) \in Seq(Node)
  BY AppendProperties
<1>2. ASSUME OnPath(path, n)
      PROVE  Push(path, n) \in Seq(Node)
  <2> DEFINE i == CHOOSE j \in DOMAIN path : path[j] = n
  <2>1. i \in 1 .. Len(path) /\ Len(path) \in Nat
    BY <1>2, LenProperties DEF OnPath
  <2>2. \A j \in 1 .. Len(path) : path[j] \in Node
    BY ElementOfSeq
  <2> HIDE DEF i
  <2>3. SubSeq(path, 1, i - 1) \in Seq(Node)
    <3>1. \A j \in 1 .. (i - 1) : path[j] \in Node
      BY <2>1, <2>2
    <3>2. i - 1 \in Int
      BY <2>1
    <3> QED BY <3>1, <3>2, SubSeqProperties
  <2>4. SubSeq(path, i + 1, Len(path)) \in Seq(Node)
    <3>1. \A j \in (i + 1) .. Len(path) : path[j] \in Node
      BY <2>1, <2>2
    <3>2. i + 1 \in Int /\ Len(path) \in Int
      BY <2>1
    <3> QED BY <3>1, <3>2, SubSeqProperties
  <2>5. SubSeq(path, 1, i - 1) \o SubSeq(path, i + 1, Len(path)) \in Seq(Node)
    BY <2>3, <2>4, ConcatProperties
  <2>6. Append(SubSeq(path, 1, i - 1) \o SubSeq(path, i + 1, Len(path)), n) \in Seq(Node)
    BY <2>5, AppendProperties
  <2>7. QED
    BY <1>2, <2>6 DEF Push, i
<1>3. QED
  BY <1>1, <1>2 DEF Push, PushIfAbsent

\* The first snapshot of an execution is one.
LEMMA BlankTyped ==
  ASSUME NEW n \in Node \cup { NoNode }
  PROVE  BlankSnapshot(n) \in Snapshot
<1>1. 0 \in 0 .. MaxRetries
  BY BoundAssumption
<1>2. << >> \in Seq(Node)
  BY EmptySeq
<1>3. QED
  BY <1>1, <1>2 DEF BlankSnapshot, Snapshot, NodeStatus

\* So is every snapshot the engine makes of another.
LEMMA SnapshotUpdates ==
  ASSUME NEW s \in Snapshot, NEW n \in Node
  PROVE  /\ EnterNode(s, n) \in Snapshot
         /\ FinishNode(s, n) \in Snapshot
         /\ ErrorExitNode(s, n) \in Snapshot
         /\ FinishResumed(s, n) \in Snapshot
         /\ s.retry[n] < MaxRetries => RetryNode(s, n) \in Snapshot
         /\ \A m \in Node \cup { NoNode } : [ s EXCEPT !.cur = m ] \in Snapshot
         /\ \A m \in Node : [ s EXCEPT !.cur = n, !.ns[m] = "error" ] \in Snapshot
         /\ \A d \in Decision : [ s EXCEPT !.dec[n] = d ] \in Snapshot
         /\ \A r \in Ruling : RuleNode(s, r) \in Snapshot
<1>1. /\ s.cur \in Node \cup { NoNode } /\ s.ns \in [ Node -> NodeStatus ]
      /\ s.retry \in [ Node -> 0 .. MaxRetries ]
      /\ s.dec \in [ Node -> Decision \cup { NoDecision } ] /\ s.path \in Seq(Node)
      /\ s = [ cur |-> s.cur, ns |-> s.ns, retry |-> s.retry, dec |-> s.dec,
               path |-> s.path ]
  BY DEF Snapshot
<1>2. /\ Push(s.path, n) \in Seq(Node)
      /\ \A m \in Node : PushIfAbsent(s.path, m) \in Seq(Node)
  BY <1>1, PushTyped
<1>3. MaxRetries \in Nat
  BY BoundAssumption
<1>4. EnterNode(s, n) \in Snapshot
  <2> DEFINE k == IF s.ns[n] = "error" THEN s.retry[n] ELSE 0
  <2>1. k \in 0 .. MaxRetries
    BY <1>1, <1>3
  <2>2. EnterNode(s, n) = [ s EXCEPT !.cur = n, !.ns[n] = "running", !.retry[n] = k ]
    BY DEF EnterNode
  <2> HIDE DEF k
  <2>3. EnterNode(s, n) = [ cur |-> n, ns |-> [ s.ns EXCEPT ![n] = "running" ],
                            retry |-> [ s.retry EXCEPT ![n] = k ], dec |-> s.dec,
                            path |-> s.path ]
    BY <1>1, <2>2
  <2>4. [ s.retry EXCEPT ![n] = k ] \in [ Node -> 0 .. MaxRetries ]
    BY <1>1, <2>1
  <2>5. [ s.ns EXCEPT ![n] = "running" ] \in [ Node -> NodeStatus ]
    BY <1>1 DEF NodeStatus
  <2>6. QED
    BY <1>1, <2>3, <2>4, <2>5 DEF Snapshot
<1>5. FinishNode(s, n) \in Snapshot /\ ErrorExitNode(s, n) \in Snapshot
  BY <1>1, <1>2 DEF FinishNode, ErrorExitNode, Snapshot, NodeStatus
<1>6. FinishResumed(s, n) \in Snapshot
  BY <1>1, <1>2 DEF FinishResumed, Snapshot, NodeStatus
<1>7. ASSUME s.retry[n] < MaxRetries
      PROVE  RetryNode(s, n) \in Snapshot
  <2> DEFINE k == s.retry[n] + 1
  <2>1. k \in 0 .. MaxRetries
    BY <1>1, <1>3, <1>7
  <2>2. RetryNode(s, n) = [ s EXCEPT !.ns[n] = "error", !.retry[n] = k ]
    BY DEF RetryNode
  <2> HIDE DEF k
  <2>3. RetryNode(s, n) = [ cur |-> s.cur, ns |-> [ s.ns EXCEPT ![n] = "error" ],
                            retry |-> [ s.retry EXCEPT ![n] = k ], dec |-> s.dec,
                            path |-> s.path ]
    BY <1>1, <2>2
  <2>4. [ s.retry EXCEPT ![n] = k ] \in [ Node -> 0 .. MaxRetries ]
    BY <1>1, <2>1
  <2>5. [ s.ns EXCEPT ![n] = "error" ] \in [ Node -> NodeStatus ]
    BY <1>1 DEF NodeStatus
  <2>6. QED
    BY <1>1, <2>3, <2>4, <2>5 DEF Snapshot
<1>8. ASSUME NEW r \in Ruling
      PROVE  RuleNode(s, r) \in Snapshot
  <2>1. r.node \in Node /\ r.decision \in Decision
    BY DEF Ruling
  <2>2. QED
    BY <1>1, <1>2, <2>1 DEF RuleNode, Snapshot, NodeStatus
<1>9. /\ \A m \in Node \cup { NoNode } : [ s EXCEPT !.cur = m ] \in Snapshot
      /\ \A m \in Node : [ s EXCEPT !.cur = n, !.ns[m] = "error" ] \in Snapshot
      /\ \A d \in Decision : [ s EXCEPT !.dec[n] = d ] \in Snapshot
  BY <1>1 DEF Snapshot, NodeStatus
<1>10. QED
  BY <1>4, <1>5, <1>6, <1>7, <1>8, <1>9

\* findPreviousHumanDecision returns decisions only.
LEMMA PreviousDecisionTyped ==
  ASSUME NEW s \in Snapshot
  PROVE  PreviousDecision(s) \subseteq Decision
<1>1. /\ \A i \in DOMAIN s.path : s.path[i] \in Node
      /\ s.dec \in [ Node -> Decision \cup { NoDecision } ]
  BY LenProperties, ElementOfSeq DEF Snapshot
<1>2. \A i \in DOMAIN s.path : s.dec[s.path[i]] \in Decision \cup { NoDecision }
  BY <1>1
<1>3. QED
  BY <1>2 DEF PreviousDecision, Decision

-------------------------------------------------------------------------------
(* The type invariant, in the groups of variables the actions leave alone. *)

Meta == { "none", "active", "timed_out", "complete", "error", "cancelled" }

RowOK ==
  /\ status \in Status /\ snap \in Snapshot /\ rejections \in Nat /\ stale \in BOOLEAN
  /\ meta \in Meta

ApprovalsOK ==
  /\ pauses \in Seq(Pause) /\ Len(pauses) <= MaxPauses
  /\ jobs \subseteq DOMAIN pauses /\ applied \subseteq PauseId

ToolsOK == pending \in [ TaskId -> Nat ] /\ tasks \in 0 .. MaxTasks /\ calls \in Nat

UsedOK == used \in [ crashes : Nat, recoveries : Nat, faults : Nat, cancels : Nat ]

SurroundingsOK ==
  /\ version \in DOMAIN Definitions /\ sopJob \in BOOLEAN /\ late \in BOOLEAN
  /\ triggered \in { "no", "started", "refused" }
  /\ UsedOK

\* The locals of a thread when there are m pauses.
Sound(l, m) ==
  /\ l \in ThreadState
  /\ l.pc \in { "loop", "execute", "dispatch", "redo", "wakeCas" } => l.at \in Node
  /\ l.pc \in InResume \cup { "timeoutRead" } => l.ruling \in Ruling
  /\ l.pc = "arm" => l.pause \in 1 .. m
  /\ l.pc \in { "dispatch", "guard", "count" } => l.task \in TaskId

ThreadsOK == th \in [ Thread -> ThreadState ] /\ \A t \in Thread : Sound(th[t], Len(pauses))

LEMMA TypeParts == TypeOK <=> RowOK /\ ApprovalsOK /\ ToolsOK /\ SurroundingsOK /\ ThreadsOK
<1>1. pauses \in Seq(Pause) => DOMAIN pauses = 1 .. Len(pauses)
  BY LenProperties
<1>2. ASSUME NEW t \in Thread, th \in [ Thread -> ThreadState ], pauses \in Seq(Pause)
      PROVE  (AtANode(t) /\ HasRuling(t) /\ HasPause(t) /\ HasTask(t))
               <=> Sound(th[t], Len(pauses))
  BY <1>1, <1>2 DEF AtANode, HasRuling, HasPause, HasTask, Sound, At
<1>3. QED
  BY <1>2 DEF TypeOK, RowOK, Meta, ApprovalsOK, ToolsOK, SurroundingsOK, UsedOK, ThreadsOK

LEMMA TypePartsPrimed ==
  TypeOK' <=> RowOK' /\ ApprovalsOK' /\ ToolsOK' /\ SurroundingsOK' /\ ThreadsOK'
BY TypeParts, PTL

LEMMA DefinitionTyped ==
  ASSUME NEW v \in DOMAIN Definitions
  PROVE  Definitions[v] \in Definition
BY DefinitionAssumption, LenProperties, ElementOfSeq

\* What a handler may rely on before its step.
LEMMA HandlerFacts ==
  ASSUME TypeOK, NEW t \in Thread
  PROVE  /\ Sound(th[t], Len(pauses)) /\ th[t] \in ThreadState /\ th[t].mem \in Snapshot
         /\ DefOf(t) \in Definition /\ Definitions[version] \in Definition
         /\ version \in DOMAIN Definitions
         /\ snap \in Snapshot /\ rejections \in Nat /\ status \in Status
         /\ pauses \in Seq(Pause) /\ Len(pauses) \in Nat /\ Len(pauses) <= MaxPauses
         /\ DOMAIN pauses = 1 .. Len(pauses) /\ th \in [ Thread -> ThreadState ]
         /\ \A p \in DOMAIN pauses : pauses[p] \in Pause
<1>1. /\ RowOK /\ ApprovalsOK /\ ToolsOK /\ SurroundingsOK /\ ThreadsOK
  BY TypeParts
<1>2. Sound(th[t], Len(pauses)) /\ th[t] \in ThreadState
  BY <1>1 DEF ThreadsOK
<1>3. th[t].mem \in Snapshot /\ th[t].ver \in DOMAIN Definitions
  BY <1>2 DEF ThreadState
<1>4. DefOf(t) \in Definition /\ Definitions[version] \in Definition
  BY <1>1, <1>3, DefinitionTyped DEF DefOf, SurroundingsOK
<1>5. Len(pauses) \in Nat /\ DOMAIN pauses = 1 .. Len(pauses)
      /\ \A p \in DOMAIN pauses : pauses[p] \in Pause
  BY <1>1, LenProperties, ElementOfSeq DEF ApprovalsOK
<1>6. QED
  BY <1>1, <1>2, <1>3, <1>4, <1>5 DEF RowOK, ApprovalsOK, SurroundingsOK, ThreadsOK

\* One step of one thread, to sound locals, leaves all threads sound.
LEMMA ThreadStep ==
  ASSUME TypeOK, NEW t \in Thread, NEW l, NEW m \in Nat,
         Len(pauses) <= m, Len(pauses') = m,
         th' = [ th EXCEPT ![t] = l ], Sound(l, m)
  PROVE  ThreadsOK'
<1>0. ThreadsOK /\ Len(pauses) \in Nat
  BY TypeParts, HandlerFacts
<1>1. th' \in [ Thread -> ThreadState ]
  BY <1>0 DEF ThreadsOK, Sound
<1>2. ASSUME NEW u \in Thread
      PROVE  Sound(th'[u], Len(pauses'))
  <2>1. CASE u = t
    BY <1>0, <2>1 DEF ThreadsOK
  <2>2. CASE u # t
    <3>1. th'[u] = th[u] /\ Sound(th[u], Len(pauses))
      BY <1>0, <2>2 DEF ThreadsOK
    <3>2. QED
      BY <1>0, <3>1 DEF Sound
  <2>3. QED
    BY <2>1, <2>2
<1>3. QED
  BY <1>1, <1>2 DEF ThreadsOK

\* In particular a step that adds no pause ...
LEMMA LocalStep ==
  ASSUME TypeOK, NEW t \in Thread, NEW l, Len(pauses') = Len(pauses),
         th' = [ th EXCEPT ![t] = l ], Sound(l, Len(pauses))
  PROVE  ThreadsOK'
<1>1. Len(pauses) \in Nat
  BY HandlerFacts
<1> DEFINE m == Len(pauses)
<1>2. m \in Nat /\ Len(pauses) <= m /\ Len(pauses') = m /\ Sound(l, m)
  BY <1>1
<1> HIDE DEF m
<1>3. QED
  BY <1>2, ThreadStep

LEMMA IdleSound ==
  ASSUME NEW m
  PROVE  Sound(Idle, m) /\ Idle \in ThreadState /\ Idle.pc = "idle"
<1>1. BlankSnapshot(NoNode) \in Snapshot
  BY BlankTyped
<1>2. 1 \in DOMAIN Definitions /\ 0 \in 0 .. MaxTasks /\ 0 \in 0 .. MaxPauses
  BY DefinitionAssumption, BoundAssumption, LenProperties
<1>3. Idle \in ThreadState /\ Idle.pc = "idle"
  BY <1>1, <1>2 DEF Idle, ThreadState, Place, Status
<1>4. QED
  BY <1>3 DEF Sound, InResume

\* ... the return of a handler ...
LEMMA FinishStep ==
  ASSUME TypeOK, NEW t \in Thread, UNCHANGED pauses, Finish(t)
  PROVE  ThreadsOK'
<1>1. Sound(Idle, Len(pauses))
  BY IdleSound
<1>2. QED
  BY <1>1, LocalStep DEF Finish, Become

\* ... and no step at all.
LEMMA ThreadsUnchanged ==
  ASSUME TypeOK, UNCHANGED th, Len(pauses') = Len(pauses)
  PROVE  ThreadsOK'
BY TypeParts DEF ThreadsOK, Sound

LEMMA TransitionStep ==
  ASSUME TypeOK, NEW from, NEW to \in Status, Transition(from, to),
         UNCHANGED << snap, rejections >>, meta' \in Meta
  PROVE  RowOK'
<1>1. RowOK
  BY TypeParts
<1>2. status' \in Status
  BY <1>1 DEF RowOK, Transition, AfterTransition
<1>3. stale' \in BOOLEAN
  BY DEF Transition
<1>4. QED
  BY <1>1, <1>2, <1>3 DEF RowOK

LEMMA PersistStep ==
  ASSUME TypeOK, NEW s \in Snapshot, Persist(s), UNCHANGED << status, rejections, meta >>
  PROVE  RowOK'
BY TypeParts DEF Persist, RowOK

LEMMA RowUnchanged ==
  ASSUME TypeOK, UNCHANGED << status, snap, rejections, stale, meta >>
  PROVE  RowOK'
BY TypeParts DEF RowOK

LEMMA ApprovalsUnchanged ==
  ASSUME TypeOK, UNCHANGED << pauses, jobs, applied >>
  PROVE  ApprovalsOK'
BY TypeParts DEF ApprovalsOK

LEMMA ToolsUnchanged ==
  ASSUME TypeOK, UNCHANGED << pending, tasks, calls >>
  PROVE  ToolsOK'
BY TypeParts DEF ToolsOK

LEMMA SurroundingsUnchanged ==
  ASSUME TypeOK, UNCHANGED << version, sopJob, late, triggered, used >>
  PROVE  SurroundingsOK'
BY TypeParts DEF SurroundingsOK, UsedOK

\* Most steps are of the engine proper: only the row and one thread change.
LEMMA EngineStep ==
  ASSUME TypeOK, UNCHANGED << approvals, tools, surroundings >>, RowOK', ThreadsOK'
  PROVE  TypeOK'
BY TypePartsPrimed, ApprovalsUnchanged, ToolsUnchanged, SurroundingsUnchanged
   DEF approvals, tools, surroundings

-------------------------------------------------------------------------------
(* Type correctness, one lemma per group of actions.                       *)

\* Steps that end a handler with a change of status, or without one.
LEMMA EndingStep ==
  ASSUME TypeOK, NEW t \in Thread, NEW from, NEW to \in Status, Transition(from, to),
         Finish(t), meta' \in Meta,
         UNCHANGED << snap, rejections, approvals, tools, surroundings >>
  PROVE  TypeOK'
<1>1. RowOK'
  BY TransitionStep
<1>2. ThreadsOK'
  BY FinishStep DEF approvals
<1>3. QED
  BY <1>1, <1>2, EngineStep

LEMMA MetaTyped == ASSUME TypeOK PROVE meta \in Meta
BY TypeParts DEF RowOK

LEMMA EndingActions ==
  ASSUME TypeOK, NEW t \in Thread,
         \/ LoadWithoutStartNode(t) \/ LimitReached(t) \/ NodeMissing(t) \/ GateTerminate(t)
         \/ Complete(t) \/ NodeFatal(t) \/ RedoFail(t) \/ TimeoutEnd(t)
  PROVE  TypeOK'
<1>1. meta \in Meta
  BY MetaTyped
<1>2. CASE \/ LoadWithoutStartNode(t) \/ NodeMissing(t) \/ GateTerminate(t) \/ NodeFatal(t)
           \/ RedoFail(t)
  <2>1. Transition("running", "error") /\ Finish(t) /\ meta' = meta
        /\ UNCHANGED << snap, rejections, approvals, tools, surroundings >>
    BY <1>2 DEF LoadWithoutStartNode, NodeMissing, GateTerminate, NodeFatal, RedoFail
  <2>2. QED
    BY <1>1, <2>1, EndingStep DEF Status
<1>3. CASE TimeoutEnd(t)
  <2>1. Transition(th[t].seen, "timed_out") /\ Finish(t) /\ meta' = meta
        /\ UNCHANGED << snap, rejections, approvals, tools, surroundings >>
    BY <1>3 DEF TimeoutEnd
  <2>2. QED
    BY <1>1, <2>1, EndingStep DEF Status
<1>4. CASE LimitReached(t)
  <2>1. Transition("running", "timed_out") /\ Finish(t) /\ meta' = "timed_out"
        /\ UNCHANGED << snap, rejections, approvals, tools, surroundings >>
    BY <1>4 DEF LimitReached
  <2>2. QED
    BY <2>1, EndingStep DEF Status, Meta
<1>5. CASE Complete(t)
  <2>1. Transition("running", "completed") /\ Finish(t) /\ meta' \in Meta
        /\ UNCHANGED << snap, rejections, approvals, tools, surroundings >>
    BY <1>1, <1>5 DEF Complete, Meta
  <2>2. QED
    BY <2>1, EndingStep DEF Status
<1>6. QED
  BY <1>2, <1>3, <1>4, <1>5

\* Steps that save a snapshot and go on.
LEMMA SavingStep ==
  ASSUME TypeOK, NEW t \in Thread, NEW s \in Snapshot, Persist(s),
         NEW l, Sound(l, Len(pauses)), th' = [ th EXCEPT ![t] = l ],
         UNCHANGED << status, rejections, approvals, tools, surroundings, meta >>
  PROVE  TypeOK'
<1>1. RowOK'
  BY PersistStep
<1>2. Len(pauses') = Len(pauses)
  BY DEF approvals
<1>3. ThreadsOK'
  BY <1>2, LocalStep
<1>4. QED
  BY <1>1, <1>3, EngineStep

\* Steps in which a handler only moves on.
LEMMA MovingStep ==
  ASSUME TypeOK, NEW t \in Thread, NEW l, Sound(l, Len(pauses)),
         th' = [ th EXCEPT ![t] = l ],
         UNCHANGED << row, approvals, tools, surroundings, stale, meta >>
  PROVE  TypeOK'
<1>1. RowOK'
  BY RowUnchanged DEF row
<1>2. Len(pauses') = Len(pauses)
  BY DEF approvals
<1>3. ThreadsOK'
  BY <1>2, LocalStep
<1>4. QED
  BY <1>1, <1>3, EngineStep

\* A handler at a place of executeSop or a resume keeps its locals sound when it
\* replaces its snapshot, its node by a node, and goes to such a place.
LEMMA SoundMoves ==
  ASSUME NEW l, NEW m, Sound(l, m), NEW s \in Snapshot, NEW n \in Node
  PROVE  /\ Sound([ l EXCEPT !.mem = s, !.pc = "complete" ], m)
         /\ Sound([ l EXCEPT !.mem = s, !.pc = "loop", !.at = n ], m)
         /\ Sound([ l EXCEPT !.mem = s, !.at = n ], m)
         /\ Sound([ l EXCEPT !.pc = "wakeCas", !.mem = s, !.at = n ], m)
         /\ l.at \in Node => Sound([ l EXCEPT !.mem = s, !.pc = "execute" ], m)
         /\ Sound([ l EXCEPT !.mem = s, !.pc = "loop", !.at = n, !.task = 0 ], m)
         /\ l.at \in Node => Sound([ l EXCEPT !.mem = s, !.pc = "loop", !.task = 0 ], m)
<1>1. l \in ThreadState
  BY DEF Sound
<1>2. /\ [ l EXCEPT !.mem = s, !.pc = "complete" ] \in ThreadState
      /\ [ l EXCEPT !.mem = s, !.pc = "loop", !.at = n ] \in ThreadState
      /\ [ l EXCEPT !.mem = s, !.at = n ] \in ThreadState
      /\ [ l EXCEPT !.pc = "wakeCas", !.mem = s, !.at = n ] \in ThreadState
      /\ [ l EXCEPT !.mem = s, !.pc = "execute" ] \in ThreadState
      /\ [ l EXCEPT !.mem = s, !.pc = "loop", !.at = n, !.task = 0 ] \in ThreadState
      /\ [ l EXCEPT !.mem = s, !.pc = "loop", !.task = 0 ] \in ThreadState
  <2>1. 0 \in 0 .. MaxTasks
    BY BoundAssumption
  <2>2. QED
    BY <1>1, <2>1 DEF ThreadState, Place, InExecuteSop, InToolResume
<1>3. QED
  BY <1>1, <1>2 DEF Sound, ThreadState, InResume

LEMMA LoadTyped ==
  ASSUME TypeOK, NEW t \in Thread, Load(t)
  PROVE  TypeOK'
<1> DEFINE s == StartSnapshot(snap, Definitions[version])
           l == [ Idle EXCEPT !.pc = "loop", !.ver = version, !.mem = s, !.at = s.cur ]
<1>1. /\ s.cur # NoNode /\ th' = [ th EXCEPT ![t] = l ] /\ meta' = "active"
      /\ UNCHANGED << row, approvals, tools, surroundings, stale >>
  BY DEF Load, Become
<1>2. snap \in Snapshot /\ version \in DOMAIN Definitions /\ Definitions[version] \in Definition
  BY HandlerFacts
<1>3. s \in Snapshot
  <2>1. Definitions[version].start \in Node \cup { NoNode }
    BY <1>2 DEF Definition
  <2>2. QED
    BY <1>2, <2>1, BlankTyped DEF StartSnapshot
<1> HIDE DEF s
<1>4. s.cur \in Node
  BY <1>1, <1>3 DEF Snapshot
<1>5. Sound(l, Len(pauses))
  <2>1. Idle \in ThreadState /\ Sound(Idle, Len(pauses))
    BY IdleSound
  <2>2. l \in ThreadState
    BY <1>2, <1>3, <1>4, <2>1 DEF ThreadState, Place, InExecuteSop
  <2>3. l.pc = "loop" /\ l.at \in Node
    BY <1>4, <2>1 DEF ThreadState
  <2>4. QED
    BY <2>2, <2>3 DEF Sound, InResume
<1> HIDE DEF l
<1>6. ThreadsOK'
  <2>1. Len(pauses') = Len(pauses)
    BY <1>1 DEF approvals
  <2>2. QED
    BY <1>1, <1>5, <2>1, LocalStep
<1>7. RowOK'
  BY <1>1, TypeParts DEF RowOK, row, Meta
<1>8. QED
  BY <1>1, <1>6, <1>7, EngineStep

LEMMA GateRerouteTyped ==
  ASSUME TypeOK, NEW t \in Thread, GateReroute(t)
  PROVE  TypeOK'
<1>1. PICK faulty \in DigitalOnPath(DefOf(t), th[t].mem) :
        LET target == ErrorTargetOf(DefOf(t), faulty)
            s == [ th[t].mem EXCEPT !.cur = th[t].at, !.ns[faulty] = "error" ]
        IN  /\ ~FalsyTarget(target)
            /\ Persist(s)
            /\ th' = [ th EXCEPT ![t].mem = s, ![t].at = target ]
  BY DEF GateReroute
<1> DEFINE target == ErrorTargetOf(DefOf(t), faulty)
           s == [ th[t].mem EXCEPT !.cur = th[t].at, !.ns[faulty] = "error" ]
<1>2. /\ Sound(th[t], Len(pauses)) /\ th[t].mem \in Snapshot /\ DefOf(t) \in Definition
      /\ th \in [ Thread -> ThreadState ]
  BY HandlerFacts
<1>3. faulty \in Node
  BY <1>2 DEF DigitalOnPath, Definition
<1>4. th[t].at \in Node
  BY <1>2 DEF GateReroute, AtNode, Definition
<1>5. s \in Snapshot
  BY <1>2, <1>3, <1>4, SnapshotUpdates
<1>6. target \in Node
  <2>1. target \in Target
    BY <1>2, <1>3, ErrorTargetTyped
  <2>2. QED
    BY <1>1, <2>1 DEF Target, FalsyTarget
<1>7. Persist(s) /\ th' = [ th EXCEPT ![t] = [ th[t] EXCEPT !.mem = s, !.at = target ] ]
  BY <1>1, <1>2
<1> HIDE DEF s, target
<1>8. Sound([ th[t] EXCEPT !.mem = s, !.at = target ], Len(pauses))
  BY <1>2, <1>5, <1>6, SoundMoves
<1>9. UNCHANGED << status, rejections, approvals, tools, surroundings, meta >>
  BY DEF GateReroute
<1>10. QED
  BY <1>5, <1>7, <1>8, <1>9, SavingStep

LEMMA EnterTyped ==
  ASSUME TypeOK, NEW t \in Thread, Enter(t)
  PROVE  TypeOK'
<1> DEFINE s == EnterNode(th[t].mem, th[t].at)
<1>1. /\ Sound(th[t], Len(pauses)) /\ th[t].mem \in Snapshot /\ DefOf(t) \in Definition
      /\ th \in [ Thread -> ThreadState ]
  BY HandlerFacts
<1>2. th[t].at \in Node
  BY <1>1 DEF Enter, AtNode, Definition
<1>3. s \in Snapshot
  BY <1>1, <1>2, SnapshotUpdates
<1>4. /\ Persist(s) /\ th' = [ th EXCEPT ![t] = [ th[t] EXCEPT !.mem = s, !.pc = "execute" ] ]
      /\ UNCHANGED << status, rejections, approvals, tools, surroundings, meta >>
  BY <1>1 DEF Enter
<1> HIDE DEF s
<1>5. Sound([ th[t] EXCEPT !.mem = s, !.pc = "execute" ], Len(pauses))
  BY <1>1, <1>2, <1>3, SoundMoves
<1>6. QED
  BY <1>3, <1>4, <1>5, SavingStep

\* The decision that human_confirm notes is a decision.
LEMMA DecidedTyped ==
  ASSUME TypeOK, NEW t \in Thread, th[t].at \in Node,
         NEW out \in Outputs(DefOf(t), th[t].at, th[t].mem)
  PROVE  Decided(t, out) \in Snapshot
<1>1. th[t].mem \in Snapshot
  BY HandlerFacts
<1>2. ASSUME DefOf(t).kind[th[t].at] = "human_confirm"
      PROVE  out \in Decision
  <2>1. Outputs(DefOf(t), th[t].at, th[t].mem) = PreviousDecision(th[t].mem)
    BY <1>2 DEF Outputs
  <2>2. QED
    BY <1>1, <2>1, PreviousDecisionTyped
<1>3. QED
  BY <1>1, <1>2, SnapshotUpdates DEF Decided

LEMMA NodeDoneTyped ==
  ASSUME TypeOK, NEW t \in Thread, NodeDone(t)
  PROVE  TypeOK'
<1> DEFINE n == th[t].at
<1>1. PICK out \in Outputs(DefOf(t), n, th[t].mem) :
       LET target == TargetOf(DefOf(t), n, out)
           s == FinishNode(Decided(t, out), n)
       IN  /\ Persist(s)
           /\ IF FalsyTarget(target)
              THEN th' = [ th EXCEPT ![t].mem = s, ![t].pc = "complete" ]
              ELSE th' = [ th EXCEPT ![t].mem = s, ![t].pc = "loop", ![t].at = target ]
  BY DEF NodeDone
<1> DEFINE target == TargetOf(DefOf(t), n, out)
           s == FinishNode(Decided(t, out), n)
<1>2. /\ Sound(th[t], Len(pauses)) /\ DefOf(t) \in Definition
      /\ th \in [ Thread -> ThreadState ]
  BY HandlerFacts
<1>3. n \in Node
  BY <1>2 DEF NodeDone, At, Sound
<1>4. s \in Snapshot
  BY <1>3, DecidedTyped, SnapshotUpdates
<1>5. target \in Target
  BY <1>2, <1>3, TargetTyped
<1>6. Persist(s) /\ UNCHANGED << status, rejections, approvals, tools, surroundings, meta >>
  BY <1>1 DEF NodeDone
<1>7. CASE FalsyTarget(target)
  <2>1. th' = [ th EXCEPT ![t] = [ th[t] EXCEPT !.mem = s, !.pc = "complete" ] ]
    BY <1>1, <1>2, <1>7
  <2> HIDE DEF s
  <2>2. Sound([ th[t] EXCEPT !.mem = s, !.pc = "complete" ], Len(pauses))
    BY <1>2, <1>3, <1>4, SoundMoves
  <2>3. QED
    BY <1>4, <1>6, <2>1, <2>2, SavingStep
<1>8. CASE ~FalsyTarget(target)
  <2>1. th' = [ th EXCEPT ![t] = [ th[t] EXCEPT !.mem = s, !.pc = "loop", !.at = target ] ]
    BY <1>1, <1>2, <1>8
  <2>2. target \in Node
    BY <1>5, <1>8 DEF Target, FalsyTarget
  <2> HIDE DEF s, target
  <2>3. Sound([ th[t] EXCEPT !.mem = s, !.pc = "loop", !.at = target ], Len(pauses))
    BY <1>2, <1>4, <2>2, SoundMoves
  <2>4. QED
    BY <1>4, <1>6, <2>1, <2>3, SavingStep
<1>9. QED
  BY <1>7, <1>8

LEMMA NodeRetryTyped ==
  ASSUME TypeOK, NEW t \in Thread, NodeRetry(t)
  PROVE  TypeOK'
<1> DEFINE n == th[t].at
           s == RetryNode(th[t].mem, n)
<1>1. /\ Sound(th[t], Len(pauses)) /\ th[t].mem \in Snapshot /\ DefOf(t) \in Definition
      /\ th \in [ Thread -> ThreadState ]
  BY HandlerFacts
<1>2. n \in Node
  BY <1>1 DEF NodeRetry, Executing, Sound
<1>3. s \in Snapshot
  <2>1. th[t].mem.retry[n] < DefOf(t).maxRetries
    BY DEF NodeRetry, RetriesLeft
  <2>2. DefOf(t).maxRetries \in 0 .. MaxRetries /\ th[t].mem.retry[n] \in 0 .. MaxRetries
    BY <1>1, <1>2 DEF Definition, Snapshot
  <2>3. th[t].mem.retry[n] < MaxRetries
    BY <2>1, <2>2, BoundAssumption
  <2>4. QED
    BY <1>1, <1>2, <2>3, SnapshotUpdates
<1>4. /\ Persist(s)
      /\ th' = [ th EXCEPT ![t] = [ th[t] EXCEPT !.mem = s, !.pc = "loop", !.task = 0 ] ]
      /\ UNCHANGED << status, rejections, approvals, tools, surroundings, meta >>
  BY <1>1 DEF NodeRetry
<1> HIDE DEF s
<1>5. Sound([ th[t] EXCEPT !.mem = s, !.pc = "loop", !.task = 0 ], Len(pauses))
  BY <1>1, <1>2, <1>3, SoundMoves
<1>6. QED
  BY <1>3, <1>4, <1>5, SavingStep

LEMMA NodeErrorExitTyped ==
  ASSUME TypeOK, NEW t \in Thread, NodeErrorExit(t)
  PROVE  TypeOK'
<1> DEFINE n == th[t].at
           s == ErrorExitNode(th[t].mem, n)
           target == ErrorTargetOf(DefOf(t), n)
<1>1. /\ Sound(th[t], Len(pauses)) /\ th[t].mem \in Snapshot /\ DefOf(t) \in Definition
      /\ th \in [ Thread -> ThreadState ]
  BY HandlerFacts
<1>2. n \in Node
  BY <1>1 DEF NodeErrorExit, Executing, Sound
<1>3. s \in Snapshot
  BY <1>1, <1>2, SnapshotUpdates
<1>4. target \in Node
  <2>1. target \in Target
    BY <1>1, <1>2, ErrorTargetTyped
  <2>2. QED
    BY <2>1 DEF NodeErrorExit, Target, FalsyTarget
<1>5. /\ Persist(s)
      /\ th' = [ th EXCEPT ![t] = [ th[t] EXCEPT !.mem = s, !.pc = "loop", !.at = target,
                                                 !.task = 0 ] ]
      /\ UNCHANGED << status, rejections, approvals, tools, surroundings, meta >>
  BY <1>1 DEF NodeErrorExit
<1> HIDE DEF s, target
<1>6. Sound([ th[t] EXCEPT !.mem = s, !.pc = "loop", !.at = target, !.task = 0 ], Len(pauses))
  BY <1>1, <1>3, <1>4, SoundMoves
<1>7. QED
  BY <1>3, <1>5, <1>6, SavingStep

LEMMA AskHumanTyped ==
  ASSUME TypeOK, NEW t \in Thread, AskHuman(t)
  PROVE  TypeOK'
<1> DEFINE n == th[t].at
           limit == DefOf(t).nodeTimeout[n]
           p == [ node |-> n, st |-> "waiting", decision |-> NoDecision, expires |-> limit ]
           m == Len(pauses) + 1
           l == [ th[t] EXCEPT !.pause = m, !.task = 0, !.pc = IF limit THEN "arm" ELSE "suspend" ]
<1>1. /\ Sound(th[t], Len(pauses)) /\ th[t] \in ThreadState /\ DefOf(t) \in Definition
      /\ pauses \in Seq(Pause) /\ Len(pauses) \in Nat /\ DOMAIN pauses = 1 .. Len(pauses)
      /\ th \in [ Thread -> ThreadState ]
  BY HandlerFacts
<1>2. /\ n \in DefOf(t).nodes /\ Len(pauses) < MaxPauses
      /\ pauses' = Append(pauses, p)
      /\ th' = [ th EXCEPT ![t] = l ]
      /\ UNCHANGED << row, jobs, applied, tools, surroundings, stale, meta >>
  BY <1>1 DEF AskHuman
<1>3. n \in Node /\ limit \in BOOLEAN
  BY <1>1, <1>2 DEF Definition
<1>4. p \in Pause
  BY <1>3 DEF Pause, NoDecision
<1> HIDE DEF p
<1>5. /\ pauses' \in Seq(Pause) /\ Len(pauses') = m
  BY <1>1, <1>2, <1>4, AppendProperties
<1>6. m \in Nat /\ m \in 0 .. MaxPauses /\ Len(pauses) <= m /\ m \in 1 .. m /\ 0 \in 0 .. MaxTasks
  BY <1>1, <1>2, BoundAssumption
<1> HIDE DEF m, limit
<1>7. l \in ThreadState
  BY <1>1, <1>6 DEF ThreadState, Place, InExecuteSop
<1>8. Sound(l, m)
  <2>1. l.pc = IF limit THEN "arm" ELSE "suspend"
    BY <1>1 DEF ThreadState
  <2>2. l.pause = m
    BY <1>1 DEF ThreadState
  <2> HIDE DEF l
  <2>3. QED
    BY <1>6, <1>7, <2>1, <2>2 DEF Sound, InResume
<1> HIDE DEF l
<1>9. ThreadsOK'
  BY <1>2, <1>5, <1>6, <1>8, ThreadStep
<1>10. ApprovalsOK'
  <2>1. m <= MaxPauses /\ DOMAIN pauses' = 1 .. m
    BY <1>5, <1>6, LenProperties, BoundAssumption
  <2>2. DOMAIN pauses \subseteq DOMAIN pauses'
    BY <1>1, <2>1 DEF m
  <2>3. jobs \subseteq DOMAIN pauses /\ applied \subseteq PauseId /\ jobs' = jobs /\ applied' = applied
    BY <1>2, TypeParts DEF ApprovalsOK
  <2>4. QED
    BY <1>5, <2>1, <2>2, <2>3 DEF ApprovalsOK
<1>11. RowOK' /\ ToolsOK' /\ SurroundingsOK'
  BY <1>2, RowUnchanged, ToolsUnchanged, SurroundingsUnchanged DEF row, tools, surroundings
<1>12. QED
  BY <1>9, <1>10, <1>11, TypePartsPrimed

LEMMA ArmTyped ==
  ASSUME TypeOK, NEW t \in Thread, Arm(t)
  PROVE  TypeOK'
<1> DEFINE l == [ th[t] EXCEPT !.pc = "suspend", !.pause = 0 ]
<1>1. /\ Sound(th[t], Len(pauses)) /\ th[t] \in ThreadState /\ DOMAIN pauses = 1 .. Len(pauses)
      /\ th \in [ Thread -> ThreadState ]
  BY HandlerFacts
<1>2. /\ th' = [ th EXCEPT ![t] = l ] /\ jobs' = jobs \cup { th[t].pause } /\ th[t].pc = "arm"
      /\ UNCHANGED << row, pauses, applied, tools, surroundings, stale, meta >>
  BY <1>1 DEF Arm, At
<1>3. l \in ThreadState /\ l.pc = "suspend"
  <2>1. 0 \in 0 .. MaxPauses
    BY BoundAssumption
  <2>2. QED
    BY <1>1, <2>1 DEF ThreadState, Place, InExecuteSop
<1> HIDE DEF l
<1>4. Sound(l, Len(pauses))
  BY <1>3 DEF Sound, InResume
<1>5. ThreadsOK'
  BY <1>2, <1>4, LocalStep
<1>6. ApprovalsOK'
  <2>1. th[t].pause \in DOMAIN pauses
    BY <1>1, <1>2 DEF Sound
  <2>2. QED
    BY <1>2, <2>1, TypeParts DEF ApprovalsOK
<1>7. RowOK' /\ ToolsOK' /\ SurroundingsOK'
  BY <1>2, RowUnchanged, ToolsUnchanged, SurroundingsUnchanged DEF row, tools, surroundings
<1>8. QED
  BY <1>5, <1>6, <1>7, TypePartsPrimed

LEMMA DispatchTyped ==
  ASSUME TypeOK, NEW t \in Thread, Dispatch(t)
  PROVE  TypeOK'
<1> DEFINE k == IF At(t, "execute") THEN tasks + 1 ELSE th[t].task
           l == [ th[t] EXCEPT !.pc = "dispatch", !.task = k ]
<1>1. /\ Sound(th[t], Len(pauses)) /\ th[t] \in ThreadState /\ DefOf(t) \in Definition
      /\ th \in [ Thread -> ThreadState ]
  BY HandlerFacts
<1>2. /\ th[t].at \in DefOf(t).nodes /\ k \in TaskId
      /\ tasks' = IF At(t, "execute") THEN k ELSE tasks
      /\ calls' = calls + 1
      /\ pending' = [ pending EXCEPT ![k] = @ + 1 ]
      /\ th' = [ th EXCEPT ![t] = l ]
      /\ UNCHANGED << row, approvals, surroundings, stale, meta >>
  BY <1>1 DEF Dispatch
<1>3. th[t].at \in Node
  BY <1>1, <1>2 DEF Definition
<1> HIDE DEF k
<1>4. k \in 0 .. MaxTasks
  BY <1>2, BoundAssumption DEF TaskId
<1>5. l \in ThreadState /\ l.pc = "dispatch" /\ l.at = th[t].at /\ l.task = k
  BY <1>1, <1>4 DEF ThreadState, Place, InExecuteSop
<1> HIDE DEF l
<1>6. Sound(l, Len(pauses))
  BY <1>2, <1>3, <1>5 DEF Sound, InResume
<1>7. ThreadsOK'
  <2>1. Len(pauses') = Len(pauses)
    BY <1>2 DEF approvals
  <2>2. QED
    BY <1>2, <1>6, <2>1, LocalStep
<1>8. ToolsOK'
  <2>1. ToolsOK
    BY TypeParts
  <2>2. pending[k] + 1 \in Nat /\ calls + 1 \in Nat
    BY <1>2, <2>1 DEF ToolsOK
  <2>3. QED
    BY <1>2, <1>4, <2>1, <2>2 DEF ToolsOK
<1>9. RowOK' /\ ApprovalsOK' /\ SurroundingsOK'
  BY <1>2, RowUnchanged, ApprovalsUnchanged, SurroundingsUnchanged
     DEF row, approvals, surroundings
<1>10. QED
  BY <1>7, <1>8, <1>9, TypePartsPrimed

\* A pending call of a task that ends leaves a count of calls.
LEMMA CallEnds ==
  ASSUME TypeOK, NEW k \in TaskId, pending[k] > 0,
         pending' = [ pending EXCEPT ![k] = @ - 1 ], UNCHANGED << tasks, calls >>
  PROVE  ToolsOK'
<1>1. ToolsOK
  BY TypeParts
<1>2. pending[k] - 1 \in Nat
  BY <1>1 DEF ToolsOK
<1>3. QED
  BY <1>1, <1>2 DEF ToolsOK

LEMMA DispatchFailedTyped ==
  ASSUME TypeOK, NEW t \in Thread, DispatchFailed(t)
  PROVE  TypeOK'
<1>1. th[t].task \in TaskId
  BY HandlerFacts DEF DispatchFailed, At, Sound
<1>2. ToolsOK'
  BY <1>1, CallEnds DEF DispatchFailed
<1>3. ThreadsOK'
  BY ThreadsUnchanged DEF DispatchFailed, approvals
<1>4. RowOK' /\ ApprovalsOK' /\ SurroundingsOK'
  BY RowUnchanged, ApprovalsUnchanged, SurroundingsUnchanged
     DEF DispatchFailed, row, approvals, surroundings
<1>5. QED
  BY <1>2, <1>3, <1>4, TypePartsPrimed

\* A handler that goes to a place where it needs no local, or only those it has.
LEMMA SoundGoto ==
  ASSUME NEW l, NEW m, Sound(l, m),
         NEW place \in { "save", "resumeSave", "route", "retake", "resume", "wake", "guard" },
         place \in InResume => l.ruling \in Ruling, place = "guard" => l.task \in TaskId
  PROVE  Sound([ l EXCEPT !.pc = place ], m)
<1> DEFINE k == [ l EXCEPT !.pc = place ]
<1>1. l \in ThreadState
  BY DEF Sound
<1>2. /\ k \in ThreadState /\ k.pc = place /\ k.ruling = l.ruling /\ k.task = l.task
  BY <1>1 DEF ThreadState, Place, InExecuteSop, InResume, InToolResume
<1> HIDE DEF k
<1>3. Sound(k, m)
  BY <1>2 DEF Sound, InResume
<1>4. QED
  BY <1>3 DEF k

LEMMA SuspendTyped ==
  ASSUME TypeOK, NEW t \in Thread, Suspend(t)
  PROVE  TypeOK'
<1> DEFINE to == IF At(t, "dispatch") THEN "paused_for_tool" ELSE "paused_for_human"
           l == [ th[t] EXCEPT !.pc = "save" ]
<1>1. /\ Transition("running", to) /\ to \in Status
      /\ th' = [ th EXCEPT ![t] = l ]
      /\ UNCHANGED << snap, rejections, approvals, tools, surroundings, meta >>
  BY HandlerFacts DEF Suspend, Goto, Status
<1>2. RowOK'
  <2> HIDE DEF to
  <2>1. QED
    BY <1>1, MetaTyped, TransitionStep
<1>3. Sound(l, Len(pauses))
  BY HandlerFacts, SoundGoto DEF InResume
<1>4. ThreadsOK'
  <2>1. Len(pauses') = Len(pauses)
    BY <1>1 DEF approvals
  <2> HIDE DEF l
  <2>2. QED
    BY <1>1, <1>3, <2>1, LocalStep
<1>5. QED
  BY <1>1, <1>2, <1>4, EngineStep

LEMMA SaveTyped ==
  ASSUME TypeOK, NEW t \in Thread, Save(t)
  PROVE  TypeOK'
<1>1. /\ Sound(th[t], Len(pauses)) /\ th[t] \in ThreadState /\ th[t].mem \in Snapshot
  BY HandlerFacts
<1>2. /\ Persist(th[t].mem)
      /\ UNCHANGED << status, rejections, approvals, tools, surroundings, meta >>
  BY DEF Save
<1>3. CASE th[t].task # 0
  <2> DEFINE l == [ th[t] EXCEPT !.pc = "guard" ]
  <2>1. th' = [ th EXCEPT ![t] = l ]
    BY <1>3, HandlerFacts DEF Save, Goto
  <2>2. th[t].task \in TaskId
    BY <1>1, <1>3, BoundAssumption DEF ThreadState, TaskId
  <2>3. Sound(l, Len(pauses))
    BY <1>1, <2>2, SoundGoto DEF InResume
  <2> HIDE DEF l
  <2>4. QED
    BY <1>1, <1>2, <2>1, <2>3, SavingStep
<1>4. CASE th[t].task = 0
  <2>1. th' = [ th EXCEPT ![t] = Idle ]
    BY <1>4 DEF Save, Finish, Become
  <2>2. Sound(Idle, Len(pauses))
    BY IdleSound
  <2>3. QED
    BY <1>1, <1>2, <2>1, <2>2, SavingStep
<1>5. QED
  BY <1>3, <1>4

\* A fresh invocation of a handler, at a place that needs no node.
LEMMA FreshSound ==
  ASSUME NEW m
  PROVE  /\ Sound([ Idle EXCEPT !.pc = "load" ], m)
         /\ \A k \in TaskId : /\ Sound([ Idle EXCEPT !.pc = "wake", !.task = k ], m)
                              /\ Sound([ Idle EXCEPT !.pc = "count", !.task = k ], m)
         /\ \A r \in Ruling : /\ Sound([ Idle EXCEPT !.pc = "resume", !.ruling = r ], m)
                              /\ Sound([ Idle EXCEPT !.pc = "timeoutRead", !.ruling = r ], m)
         /\ \A s \in Status : /\ Sound([ Idle EXCEPT !.pc = "timeoutEnd", !.seen = s ], m)
                              /\ Sound([ Idle EXCEPT !.pc = "cancel", !.seen = s ], m)
<1>1. Idle \in ThreadState /\ TaskId \subseteq 0 .. MaxTasks
  BY IdleSound, BoundAssumption DEF TaskId
<1>2. ASSUME NEW p \in { "load", "wake", "timeoutEnd", "cancel", "count" }, NEW l \in ThreadState,
             l.pc = p, p = "count" => l.task \in TaskId
      PROVE  Sound(l, m)
  BY <1>2 DEF Sound, InResume
<1>3. ASSUME NEW l \in ThreadState, l.pc \in { "resume", "timeoutRead" }, l.ruling \in Ruling
      PROVE  Sound(l, m)
  BY <1>3 DEF Sound, InResume
<1>4. Sound([ Idle EXCEPT !.pc = "load" ], m)
  <2> DEFINE l == [ Idle EXCEPT !.pc = "load" ]
  <2>1. l \in ThreadState /\ l.pc = "load"
    BY <1>1 DEF ThreadState, Place, InExecuteSop
  <2> HIDE DEF l
  <2>2. Sound(l, m)
    BY <1>2, <2>1
  <2>3. QED
    BY <2>2 DEF l
<1>5. ASSUME NEW k \in TaskId, NEW p \in { "wake", "count" }
      PROVE  Sound([ Idle EXCEPT !.pc = p, !.task = k ], m)
  <2> DEFINE l == [ Idle EXCEPT !.pc = p, !.task = k ]
  <2>1. l \in ThreadState /\ l.pc = p /\ l.task = k
    BY <1>1 DEF ThreadState, Place, InToolResume
  <2> HIDE DEF l
  <2>2. Sound(l, m)
    BY <1>2, <2>1
  <2>3. QED
    BY <2>2 DEF l
<1>6. ASSUME NEW r \in Ruling, NEW p \in { "resume", "timeoutRead" }
      PROVE  Sound([ Idle EXCEPT !.pc = p, !.ruling = r ], m)
  <2> DEFINE l == [ Idle EXCEPT !.pc = p, !.ruling = r ]
  <2>1. l \in ThreadState /\ l.pc = p /\ l.ruling = r
    BY <1>1 DEF ThreadState, Place, InResume, InTimeout
  <2> HIDE DEF l
  <2>2. Sound(l, m)
    BY <1>3, <2>1
  <2>3. QED
    BY <2>2 DEF l
<1>7. ASSUME NEW s \in Status, NEW p \in { "timeoutEnd", "cancel" }
      PROVE  Sound([ Idle EXCEPT !.pc = p, !.seen = s ], m)
  <2> DEFINE l == [ Idle EXCEPT !.pc = p, !.seen = s ]
  <2>1. l \in ThreadState /\ l.pc = p
    BY <1>1 DEF ThreadState, Place, InTimeout, InCancel
  <2> HIDE DEF l
  <2>2. Sound(l, m)
    BY <1>2, <2>1
  <2>3. QED
    BY <2>2 DEF l
<1>8. QED
  BY <1>4, <1>5, <1>6, <1>7

LEMMA GuardTyped ==
  ASSUME TypeOK, NEW t \in Thread, Guard(t)
  PROVE  TypeOK'
<1>1. UNCHANGED << row, approvals, tools, surroundings, stale, meta >>
  BY DEF Guard
<1>2. CASE pending[th[t].task] = 0
  <2> DEFINE l == [ Idle EXCEPT !.pc = "wake", !.task = th[t].task ]
  <2>1. th[t].task \in TaskId
    BY HandlerFacts DEF Guard, At, Sound
  <2>2. th' = [ th EXCEPT ![t] = l ] /\ Sound(l, Len(pauses))
    BY <1>2, <2>1, FreshSound DEF Guard, Become
  <2> HIDE DEF l
  <2>3. QED
    BY <1>1, <2>2, MovingStep
<1>3. CASE pending[th[t].task] # 0
  <2>1. th' = [ th EXCEPT ![t] = Idle ] /\ Sound(Idle, Len(pauses))
    BY <1>3, IdleSound DEF Guard, Finish, Become
  <2>2. QED
    BY <1>1, <2>1, MovingStep
<1>4. QED
  BY <1>2, <1>3

\* The counters of the bounded events.
LEMMA UsedStep ==
  ASSUME TypeOK,
         \/ used' = [ used EXCEPT !.crashes = @ + 1 ] \/ used' = [ used EXCEPT !.recoveries = @ + 1 ]
         \/ used' = [ used EXCEPT !.faults = @ + 1 ] \/ used' = [ used EXCEPT !.cancels = @ + 1 ],
         UNCHANGED << version, sopJob, late, triggered >>
  PROVE  SurroundingsOK'
<1>1. SurroundingsOK
  BY TypeParts
<1>2. UsedOK'
  BY <1>1 DEF SurroundingsOK, UsedOK
<1>3. QED
  BY <1>1, <1>2 DEF SurroundingsOK

LEMMA ThrowTyped ==
  ASSUME TypeOK, NEW t \in Thread, Throw(t)
  PROVE  TypeOK'
<1>1. /\ Transition("running", "error") /\ meta' = "error" /\ Finish(t)
      /\ used' = [ used EXCEPT !.faults = @ + 1 ]
      /\ UNCHANGED << snap, rejections, approvals, tools, version, sopJob, late, triggered >>
  BY DEF Throw
<1>2. RowOK'
  BY <1>1, TransitionStep DEF Status, Meta
<1>3. ThreadsOK'
  BY <1>1, FinishStep DEF approvals
<1>4. ApprovalsOK' /\ ToolsOK' /\ SurroundingsOK'
  BY <1>1, ApprovalsUnchanged, ToolsUnchanged, UsedStep DEF approvals, tools
<1>5. QED
  BY <1>2, <1>3, <1>4, TypePartsPrimed

LEMMA StartTyped ==
  ASSUME TypeOK, NEW t \in Thread, Start(t) \/ StartRefused(t)
  PROVE  TypeOK'
<1> DEFINE l == [ Idle EXCEPT !.pc = "load" ]
<1>1. th' = [ th EXCEPT ![t] = l ] \/ UNCHANGED th
  BY DEF Start, StartRefused, Become
<1>2. /\ triggered' \in { "no", "started", "refused" }
      /\ UNCHANGED << approvals, tools, version, sopJob, late, used >>
  BY DEF Start, StartRefused
<1>3. Sound(l, Len(pauses))
  BY FreshSound
<1>4. ThreadsOK'
  <2> HIDE DEF l
  <2>1. QED
    BY <1>1, <1>2, <1>3, LocalStep, ThreadsUnchanged DEF approvals
<1>5. RowOK'
  <2>1. CASE Start(t)
    BY <2>1, MetaTyped, TransitionStep DEF Start, Status
  <2>2. CASE StartRefused(t)
    BY <2>2, RowUnchanged DEF StartRefused, row
  <2>3. QED
    BY <2>1, <2>2
<1>6. SurroundingsOK'
  BY <1>2, TypeParts DEF SurroundingsOK, UsedOK
<1>7. QED
  BY <1>2, <1>4, <1>5, <1>6, ApprovalsUnchanged, ToolsUnchanged, TypePartsPrimed
     DEF approvals, tools

\* Deciding a pause, or timing it out, leaves the rows as they were otherwise.
LEMMA PauseTaken ==
  ASSUME TypeOK, NEW p \in DOMAIN pauses, NEW st \in { "decided", "timeout" },
         NEW d \in Decision,
         pauses' = [ pauses EXCEPT ![p].st = st, ![p].decision = d ]
  PROVE  /\ pauses' \in Seq(Pause) /\ Len(pauses') = Len(pauses)
         /\ DOMAIN pauses' = DOMAIN pauses
         /\ RulingOf(p, d) \in Ruling
<1> DEFINE q == [ pauses[p] EXCEPT !.st = st, !.decision = d ]
<1>1. /\ pauses \in Seq(Pause) /\ Len(pauses) \in Nat /\ Len(pauses) <= MaxPauses
      /\ DOMAIN pauses = 1 .. Len(pauses) /\ pauses[p] \in Pause
  <2>1. ApprovalsOK
    BY TypeParts
  <2>2. QED
    BY <2>1, LenProperties, ElementOfSeq DEF ApprovalsOK
<1>2. q \in Pause /\ pauses[p].node \in Node
  BY <1>1 DEF Pause, Decision, NoDecision
<1>3. pauses' = [ pauses EXCEPT ![p] = q ]
  BY <1>1
<1> HIDE DEF q
<1>4. pauses' \in Seq(Pause) /\ Len(pauses') = Len(pauses)
  <2>1. p \in 1 .. Len(pauses)
    BY <1>1
  <2>2. /\ [ pauses EXCEPT ![p] = q ] \in Seq(Pause)
        /\ Len([ pauses EXCEPT ![p] = q ]) = Len(pauses)
    BY <1>1, <1>2, <2>1, ExceptSeq
  <2>3. QED
    BY <1>3, <2>2
<1>5. DOMAIN pauses' = DOMAIN pauses
  BY <1>3
<1>6. RulingOf(p, d) \in Ruling
  <2>1. p \in PauseId
    BY <1>1, BoundAssumption DEF PauseId
  <2>2. QED
    BY <1>2, <2>1 DEF RulingOf, Ruling
<1>7. QED
  BY <1>4, <1>5, <1>6

LEMMA DecideTyped ==
  ASSUME TypeOK, NEW t \in Thread, Decide(t)
  PROVE  TypeOK'
<1>1. PICK p \in DOMAIN pauses, d \in { "approved", "rejected" } :
        /\ pauses' = [ pauses EXCEPT ![p].st = "decided", ![p].decision = d ]
        /\ jobs' = jobs \ { p }
        /\ Become(t, [ Idle EXCEPT !.pc = "resume", !.ruling = RulingOf(p, d) ])
  BY DEF Decide
<1>2. d \in Decision
  BY DEF Decision
<1>3. /\ pauses' \in Seq(Pause) /\ Len(pauses') = Len(pauses) /\ DOMAIN pauses' = DOMAIN pauses
      /\ RulingOf(p, d) \in Ruling
  BY <1>1, <1>2, PauseTaken
<1> DEFINE l == [ Idle EXCEPT !.pc = "resume", !.ruling = RulingOf(p, d) ]
<1>4. Sound(l, Len(pauses)) /\ th' = [ th EXCEPT ![t] = l ]
  BY <1>1, <1>3, FreshSound DEF Become
<1> HIDE DEF l
<1>5. ThreadsOK'
  BY <1>3, <1>4, LocalStep
<1>6. UNCHANGED << row, applied, tools, surroundings, stale, meta >>
  BY DEF Decide
<1>7. ApprovalsOK'
  BY <1>1, <1>3, <1>6, TypeParts DEF ApprovalsOK
<1>8. QED
  BY <1>5, <1>6, <1>7, RowUnchanged, ToolsUnchanged, SurroundingsUnchanged, TypePartsPrimed
     DEF row, tools, surroundings

LEMMA ResumeLoadTyped ==
  ASSUME TypeOK, NEW t \in Thread, ResumeLoad(t)
  PROVE  TypeOK'
<1> DEFINE r == th[t].ruling
           s == RuleNode(snap, r)
           place == IF CountsAsRejection(r) THEN "reject" ELSE "retake"
           l == [ th[t] EXCEPT !.mem = s, !.counted = rejections, !.pc = place ]
<1>1. /\ Sound(th[t], Len(pauses)) /\ th[t] \in ThreadState /\ snap \in Snapshot
      /\ rejections \in Nat /\ th \in [ Thread -> ThreadState ]
  BY HandlerFacts
<1>2. /\ th[t].pc = "resume" /\ th' = [ th EXCEPT ![t] = l ]
      /\ UNCHANGED << row, approvals, tools, surroundings, stale, meta >>
  BY <1>1 DEF ResumeLoad, At
<1>3. r \in Ruling
  BY <1>1, <1>2 DEF Sound, InResume
<1>4. s \in Snapshot
  <2>1. r.node \in Node
    BY <1>3 DEF Ruling
  <2>2. QED
    BY <1>1, <1>3, <2>1, SnapshotUpdates
<1>5. place \in { "reject", "retake" }
  OBVIOUS
<1> HIDE DEF s, place
<1>6. l \in ThreadState /\ l.pc = place /\ l.ruling = r
  BY <1>1, <1>4, <1>5 DEF ThreadState, Place, InResume
<1> HIDE DEF l, r
<1>7. Sound(l, Len(pauses))
  BY <1>3, <1>5, <1>6 DEF Sound
<1>8. QED
  BY <1>2, <1>7, MovingStep

LEMMA RejectTyped ==
  ASSUME TypeOK, NEW t \in Thread, RejectLimit(t) \/ CountRejection(t)
  PROVE  TypeOK'
<1>1. /\ Sound(th[t], Len(pauses)) /\ th[t] \in ThreadState /\ status \in Status
      /\ rejections \in Nat /\ meta \in Meta /\ snap \in Snapshot
  BY HandlerFacts, MetaTyped
<1>2. th[t].counted + 1 \in Nat
  BY <1>1 DEF ThreadState
<1>3. CASE RejectLimit(t)
  <2>1. status' \in Status /\ stale' \in BOOLEAN
    BY <1>1, <1>3 DEF RejectLimit, Transition, AfterTransition, Status
  <2>2. RowOK'
    BY <1>1, <1>2, <1>3, <2>1 DEF RejectLimit, RowOK
  <2>3. ThreadsOK'
    BY <1>3, FinishStep DEF RejectLimit, approvals
  <2>4. QED
    BY <1>3, <2>2, <2>3, EngineStep DEF RejectLimit
<1>4. CASE CountRejection(t)
  <2> DEFINE l == [ th[t] EXCEPT !.pc = "retake" ]
  <2>1. th' = [ th EXCEPT ![t] = l ]
    BY <1>4, HandlerFacts DEF CountRejection, Goto
  <2>2. Sound(l, Len(pauses))
    <3>1. th[t].ruling \in Ruling
      BY <1>1, <1>4 DEF CountRejection, At, Sound, InResume
    <3>2. QED
      BY <1>1, <3>1, SoundGoto
  <2> HIDE DEF l
  <2>3. ThreadsOK'
    BY <1>4, <2>1, <2>2, LocalStep DEF CountRejection, approvals
  <2>4. RowOK'
    BY <1>2, <1>4, TypeParts DEF CountRejection, RowOK
  <2>5. QED
    BY <1>4, <2>3, <2>4, EngineStep DEF CountRejection
<1>5. QED
  BY <1>3, <1>4

LEMMA RetakeTyped ==
  ASSUME TypeOK, NEW t \in Thread, Retake(t)
  PROVE  TypeOK'
<1> DEFINE l == [ th[t] EXCEPT !.pc = "resumeSave" ]
<1>1. /\ Sound(th[t], Len(pauses)) /\ th[t].ruling \in Ruling
  BY HandlerFacts DEF Retake, At, Sound, InResume
<1>2. /\ Transition("paused_for_human", "running")
      /\ UNCHANGED << snap, rejections, pauses, jobs, tools, surroundings, meta >>
      /\ \/ th' = [ th EXCEPT ![t] = l ] /\ applied' = applied \cup { th[t].ruling.pause }
         \/ Finish(t) /\ UNCHANGED applied
  BY HandlerFacts DEF Retake, Goto
<1>3. Sound(l, Len(pauses))
  BY <1>1, SoundGoto
<1>4. ThreadsOK'
  <2> HIDE DEF l
  <2>1. QED
    BY <1>2, <1>3, LocalStep, FinishStep
<1>5. ApprovalsOK'
  <2>1. th[t].ruling.pause \in PauseId
    BY <1>1 DEF Ruling
  <2>2. QED
    BY <1>2, <2>1, TypeParts DEF ApprovalsOK
<1>6. RowOK'
  BY <1>2, MetaTyped, TransitionStep DEF Status
<1>7. QED
  BY <1>2, <1>4, <1>5, <1>6, ToolsUnchanged, SurroundingsUnchanged, TypePartsPrimed
     DEF tools, surroundings

LEMMA ResumeSaveTyped ==
  ASSUME TypeOK, NEW t \in Thread, ResumeSave(t)
  PROVE  TypeOK'
<1> DEFINE l == [ th[t] EXCEPT !.pc = "route" ]
<1>1. /\ Sound(th[t], Len(pauses)) /\ th[t].mem \in Snapshot /\ th[t].ruling \in Ruling
  BY HandlerFacts DEF ResumeSave, At, Sound, InResume
<1>2. /\ Persist(th[t].mem) /\ th' = [ th EXCEPT ![t] = l ]
      /\ UNCHANGED << status, rejections, approvals, tools, surroundings, meta >>
  BY HandlerFacts DEF ResumeSave, Goto
<1>3. Sound(l, Len(pauses))
  BY <1>1, SoundGoto
<1> HIDE DEF l
<1>4. QED
  BY <1>1, <1>2, <1>3, SavingStep

\* The node a target names, if any.
LEMMA AsNodeTyped ==
  ASSUME NEW target \in Target
  PROVE  AsNode(target) \in Node \cup { NoNode }
BY DEF AsNode, FalsyTarget, Target

LEMMA RouteTyped ==
  ASSUME TypeOK, NEW t \in Thread, Route(t)
  PROVE  TypeOK'
<1> DEFINE def == Definitions[version]
           r == th[t].ruling
           target == TargetOf(def, r.node, r.decision)
           s == [ th[t].mem EXCEPT !.cur = AsNode(target) ]
           l == [ Idle EXCEPT !.pc = "load" ]
<1>1. /\ Sound(th[t], Len(pauses)) /\ th[t].mem \in Snapshot /\ r \in Ruling
      /\ def \in Definition
  BY HandlerFacts DEF Route, At, Sound, InResume
<1>2. UNCHANGED << rejections, approvals, tools, surroundings, meta >>
  BY DEF Route
<1>3. CASE Finish(t) /\ UNCHANGED << status, stale, snap >>
  <2>1. RowOK'
    BY <1>2, <1>3, RowUnchanged
  <2>2. ThreadsOK'
    BY <1>2, <1>3, FinishStep DEF approvals
  <2>3. QED
    BY <1>2, <2>1, <2>2, EngineStep
<1>4. CASE Transition("running", "completed") /\ Finish(t) /\ UNCHANGED snap
  BY <1>2, <1>4, MetaTyped, EndingStep DEF Status
<1>5. CASE Persist(s) /\ Become(t, l) /\ UNCHANGED status
  <2>1. s \in Snapshot
    <3>1. r.node \in Node
      BY <1>1 DEF Ruling
    <3>2. AsNode(target) \in Node \cup { NoNode }
      BY <1>1, <3>1, TargetTyped, AsNodeTyped
    <3> HIDE DEF target
    <3>3. QED
      BY <1>1, <3>1, <3>2, SnapshotUpdates
  <2>2. Sound(l, Len(pauses)) /\ th' = [ th EXCEPT ![t] = l ]
    BY <1>5, FreshSound DEF Become
  <2> HIDE DEF s, l
  <2>3. QED
    BY <1>2, <1>5, <2>1, <2>2, SavingStep
<1>6. QED
  BY <1>3, <1>4, <1>5 DEF Route

LEMMA ToolCallbackTyped ==
  ASSUME TypeOK, NEW t \in Thread, ToolCallback(t)
  PROVE  TypeOK'
<1>1. PICK k \in TaskId : /\ pending[k] > 0
                          /\ pending' = [ pending EXCEPT ![k] = @ - 1 ]
                          /\ Become(t, [ Idle EXCEPT !.pc = "count", !.task = k ])
  BY DEF ToolCallback
<1>2. UNCHANGED << row, approvals, tasks, calls, surroundings, stale, meta >>
  BY DEF ToolCallback
<1> DEFINE l == [ Idle EXCEPT !.pc = "count", !.task = k ]
<1>3. Sound(l, Len(pauses)) /\ th' = [ th EXCEPT ![t] = l ]
  BY <1>1, FreshSound DEF Become
<1> HIDE DEF l
<1>4. ThreadsOK'
  BY <1>2, <1>3, LocalStep DEF approvals
<1>5. ToolsOK'
  BY <1>1, <1>2, CallEnds
<1>6. QED
  BY <1>2, <1>4, <1>5, RowUnchanged, ApprovalsUnchanged, SurroundingsUnchanged, TypePartsPrimed
     DEF row, approvals, surroundings

LEMMA WakingTyped ==
  ASSUME TypeOK, NEW t \in Thread, Count(t) \/ WakeLoad(t)
  PROVE  TypeOK'
<1>1. UNCHANGED << row, approvals, tools, surroundings, stale, meta >>
  BY DEF Count, WakeLoad
<1>2. /\ Sound(th[t], Len(pauses)) /\ snap \in Snapshot /\ Sound(Idle, Len(pauses))
      /\ th \in [ Thread -> ThreadState ]
  BY HandlerFacts, IdleSound
<1>3. CASE Finish(t)
  <2>1. th' = [ th EXCEPT ![t] = Idle ]
    BY <1>3 DEF Finish, Become
  <2>2. QED
    BY <1>1, <1>2, <2>1, MovingStep
<1>4. CASE Goto(t, "wake")
  <2> DEFINE l == [ th[t] EXCEPT !.pc = "wake" ]
  <2>1. th' = [ th EXCEPT ![t] = l ]
    BY <1>2, <1>4 DEF Goto
  <2>2. Sound(l, Len(pauses))
    BY <1>2, SoundGoto DEF InResume
  <2> HIDE DEF l
  <2>3. QED
    BY <1>1, <2>1, <2>2, MovingStep
<1>5. CASE /\ snap.cur # NoNode
           /\ th' = [ th EXCEPT ![t].pc = "wakeCas", ![t].mem = snap, ![t].at = snap.cur ]
  <2> DEFINE l == [ th[t] EXCEPT !.pc = "wakeCas", !.mem = snap, !.at = snap.cur ]
  <2>1. th' = [ th EXCEPT ![t] = l ]
    BY <1>2, <1>5
  <2>2. snap.cur \in Node
    BY <1>2, <1>5 DEF Snapshot
  <2>3. Sound(l, Len(pauses))
    BY <1>2, <2>2, SoundMoves
  <2> HIDE DEF l
  <2>4. QED
    BY <1>1, <2>1, <2>3, MovingStep
<1>6. QED
  BY <1>3, <1>4, <1>5 DEF Count, WakeLoad

LEMMA WakeCasTyped ==
  ASSUME TypeOK, NEW t \in Thread, WakeCas(t)
  PROVE  TypeOK'
<1>1. /\ Sound(th[t], Len(pauses)) /\ th[t] \in ThreadState /\ version \in DOMAIN Definitions
      /\ th[t].pc = "wakeCas" /\ th \in [ Thread -> ThreadState ]
  BY HandlerFacts DEF WakeCas, At
<1>2. /\ Transition("paused_for_tool", "running")
      /\ UNCHANGED << snap, rejections, approvals, tools, surroundings, meta >>
  BY DEF WakeCas
<1>3. CASE Finish(t)
  BY <1>2, <1>3, MetaTyped, EndingStep DEF Status
<1>4. CASE th' = [ th EXCEPT ![t].pc = "redo", ![t].mode = "wake", ![t].ver = version ]
  <2> DEFINE l == [ th[t] EXCEPT !.pc = "redo", !.mode = "wake", !.ver = version ]
  <2>1. th' = [ th EXCEPT ![t] = l ]
    BY <1>1, <1>4
  <2>2. th[t].at \in Node
    BY <1>1 DEF Sound
  <2>3. l \in ThreadState /\ l.pc = "redo" /\ l.at = th[t].at
    BY <1>1 DEF ThreadState, Place, InToolResume
  <2> HIDE DEF l
  <2>4. Sound(l, Len(pauses))
    BY <2>2, <2>3 DEF Sound, InResume
  <2>5. ThreadsOK'
    BY <1>2, <2>1, <2>4, LocalStep DEF approvals
  <2>6. RowOK'
    BY <1>2, MetaTyped, TransitionStep DEF Status
  <2>7. QED
    BY <1>2, <2>5, <2>6, EngineStep
<1>5. QED
  BY <1>3, <1>4 DEF WakeCas

LEMMA RedoDoneTyped ==
  ASSUME TypeOK, NEW t \in Thread, RedoDone(t)
  PROVE  TypeOK'
<1> DEFINE n == th[t].at
<1>1. PICK out \in Outputs(DefOf(t), n, th[t].mem) :
       LET target == TargetOf(DefOf(t), n, out)
           s == FinishResumed(Decided(t, out), n)
       IN  IF target = NullTarget
           THEN /\ Persist(s)
                /\ th' = [ th EXCEPT ![t].mem = s, ![t].pc = "complete" ]
           ELSE /\ Persist([ s EXCEPT !.cur = AsNode(target) ])
                /\ Become(t, [ Idle EXCEPT !.pc = "load" ])
  BY DEF RedoDone
<1> DEFINE target == TargetOf(DefOf(t), n, out)
           s == FinishResumed(Decided(t, out), n)
           s2 == [ s EXCEPT !.cur = AsNode(target) ]
<1>2. /\ Sound(th[t], Len(pauses)) /\ DefOf(t) \in Definition
      /\ th \in [ Thread -> ThreadState ]
  BY HandlerFacts
<1>3. n \in Node
  BY <1>2 DEF RedoDone, At, Sound
<1>4. s \in Snapshot
  BY <1>3, DecidedTyped, SnapshotUpdates
<1>5. UNCHANGED << status, rejections, approvals, tools, surroundings, meta >>
  BY DEF RedoDone
<1>6. CASE target = NullTarget
  <2>1. Persist(s) /\ th' = [ th EXCEPT ![t] = [ th[t] EXCEPT !.mem = s, !.pc = "complete" ] ]
    BY <1>1, <1>2, <1>6
  <2> HIDE DEF s
  <2>2. Sound([ th[t] EXCEPT !.mem = s, !.pc = "complete" ], Len(pauses))
    BY <1>2, <1>3, <1>4, SoundMoves
  <2>3. QED
    BY <1>4, <1>5, <2>1, <2>2, SavingStep
<1>7. CASE target # NullTarget
  <2> DEFINE l == [ Idle EXCEPT !.pc = "load" ]
  <2>1. Persist(s2) /\ th' = [ th EXCEPT ![t] = l ]
    BY <1>1, <1>7 DEF Become
  <2>2. Sound(l, Len(pauses))
    BY FreshSound
  <2>3. s2 \in Snapshot
    <3>1. AsNode(target) \in Node \cup { NoNode }
      BY <1>2, <1>3, TargetTyped, AsNodeTyped
    <3> HIDE DEF s, target
    <3>2. QED
      BY <1>3, <1>4, <3>1, SnapshotUpdates
  <2> HIDE DEF l, s2
  <2>4. QED
    BY <1>5, <2>1, <2>2, <2>3, SavingStep
<1>8. QED
  BY <1>6, <1>7

\* A timeout takes a waiting pause or changes nothing.
LEMMA TakeTimeoutTyped ==
  ASSUME TypeOK, NEW t \in Thread, NEW p \in DOMAIN pauses, TakeTimeout(t, p)
  PROVE  /\ pauses' \in Seq(Pause) /\ Len(pauses') = Len(pauses)
         /\ DOMAIN pauses' = DOMAIN pauses /\ ThreadsOK'
<1>1. pauses \in Seq(Pause)
  BY HandlerFacts
<1>2. CASE pauses[p].st = "waiting"
  <2> DEFINE l == [ Idle EXCEPT !.pc = "timeoutRead", !.ruling = RulingOf(p, TimeoutDecision) ]
  <2>1. /\ pauses' = [ pauses EXCEPT ![p].st = "timeout", ![p].decision = TimeoutDecision ]
        /\ th' = [ th EXCEPT ![t] = l ]
    BY <1>2 DEF TakeTimeout, Become
  <2>2. TimeoutDecision \in Decision
    BY DEF TimeoutDecision, Decision
  <2>3. /\ pauses' \in Seq(Pause) /\ Len(pauses') = Len(pauses)
        /\ DOMAIN pauses' = DOMAIN pauses /\ RulingOf(p, TimeoutDecision) \in Ruling
    <3> HIDE DEF l
    <3>1. QED
      BY <2>1, <2>2, PauseTaken
  <2>4. Sound(l, Len(pauses))
    BY <2>3, FreshSound
  <2> HIDE DEF l
  <2>5. QED
    BY <2>1, <2>3, <2>4, LocalStep
<1>3. CASE pauses[p].st # "waiting"
  <2>1. UNCHANGED << pauses, th >>
    BY <1>3 DEF TakeTimeout
  <2>2. QED
    BY <1>1, <2>1, ThreadsUnchanged
<1>4. QED
  BY <1>2, <1>3

LEMMA NodeTimeoutTyped ==
  ASSUME TypeOK, NEW t \in Thread, NodeTimeout(t)
  PROVE  TypeOK'
<1>1. PICK p \in jobs : TakeTimeout(t, p) /\ jobs' = jobs \ { p }
  BY DEF NodeTimeout
<1>2. UNCHANGED << row, applied, tools, surroundings, stale, meta >>
  BY DEF NodeTimeout
<1>3. ApprovalsOK
  BY TypeParts
<1>4. p \in DOMAIN pauses
  BY <1>3 DEF ApprovalsOK
<1>5. /\ pauses' \in Seq(Pause) /\ Len(pauses') = Len(pauses)
      /\ DOMAIN pauses' = DOMAIN pauses /\ ThreadsOK'
  BY <1>1, <1>4, TakeTimeoutTyped
<1>6. ApprovalsOK'
  BY <1>1, <1>2, <1>3, <1>5 DEF ApprovalsOK
<1>7. QED
  BY <1>2, <1>5, <1>6, RowUnchanged, ToolsUnchanged, SurroundingsUnchanged, TypePartsPrimed
     DEF row, tools, surroundings

LEMMA TimeoutReadTyped ==
  ASSUME TypeOK, NEW t \in Thread, TimeoutRead(t)
  PROVE  TypeOK'
<1>1. UNCHANGED << row, approvals, tools, surroundings, stale, meta >>
  BY DEF TimeoutRead
<1>2. /\ Sound(th[t], Len(pauses)) /\ th[t].ruling \in Ruling /\ status \in Status
      /\ th \in [ Thread -> ThreadState ]
  BY HandlerFacts DEF TimeoutRead, At, Sound
<1>3. CASE Goto(t, "resume")
  <2> DEFINE l == [ th[t] EXCEPT !.pc = "resume" ]
  <2>1. th' = [ th EXCEPT ![t] = l ] /\ Sound(l, Len(pauses))
    BY <1>2, <1>3, SoundGoto DEF Goto
  <2> HIDE DEF l
  <2>2. QED
    BY <1>1, <2>1, MovingStep
<1>4. CASE Become(t, [ Idle EXCEPT !.pc = "timeoutEnd", !.seen = status ])
  <2> DEFINE l == [ Idle EXCEPT !.pc = "timeoutEnd", !.seen = status ]
  <2>1. th' = [ th EXCEPT ![t] = l ] /\ Sound(l, Len(pauses))
    BY <1>2, <1>4, FreshSound DEF Become
  <2> HIDE DEF l
  <2>2. QED
    BY <1>1, <2>1, MovingStep
<1>5. QED
  BY <1>3, <1>4 DEF TimeoutRead

LEMMA SopTimeoutTyped ==
  ASSUME TypeOK, NEW t \in Thread, SopTimeout(t)
  PROVE  TypeOK'
<1> DEFINE l == [ Idle EXCEPT !.pc = "timeoutEnd", !.seen = status ]
<1>1. /\ UNCHANGED << row, approvals, tools, version, late, triggered, used, stale, meta >>
      /\ sopJob' = FALSE /\ (UNCHANGED th \/ th' = [ th EXCEPT ![t] = l ])
  BY DEF SopTimeout, Become
<1>2. Sound(l, Len(pauses))
  BY HandlerFacts, FreshSound
<1>3. ThreadsOK'
  <2> HIDE DEF l
  <2>1. QED
    BY <1>1, <1>2, LocalStep, ThreadsUnchanged DEF approvals
<1>4. SurroundingsOK'
  BY <1>1, TypeParts DEF SurroundingsOK, UsedOK
<1>5. QED
  BY <1>1, <1>3, <1>4, RowUnchanged, ApprovalsUnchanged, ToolsUnchanged, TypePartsPrimed
     DEF row, approvals, tools

LEMMA CancelTyped ==
  ASSUME TypeOK, NEW t \in Thread, CancelRead(t) \/ Cancel(t)
  PROVE  TypeOK'
<1>1. CASE CancelRead(t)
  <2> DEFINE l == [ Idle EXCEPT !.pc = "cancel", !.seen = status ]
  <2>1. /\ th' = [ th EXCEPT ![t] = l ] /\ used' = [ used EXCEPT !.cancels = @ + 1 ]
        /\ UNCHANGED << row, approvals, tools, version, sopJob, late, triggered, stale, meta >>
    BY <1>1 DEF CancelRead, Become
  <2>2. Sound(l, Len(pauses))
    BY HandlerFacts, FreshSound
  <2>3. ThreadsOK'
    <3> HIDE DEF l
    <3>1. QED
      BY <2>1, <2>2, LocalStep DEF approvals
  <2>4. SurroundingsOK'
    BY <2>1, UsedStep
  <2>5. QED
    BY <2>1, <2>3, <2>4, RowUnchanged, ApprovalsUnchanged, ToolsUnchanged, TypePartsPrimed
       DEF row, approvals, tools
<1>2. CASE Cancel(t)
  <2>1. /\ Transition(th[t].seen, "cancelled") /\ Finish(t)
        /\ jobs' \subseteq jobs /\ meta' \in { meta, "cancelled" }
        /\ UNCHANGED << snap, rejections, pauses, applied, tools, surroundings >>
    BY <1>2 DEF Cancel
  <2>2. RowOK'
    <3>1. meta' \in Meta
      BY <2>1, MetaTyped DEF Meta
    <3>2. QED
      BY <2>1, <3>1, TransitionStep DEF Status
  <2>3. ThreadsOK'
    BY <2>1, FinishStep
  <2>4. ApprovalsOK'
    BY <2>1, TypeParts DEF ApprovalsOK
  <2>5. QED
    BY <2>1, <2>2, <2>3, <2>4, ToolsUnchanged, SurroundingsUnchanged, TypePartsPrimed
       DEF tools, surroundings
<1>3. QED
  BY <1>1, <1>2

\* A recovery that hands the row to a handler ...
LEMMA RecoveringStep ==
  ASSUME TypeOK, NEW t \in Thread, Recovers(t), NEW l, Sound(l, Len(pauses)),
         th' = [ th EXCEPT ![t] = l ],
         UNCHANGED << row, approvals, tools, version, sopJob, late, triggered, stale, meta >>
  PROVE  TypeOK'
<1>1. ThreadsOK'
  BY LocalStep DEF approvals
<1>2. SurroundingsOK'
  BY UsedStep DEF Recovers
<1>3. QED
  BY <1>1, <1>2, RowUnchanged, ApprovalsUnchanged, ToolsUnchanged, TypePartsPrimed
     DEF row, approvals, tools

\* ... and one that ends it.
LEMMA RecoveredStep ==
  ASSUME TypeOK, NEW t \in Thread, Recovers(t), NEW from, NEW to \in Status,
         Transition(from, to),
         UNCHANGED << th, snap, rejections, approvals, tools, version, sopJob, late, triggered,
                      meta >>
  PROVE  TypeOK'
<1>1. RowOK'
  BY MetaTyped, TransitionStep
<1>2. ThreadsOK'
  BY ThreadsUnchanged DEF approvals
<1>3. SurroundingsOK'
  BY UsedStep DEF Recovers
<1>4. QED
  BY <1>1, <1>2, <1>3, ApprovalsUnchanged, ToolsUnchanged, TypePartsPrimed
     DEF approvals, tools

\* A decided pause holds a ruling of the approver.
LEMMA RulingTyped ==
  ASSUME TypeOK, NEW p \in DOMAIN pauses, NEW d \in Decision
  PROVE  RulingOf(p, d) \in Ruling
<1>1. /\ DOMAIN pauses = 1 .. Len(pauses) /\ Len(pauses) <= MaxPauses /\ Len(pauses) \in Nat
      /\ pauses[p] \in Pause
  <2>1. ApprovalsOK
    BY TypeParts
  <2>2. QED
    BY <2>1, LenProperties, ElementOfSeq DEF ApprovalsOK
<1>2. p \in PauseId /\ pauses[p].node \in Node
  BY <1>1, BoundAssumption DEF PauseId, Pause
<1>3. QED
  BY <1>2 DEF RulingOf, Ruling

LEMMA RecoverTyped ==
  ASSUME TypeOK, NEW t \in Thread, Recover(t)
  PROVE  TypeOK'
<1> DEFINE load == [ Idle EXCEPT !.pc = "load" ]
<1>1. Sound(load, Len(pauses)) /\ \A p \in DOMAIN pauses : pauses[p] \in Pause
  BY HandlerFacts, FreshSound
<1>2. CASE RecoverRunning(t)
  <2>1. /\ Recovers(t) /\ th' = [ th EXCEPT ![t] = load ]
        /\ UNCHANGED << row, approvals, tools, version, sopJob, late, triggered, stale, meta >>
    BY <1>2 DEF RecoverRunning, Become
  <2> HIDE DEF load
  <2>2. QED
    BY <1>1, <2>1, RecoveringStep
<1>3. CASE RecoverWaiting(t)
  <2>1. PICK p \in PausesIn("waiting") :
          \/ jobs' = jobs \cup { p } /\ UNCHANGED << pauses, th >>
          \/ TakeTimeout(t, p) /\ UNCHANGED jobs
    BY <1>3 DEF RecoverWaiting
  <2>2. /\ Recovers(t)
        /\ UNCHANGED << row, applied, tools, version, sopJob, late, triggered, stale, meta >>
    BY <1>3 DEF RecoverWaiting
  <2>3. p \in DOMAIN pauses
    BY DEF PausesIn
  <2>4. ApprovalsOK
    BY TypeParts
  <2>5. ApprovalsOK' /\ ThreadsOK'
    <3>1. CASE jobs' = jobs \cup { p } /\ UNCHANGED << pauses, th >>
      <4>1. ThreadsOK'
        BY <3>1, ThreadsUnchanged
      <4>2. ApprovalsOK'
        BY <2>2, <2>3, <2>4, <3>1 DEF ApprovalsOK
      <4>3. QED
        BY <4>1, <4>2
    <3>2. CASE TakeTimeout(t, p) /\ UNCHANGED jobs
      <4>1. /\ pauses' \in Seq(Pause) /\ Len(pauses') = Len(pauses)
            /\ DOMAIN pauses' = DOMAIN pauses /\ ThreadsOK'
        BY <2>3, <3>2, TakeTimeoutTyped
      <4>2. QED
        BY <2>2, <2>4, <3>2, <4>1 DEF ApprovalsOK
    <3>3. QED
      BY <2>1, <3>1, <3>2
  <2>6. SurroundingsOK'
    BY <2>2, UsedStep DEF Recovers
  <2>7. QED
    BY <2>2, <2>5, <2>6, RowUnchanged, ToolsUnchanged, TypePartsPrimed DEF row, tools
<1>4. CASE RecoverDecided(t)
  <2>1. PICK p \in PausesIn("decided") :
          Become(t, [ Idle EXCEPT !.pc = "resume", !.ruling = RulingOf(p, pauses[p].decision) ])
    BY <1>4 DEF RecoverDecided
  <2>2. p \in DOMAIN pauses /\ pauses[p].decision \in Decision
    BY <1>1 DEF PausesIn, Pause
  <2>3. RulingOf(p, pauses[p].decision) \in Ruling
    BY <2>2, RulingTyped
  <2> DEFINE l == [ Idle EXCEPT !.pc = "resume", !.ruling = RulingOf(p, pauses[p].decision) ]
  <2>4. Sound(l, Len(pauses)) /\ th' = [ th EXCEPT ![t] = l ]
    BY <2>1, <2>3, FreshSound DEF Become
  <2>5. /\ Recovers(t)
        /\ UNCHANGED << row, approvals, tools, version, sopJob, late, triggered, stale, meta >>
    BY <1>4 DEF RecoverDecided
  <2> HIDE DEF l
  <2>6. QED
    BY <2>4, <2>5, RecoveringStep
<1>5. CASE RecoverLost(t)
  <2>1. /\ Recovers(t) /\ Transition("paused_for_human", "failed")
        /\ UNCHANGED << th, snap, rejections, approvals, tools, version, sopJob, late, triggered,
                        meta >>
    BY <1>5 DEF RecoverLost
  <2>2. QED
    BY <2>1, RecoveredStep DEF Status
<1>6. CASE RecoverError(t)
  <2>1. /\ Recovers(t)
        /\ UNCHANGED << snap, rejections, approvals, tools, version, sopJob, late, triggered,
                        meta >>
        /\ \/ Transition("error", "timed_out") /\ th' = th
           \/ th' = [ th EXCEPT ![t] = load ] /\ UNCHANGED << status, stale >>
           \/ Transition("error", "failed") /\ th' = th
    BY <1>6 DEF RecoverError, Become
  <2> HIDE DEF load
  <2>2. CASE \E to \in { "timed_out", "failed" } : Transition("error", to) /\ th' = th
    BY <2>1, <2>2, RecoveredStep DEF Status
  <2>3. CASE th' = [ th EXCEPT ![t] = load ] /\ UNCHANGED << status, stale >>
    BY <1>1, <2>1, <2>3, RecoveringStep DEF row
  <2>4. QED
    BY <2>1, <2>2, <2>3
<1>7. QED
  BY <1>2, <1>3, <1>4, <1>5, <1>6 DEF Recover

LEMMA SurroundingTyped ==
  ASSUME TypeOK, \/ LimitPasses \/ RowAges \/ EditDefinition \/ UNCHANGED vars
                 \/ \E t \in Thread : Crash(t)
  PROVE  TypeOK'
<1>1. SurroundingsOK /\ RowOK
  BY TypeParts
<1>2. CASE LimitPasses \/ EditDefinition \/ UNCHANGED vars
  <2>1. UNCHANGED << row, approvals, tools, sopJob, triggered, used, stale, meta, th >>
    BY <1>2 DEF LimitPasses, EditDefinition, vars, row, approvals, tools
  <2>2. late' \in BOOLEAN /\ version' \in DOMAIN Definitions
    <3>1. DOMAIN Definitions = 1 .. Len(Definitions) /\ Len(Definitions) \in Nat
      BY DefinitionAssumption, LenProperties
    <3>2. late \in BOOLEAN /\ version \in DOMAIN Definitions
      BY <1>1 DEF SurroundingsOK
    <3>3. late' = TRUE \/ late' = late
      BY <1>2 DEF LimitPasses, EditDefinition, vars
    <3>4. version' = version \/ (version < Len(Definitions) /\ version' = version + 1)
      BY <1>2 DEF LimitPasses, EditDefinition, vars
    <3>5. version' \in DOMAIN Definitions
      BY <3>1, <3>2, <3>4
    <3>6. late' \in BOOLEAN
      BY <3>2, <3>3
    <3>7. QED
      BY <3>5, <3>6
  <2>3. SurroundingsOK'
    BY <1>1, <2>1, <2>2 DEF SurroundingsOK, UsedOK
  <2>4. ThreadsOK'
    BY <2>1, ThreadsUnchanged DEF approvals
  <2>5. QED
    BY <2>1, <2>3, <2>4, RowUnchanged, ApprovalsUnchanged, ToolsUnchanged, TypePartsPrimed
       DEF row, approvals, tools
<1>3. CASE RowAges
  <2>1. stale' = TRUE /\ UNCHANGED << row, approvals, tools, surroundings, meta, th >>
    BY <1>3 DEF RowAges
  <2>2. RowOK'
    BY <1>1, <2>1 DEF RowOK, row
  <2>3. ThreadsOK'
    BY <2>1, ThreadsUnchanged DEF approvals
  <2>4. QED
    BY <2>1, <2>2, <2>3, EngineStep
<1>4. ASSUME NEW t \in Thread, Crash(t)
      PROVE  TypeOK'
  <2>1. /\ used' = [ used EXCEPT !.crashes = @ + 1 ] /\ Finish(t)
        /\ UNCHANGED << row, approvals, tools, version, sopJob, late, triggered, stale, meta >>
    BY <1>4 DEF Crash
  <2>2. ThreadsOK'
    BY <2>1, FinishStep DEF approvals
  <2>3. SurroundingsOK'
    BY <2>1, UsedStep
  <2>4. QED
    BY <2>1, <2>2, <2>3, RowUnchanged, ApprovalsUnchanged, ToolsUnchanged, TypePartsPrimed
       DEF row, approvals, tools
<1>5. QED
  BY <1>2, <1>3, <1>4

LEMMA InitTyped == Init => TypeOK
<1> SUFFICES ASSUME Init PROVE TypeOK
  OBVIOUS
<1>1. /\ BlankSnapshot(NoNode) \in Snapshot /\ \A m : Sound(Idle, m) /\ Idle \in ThreadState
      /\ DOMAIN Definitions = 1 .. Len(Definitions) /\ Len(Definitions) \in Nat
      /\ Len(Definitions) > 0 /\ Definitions[1] \in Definition
  BY BlankTyped, IdleSound, DefinitionAssumption, LenProperties, ElementOfSeq
<1>2. RowOK
  BY <1>1 DEF Init, RowOK, Status, Meta
<1>3. ApprovalsOK
  <2>1. << >> \in Seq(Pause) /\ Len(<< >>) = 0
    BY EmptySeq
  <2>2. QED
    BY <2>1, BoundAssumption DEF Init, ApprovalsOK
<1>4. ToolsOK
  BY BoundAssumption DEF Init, ToolsOK
<1>5. SurroundingsOK
  <2>1. version \in DOMAIN Definitions
    BY <1>1 DEF Init
  <2>2. sopJob \in BOOLEAN
    BY <1>1 DEF Init, Definition
  <2>3. UsedOK
    BY DEF Init, UsedOK
  <2>4. QED
    BY <2>1, <2>2, <2>3 DEF Init, SurroundingsOK
<1>6. ThreadsOK
  BY <1>1 DEF Init, ThreadsOK
<1>7. QED
  BY <1>2, <1>3, <1>4, <1>5, <1>6, TypeParts

LEMMA StepTyped ==
  ASSUME TypeOK, [Next]_vars
  PROVE  TypeOK'
<1>1. ASSUME NEW t \in Thread, Proceed(t)
      PROVE  TypeOK'
  BY <1>1, EndingActions, LoadTyped, GateRerouteTyped, EnterTyped, NodeDoneTyped,
     NodeRetryTyped, NodeErrorExitTyped, AskHumanTyped, ArmTyped, DispatchTyped,
     DispatchFailedTyped, SuspendTyped, SaveTyped, GuardTyped, ResumeLoadTyped, RejectTyped,
     RetakeTyped, ResumeSaveTyped, RouteTyped, WakingTyped, WakeCasTyped, RedoDoneTyped,
     TimeoutReadTyped, CancelTyped
  DEF Proceed
<1>2. ASSUME NEW t \in Thread,
             \/ Start(t) \/ StartRefused(t) \/ Throw(t) \/ Decide(t) \/ ToolCallback(t)
             \/ NodeTimeout(t) \/ SopTimeout(t) \/ CancelRead(t) \/ Recover(t)
      PROVE  TypeOK'
  BY <1>2, StartTyped, ThrowTyped, DecideTyped, ToolCallbackTyped, NodeTimeoutTyped,
     SopTimeoutTyped, CancelTyped, RecoverTyped
<1>3. QED
  BY <1>1, <1>2, SurroundingTyped DEF Next

\* Every variable, and every local a handler's next step reads, has its type in
\* every state the engine can reach: no handler acts on a node, a ruling, a
\* pause or a task that it does not have, and no retry count passes its limit.
THEOREM TypeCorrect == Spec => []TypeOK
<1>1. Init => TypeOK
  BY InitTyped
<1>2. TypeOK /\ [Next]_vars => TypeOK'
  BY StepTyped
<1>3. QED
  BY <1>1, <1>2, PTL DEF Spec

-------------------------------------------------------------------------------
(* The rejection limit.                                                    *)

\* Only a rejection touches rejection_count.
LEMMA OnlyRejectionsCount ==
  ASSUME [Next]_vars
  PROVE  UNCHANGED rejections \/ \E t \in Thread : RejectLimit(t) \/ CountRejection(t)
<1>1. ASSUME NEW t \in Thread, Proceed(t)
      PROVE  UNCHANGED rejections \/ RejectLimit(t) \/ CountRejection(t)
  <2>1. CASE \/ Load(t) \/ LoadWithoutStartNode(t) \/ LimitReached(t) \/ NodeMissing(t)
             \/ GateReroute(t) \/ GateTerminate(t) \/ Enter(t) \/ NodeDone(t) \/ Complete(t)
             \/ NodeRetry(t) \/ NodeErrorExit(t) \/ NodeFatal(t)
    BY <2>1 DEF Load, LoadWithoutStartNode, LimitReached, NodeMissing, GateReroute,
       GateTerminate, Enter, NodeDone, Complete, NodeRetry, NodeErrorExit, NodeFatal, row
  <2>2. CASE \/ AskHuman(t) \/ Arm(t) \/ Dispatch(t) \/ DispatchFailed(t) \/ Suspend(t)
             \/ Save(t) \/ Guard(t) \/ ResumeLoad(t) \/ Retake(t) \/ ResumeSave(t) \/ Route(t)
    BY <2>2 DEF AskHuman, Arm, Dispatch, DispatchFailed, Suspend, Save, Guard, ResumeLoad,
       Retake, ResumeSave, Route, row
  <2>3. CASE \/ Count(t) \/ WakeLoad(t) \/ WakeCas(t) \/ RedoDone(t) \/ RedoFail(t)
             \/ TimeoutRead(t) \/ TimeoutEnd(t) \/ Cancel(t)
    BY <2>3 DEF Count, WakeLoad, WakeCas, RedoDone, RedoFail, TimeoutRead, TimeoutEnd,
       Cancel, row
  <2>4. QED
    BY <1>1, <2>1, <2>2, <2>3 DEF Proceed
<1>2. ASSUME NEW t \in Thread,
             \/ Start(t) \/ StartRefused(t) \/ Throw(t) \/ Decide(t) \/ ToolCallback(t)
             \/ NodeTimeout(t) \/ SopTimeout(t) \/ CancelRead(t) \/ Recover(t) \/ Crash(t)
      PROVE  UNCHANGED rejections
  BY <1>2 DEF Start, StartRefused, Throw, Decide, ToolCallback, NodeTimeout, SopTimeout,
     CancelRead, Recover, RecoverRunning, RecoverWaiting, RecoverDecided, RecoverLost,
     RecoverError, Crash, row
<1>3. CASE LimitPasses \/ RowAges \/ EditDefinition \/ UNCHANGED vars
  BY <1>3 DEF LimitPasses, RowAges, EditDefinition, vars, row
<1>4. QED
  BY <1>1, <1>2, <1>3 DEF Next

\* An execution that failed stays failed.
LEMMA FailedForGood ==
  ASSUME [Next]_vars, status = "failed"
  PROVE  status' = "failed"
<1>1. [Lifecycle!Next]_status
  BY StepMoves
<1>2. QED
  BY <1>1 DEF Lifecycle!Next, Lifecycle!Move, Lifecycle!ValidTransitions, Lifecycle!Status

\* An edit of the definition adds a version; nothing else does.
LEMMA OnlyEdits ==
  ASSUME [Next]_vars
  PROVE  UNCHANGED version \/ EditDefinition
<1>1. ASSUME NEW t \in Thread, Proceed(t)
      PROVE  UNCHANGED version
  <2>1. CASE \/ Load(t) \/ LoadWithoutStartNode(t) \/ LimitReached(t) \/ NodeMissing(t)
             \/ GateReroute(t) \/ GateTerminate(t) \/ Enter(t) \/ NodeDone(t) \/ Complete(t)
             \/ NodeRetry(t) \/ NodeErrorExit(t) \/ NodeFatal(t)
    BY <2>1 DEF Load, LoadWithoutStartNode, LimitReached, NodeMissing, GateReroute,
       GateTerminate, Enter, NodeDone, Complete, NodeRetry, NodeErrorExit, NodeFatal, surroundings
  <2>2. CASE \/ AskHuman(t) \/ Arm(t) \/ Dispatch(t) \/ DispatchFailed(t) \/ Suspend(t)
             \/ Save(t) \/ Guard(t) \/ ResumeLoad(t) \/ RejectLimit(t) \/ CountRejection(t)
             \/ Retake(t) \/ ResumeSave(t) \/ Route(t)
    BY <2>2 DEF AskHuman, Arm, Dispatch, DispatchFailed, Suspend, Save, Guard, ResumeLoad,
       RejectLimit, CountRejection, Retake, ResumeSave, Route, surroundings
  <2>3. CASE \/ Count(t) \/ WakeLoad(t) \/ WakeCas(t) \/ RedoDone(t) \/ RedoFail(t)
             \/ TimeoutRead(t) \/ TimeoutEnd(t) \/ Cancel(t)
    BY <2>3 DEF Count, WakeLoad, WakeCas, RedoDone, RedoFail, TimeoutRead, TimeoutEnd,
       Cancel, surroundings
  <2>4. QED
    BY <1>1, <2>1, <2>2, <2>3 DEF Proceed
<1>2. ASSUME NEW t \in Thread,
             \/ Start(t) \/ StartRefused(t) \/ Throw(t) \/ Decide(t) \/ ToolCallback(t)
             \/ NodeTimeout(t) \/ SopTimeout(t) \/ CancelRead(t) \/ Recover(t) \/ Crash(t)
      PROVE  UNCHANGED version
  BY <1>2 DEF Start, StartRefused, Throw, Decide, ToolCallback, NodeTimeout, SopTimeout,
     CancelRead, Recover, RecoverRunning, RecoverWaiting, RecoverDecided, RecoverLost,
     RecoverError, Crash, surroundings
<1>3. CASE LimitPasses \/ RowAges \/ UNCHANGED vars
  BY <1>3 DEF LimitPasses, RowAges, vars, surroundings
<1>4. QED
  BY <1>1, <1>2, <1>3 DEF Next

LEMMA VersionsGrow ==
  ASSUME TypeOK, [Next]_vars
  PROVE  /\ version \in 1 .. version
         /\ 1 .. version \subseteq 1 .. version'
<1>1. version \in DOMAIN Definitions /\ DOMAIN Definitions = 1 .. Len(Definitions)
  BY DefinitionAssumption, TypeParts, LenProperties DEF SurroundingsOK
<1>2. Len(Definitions) \in Nat
  BY DefinitionAssumption, LenProperties
<1>3. version \in Nat /\ version \in 1 .. version
  BY <1>1, <1>2
<1>4. version' = version \/ version' = version + 1
  BY OnlyEdits DEF EditDefinition
<1>5. QED
  BY <1>3, <1>4

LEMMA RejectionStep ==
  ASSUME TypeOK, RejectionLimit, [Next]_vars
  PROVE  RejectionLimit'
<1>1. CASE UNCHANGED rejections
  <2>1. CASE status = "failed"
    BY <2>1, FailedForGood DEF RejectionLimit
  <2>2. CASE status # "failed"
    <3>1. ~(rejections > 0) \/ \E v \in 1 .. version : ~(rejections >= Definitions[v].maxRejections)
      BY <2>2 DEF RejectionLimit
    <3>2. ASSUME NEW v \in 1 .. version, ~(rejections >= Definitions[v].maxRejections)
          PROVE  RejectionLimit'
      <4>1. v \in 1 .. version' /\ ~(rejections' >= Definitions[v].maxRejections)
        BY <1>1, <3>2, VersionsGrow
      <4>2. QED
        BY <4>1 DEF RejectionLimit
    <3>3. QED
      BY <1>1, <3>1, <3>2 DEF RejectionLimit
  <2>3. QED
    BY <2>1, <2>2
<1>2. ASSUME NEW t \in Thread, RejectLimit(t)
      PROVE  RejectionLimit'
  <2>1. CASE Transits(status, "paused_for_human", "failed")
    BY <1>2, <2>1 DEF RejectLimit, Transition, AfterTransition, RejectionLimit
  <2>2. CASE ~Transits(status, "paused_for_human", "failed")
    BY <1>1, <1>2, <2>2 DEF RejectLimit
  <2>3. QED
    BY <2>1, <2>2
<1>3. ASSUME NEW t \in Thread, CountRejection(t)
      PROVE  RejectionLimit'
  <2>1. /\ rejections' = th[t].counted + 1 /\ version' = version
        /\ ~(th[t].counted + 1 >= Definitions[version].maxRejections)
    BY <1>3 DEF CountRejection, OneTooMany, surroundings
  <2>2. ~(rejections' >= Definitions[version'].maxRejections)
    BY <2>1
  <2>3. version' \in 1 .. version'
    BY <2>1, VersionsGrow
  <2>4. QED
    BY <2>2, <2>3 DEF RejectionLimit
<1>4. QED
  BY <1>1, <1>2, <1>3, OnlyRejectionsCount

\* An execution that has not failed has counted fewer rejections than some
\* version of its definition so far allows, although the count is read, compared
\* and written by handlers that interleave with each other and with edits of the
\* limit.  An edit may take the limit to the count or below, and the execution
\* fails for it at its next rejection only.
THEOREM RejectionsLimited == Spec => []RejectionLimit
<1>1. Init => RejectionLimit
  BY BoundAssumption DEF Init, RejectionLimit
<1>2. TypeOK /\ RejectionLimit /\ [Next]_vars => RejectionLimit'
  BY RejectionStep
<1>3. QED
  BY <1>1, <1>2, TypeCorrect, PTL DEF Spec

-------------------------------------------------------------------------------
(* One driver.                                                             *)

Driving == { "load", "loop", "execute", "arm", "dispatch", "suspend", "complete",
             "resumeSave", "route", "redo" }

\* OneDriver by itself is not inductive: a compare-and-swap is won from a paused or
\* pending row, so what is needed besides is that no row in such a status has a
\* driver, and, for the start that the scheduled-tasks route makes without the
\* compare-and-swap, that nothing drives the row before its trigger; and for
\* recovery, that a row that may still be recovered has no driver.
DriverInv ==
  /\ \A t, u \in Thread : th[t].pc \in Driving /\ th[u].pc \in Driving => t = u
  /\ \A t \in Thread : th[t].pc \in Driving => status \notin Paused \cup { "pending" }
  /\ \A t \in Thread : th[t].pc \in Driving => triggered # "no"
  /\ triggered = "no" => status \in { "pending", "cancelled" } /\ ~stale
  /\ ~SlowNodes /\ stale /\ used.recoveries < MaxRecoveries
       => \A t \in Thread : th[t].pc \notin Driving

LEMMA DriverInvImplies == DriverInv => OneDriver
<1>1. \A t \in Thread : RunsNodes(t) <=> th[t].pc \in Driving
  BY DEF RunsNodes, Driving, InExecuteSop
<1>2. QED
  BY <1>1 DEF DriverInv, OneDriver

\* Most steps of a handler only move it, drive only if it drove before, and leave
\* the status, or end the execution.
LEMMA DriverStep ==
  ASSUME TypeOK, DriverInv, NEW t \in Thread,
         \A u \in Thread \ { t } : th'[u] = th[u],
         th'[t].pc \in Driving => th[t].pc \in Driving,
         \/ UNCHANGED status /\ (stale' = stale \/ stale' = FALSE)
         \/ \E from : \E to \in SopTerminalStatuses : Transition(from, to),
         UNCHANGED triggered, used'.recoveries < MaxRecoveries => used.recoveries < MaxRecoveries
  PROVE  DriverInv'
<1>0. stale' => stale
  BY Zenon DEF Transition
<1>1. /\ status' = status \/ status' \in SopTerminalStatuses
      /\ status' # status => status' \in ValidTransitions[status]
  BY DEF Transition, AfterTransition, Transits
<1>2. status = "pending" => status' \in { "pending", "cancelled" }
  BY <1>1 DEF ValidTransitions, Status, SopTerminalStatuses
<1>3. status = "cancelled" => status' = "cancelled"
  BY <1>1 DEF ValidTransitions, Status
<1>4. \A u \in Thread : th'[u].pc \in Driving => th[u].pc \in Driving
  OBVIOUS
<1>5. status' \in Paused \cup { "pending" } => status \in Paused \cup { "pending" }
  BY <1>1 DEF SopTerminalStatuses, Paused
<1>6. QED
  BY <1>0, <1>1, <1>2, <1>3, <1>4, <1>5 DEF DriverInv

\* A step that changes nothing DriverInv speaks of, or starts a driver of a row
\* that was not driven and is neither paused nor pending any more.
LEMMA DriverStarts ==
  ASSUME TypeOK, DriverInv, NEW t \in Thread,
         \A u \in Thread \ { t } : th'[u] = th[u],
         \A u \in Thread : th[u].pc \notin Driving,
         status' \notin Paused \cup { "pending" }, triggered' # "no",
         ~stale' \/ ~(used'.recoveries < MaxRecoveries)
  PROVE  DriverInv'
<1>1. \A u \in Thread : th'[u].pc \in Driving => u = t
  OBVIOUS
<1>2. QED
  BY <1>1 DEF DriverInv

\* The place where a handler is after it has returned, or been called.
LEMMA FreshPlace ==
  /\ Idle.pc \notin Driving
  /\ \A k : [ Idle EXCEPT !.pc = "wake", !.task = k ].pc \notin Driving
  /\ \A k : [ Idle EXCEPT !.pc = "count", !.task = k ].pc \notin Driving
  /\ \A r : [ Idle EXCEPT !.pc = "resume", !.ruling = r ].pc \notin Driving
  /\ \A r : [ Idle EXCEPT !.pc = "timeoutRead", !.ruling = r ].pc \notin Driving
  /\ \A s : [ Idle EXCEPT !.pc = "timeoutEnd", !.seen = s ].pc \notin Driving
  /\ \A s : [ Idle EXCEPT !.pc = "cancel", !.seen = s ].pc \notin Driving
BY DEF Idle, Driving

LEMMA FinishPlace ==
  ASSUME TypeOK, NEW t \in Thread, Finish(t)
  PROVE  th'[t].pc \notin Driving /\ \A u \in Thread \ { t } : th'[u] = th[u]
BY HandlerFacts, FreshPlace DEF Finish, Become

\* Steps of the driver.
LEMMA DriverOfEngine ==
  ASSUME TypeOK, DriverInv, NEW t \in Thread,
         \/ Load(t) \/ LoadWithoutStartNode(t) \/ LimitReached(t) \/ NodeMissing(t)
         \/ GateReroute(t) \/ GateTerminate(t) \/ Enter(t) \/ NodeDone(t) \/ Complete(t)
         \/ NodeRetry(t) \/ NodeErrorExit(t) \/ NodeFatal(t)
         \/ AskHuman(t) \/ Arm(t) \/ Dispatch(t) \/ DispatchFailed(t)
  PROVE  DriverInv'
<1>0. th \in [ Thread -> ThreadState ] /\ th[t] \in ThreadState
  BY HandlerFacts
<1>1. CASE \/ LoadWithoutStartNode(t) \/ NodeMissing(t) \/ GateTerminate(t) \/ NodeFatal(t)
           \/ LimitReached(t) \/ Complete(t)
  <2>1. /\ \E from : \E to \in SopTerminalStatuses : Transition(from, to)
        /\ Finish(t) /\ UNCHANGED surroundings
    BY <1>1 DEF LoadWithoutStartNode, NodeMissing, GateTerminate, NodeFatal, LimitReached,
       Complete, SopTerminalStatuses
  <2>2. th'[t].pc \notin Driving /\ \A u \in Thread \ { t } : th'[u] = th[u]
    BY <2>1, FinishPlace
  <2>3. QED
    BY <2>1, <2>2, DriverStep DEF surroundings
<1>2. CASE Load(t)
  <2>1. /\ th[t].pc \in Driving /\ \A u \in Thread \ { t } : th'[u] = th[u]
        /\ UNCHANGED << status, stale, surroundings >>
    BY <1>0, <1>2 DEF Load, At, Become, Driving, row
  <2>2. QED
    BY <2>1, DriverStep DEF surroundings
<1>3. CASE GateReroute(t) \/ Enter(t) \/ NodeDone(t) \/ NodeRetry(t) \/ NodeErrorExit(t)
  <2>1. /\ th[t].pc \in Driving /\ \A u \in Thread \ { t } : th'[u] = th[u]
        /\ UNCHANGED << status, surroundings >> /\ stale' = FALSE
    BY <1>0, <1>3 DEF GateReroute, Enter, NodeDone, NodeRetry, NodeErrorExit, AtNode, At,
       Executing, Driving, Persist
  <2>2. QED
    BY <2>1, DriverStep DEF surroundings
<1>4. CASE AskHuman(t) \/ Arm(t) \/ Dispatch(t) \/ DispatchFailed(t)
  <2>1. /\ th[t].pc \in Driving /\ \A u \in Thread \ { t } : th'[u] = th[u]
        /\ UNCHANGED << status, stale, surroundings >>
    BY <1>0, <1>4 DEF AskHuman, Arm, Dispatch, DispatchFailed, At, Driving, row
  <2>2. QED
    BY <2>1, DriverStep DEF surroundings
<1>5. QED
  BY <1>1, <1>2, <1>3, <1>4

\* The driver gives the row up before the row says so, to nobody else.
LEMMA DriverSuspends ==
  ASSUME TypeOK, DriverInv, NEW t \in Thread, Suspend(t)
  PROVE  DriverInv'
<1>0. th \in [ Thread -> ThreadState ] /\ th[t] \in ThreadState
  BY HandlerFacts
<1>1. th[t].pc \in Driving
  BY DEF Suspend, Driving
<1>2. /\ th'[t].pc \notin Driving /\ \A u \in Thread \ { t } : th'[u] = th[u]
      /\ UNCHANGED surroundings
  BY <1>0 DEF Suspend, Goto, Driving
<1>3. \A u \in Thread : th'[u].pc \notin Driving
  BY <1>1, <1>2 DEF DriverInv
<1>4. triggered # "no" /\ triggered' = triggered
  BY <1>1, <1>2 DEF DriverInv, surroundings
<1>5. QED
  BY <1>3, <1>4 DEF DriverInv

\* Who wins a compare-and-swap drives a row that nobody drove.
LEMMA DriverResumes ==
  ASSUME TypeOK, DriverInv, NEW t \in Thread,
         Start(t) \/ StartRefused(t) \/ Retake(t) \/ WakeCas(t)
  PROVE  DriverInv'
<1>0. th \in [ Thread -> ThreadState ] /\ th[t] \in ThreadState
  BY HandlerFacts
<1>1. \A u \in Thread \ { t } : th'[u] = th[u]
  BY <1>0 DEF Start, StartRefused, Retake, WakeCas, Become, Finish, Goto
<1>2. CASE Start(t)
  <2>1. /\ status = "pending" /\ triggered' = "started" /\ status' = "running" /\ ~stale'
    BY <1>2 DEF Start, Transition, AfterTransition, Transits, ValidTransitions, Status
  <2>2. \A u \in Thread : th[u].pc \notin Driving
    BY <2>1 DEF DriverInv
  <2>3. QED
    BY <1>1, <2>1, <2>2, DriverStarts DEF Paused
<1>3. CASE StartRefused(t)
  <2>1. /\ triggered = "no" /\ status # "pending" /\ triggered' = "refused"
        /\ UNCHANGED << status, stale >>
    BY <1>3 DEF StartRefused, row
  <2>2. status = "cancelled" /\ ~stale /\ \A u \in Thread : th[u].pc \notin Driving
    BY <2>1 DEF DriverInv
  <2>3. QED
    BY <1>1, <2>1, <2>2, DriverStarts DEF Paused
<1>4. CASE Retake(t) /\ Transits(status, "paused_for_human", "running")
  <2>1. /\ status = "paused_for_human" /\ status' = "running" /\ ~stale' /\ UNCHANGED triggered
    BY <1>4 DEF Retake, Transition, AfterTransition, Transits, surroundings
  <2>2. \A u \in Thread : th[u].pc \notin Driving
    BY <2>1 DEF DriverInv, Paused
  <2>3. triggered # "no"
    BY <2>1 DEF DriverInv
  <2>4. QED
    BY <1>1, <2>1, <2>2, <2>3, DriverStarts DEF Paused
<1>5. CASE WakeCas(t) /\ Transits(status, "paused_for_tool", "running")
  <2>1. /\ status = "paused_for_tool" /\ status' = "running" /\ ~stale' /\ UNCHANGED triggered
    BY <1>5 DEF WakeCas, Transition, AfterTransition, Transits, surroundings
  <2>2. \A u \in Thread : th[u].pc \notin Driving
    BY <2>1 DEF DriverInv, Paused
  <2>3. triggered # "no"
    BY <2>1 DEF DriverInv
  <2>4. QED
    BY <1>1, <2>1, <2>2, <2>3, DriverStarts DEF Paused
<1>6. CASE \/ Retake(t) /\ ~Transits(status, "paused_for_human", "running")
           \/ WakeCas(t) /\ ~Transits(status, "paused_for_tool", "running")
  <2>1. Finish(t) /\ UNCHANGED << status, surroundings >> /\ (stale' = stale \/ stale' = FALSE)
    <3>1. stale \in BOOLEAN
      BY TypeParts DEF RowOK
    <3>2. QED
      BY <1>6, <3>1 DEF Retake, WakeCas, Woken, Transition, AfterTransition
  <2>2. QED
    BY <2>1, FinishPlace, DriverStep DEF surroundings
<1>7. QED
  BY <1>2, <1>3, <1>4, <1>5, <1>6

\* The counters of the bounded events only grow.
LEMMA UsedGrows ==
  ASSUME TypeOK,
         \/ used' = [ used EXCEPT !.crashes = @ + 1 ] \/ used' = [ used EXCEPT !.recoveries = @ + 1 ]
         \/ used' = [ used EXCEPT !.faults = @ + 1 ] \/ used' = [ used EXCEPT !.cancels = @ + 1 ]
  PROVE  used'.recoveries < MaxRecoveries => used.recoveries < MaxRecoveries
<1>1. used \in [ crashes : Nat, recoveries : Nat, faults : Nat, cancels : Nat ]
  BY TypeParts DEF SurroundingsOK, UsedOK
<1>2. used'.recoveries = used.recoveries \/ used'.recoveries = used.recoveries + 1
  BY <1>1
<1>3. used.recoveries \in Nat /\ MaxRecoveries \in Nat
  BY <1>1, BoundAssumption
<1>4. QED
  BY <1>2, <1>3

\* A handler that moves to a place where no nodes run does not drive.
LEMMA BecomePlace ==
  ASSUME TypeOK, NEW t \in Thread, NEW l, l.pc \notin Driving, Become(t, l)
  PROVE  th'[t].pc \notin Driving /\ \A u \in Thread \ { t } : th'[u] = th[u]
<1>1. th \in [ Thread -> ThreadState ]
  BY HandlerFacts
<1>2. QED
  BY <1>1 DEF Become

LEMMA GotoPlace ==
  ASSUME TypeOK, NEW t \in Thread, NEW place, place \notin Driving, Goto(t, place)
  PROVE  th'[t].pc \notin Driving /\ \A u \in Thread \ { t } : th'[u] = th[u]
<1>1. th \in [ Thread -> ThreadState ] /\ th[t] \in ThreadState
  BY HandlerFacts
<1>2. [ th[t] EXCEPT !.pc = place ].pc = place
  BY <1>1 DEF ThreadState
<1>3. QED
  BY <1>1, <1>2 DEF Goto

LEMMA SamePlace ==
  ASSUME NEW t \in Thread, th' = th
  PROVE  (th'[t].pc \in Driving => th[t].pc \in Driving)
         /\ \A u \in Thread \ { t } : th'[u] = th[u]
OBVIOUS

\* Handlers that do not drive: where they go.
LEMMA Bystanders ==
  ASSUME TypeOK, NEW t \in Thread,
         \/ Decide(t) \/ ToolCallback(t) \/ TimeoutRead(t) \/ Guard(t)
         \/ Count(t) \/ WakeLoad(t) \/ ResumeLoad(t) \/ CountRejection(t) \/ Save(t)
  PROVE  th'[t].pc \notin Driving /\ \A u \in Thread \ { t } : th'[u] = th[u]
<1>0. th \in [ Thread -> ThreadState ] /\ th[t] \in ThreadState
  BY HandlerFacts
<1>a. "resume" \notin Driving /\ "guard" \notin Driving /\ "wake" \notin Driving
      /\ "retake" \notin Driving /\ "reject" \notin Driving /\ "wakeCas" \notin Driving
  BY DEF Driving
<1>1. CASE Decide(t)
  <2>1. PICK p \in DOMAIN pauses, d \in { "approved", "rejected" } :
          Become(t, [ Idle EXCEPT !.pc = "resume", !.ruling = RulingOf(p, d) ])
    BY <1>1 DEF Decide
  <2>2. QED
    BY <2>1, FreshPlace, BecomePlace
<1>2. CASE ToolCallback(t)
  <2>1. PICK k \in TaskId : Become(t, [ Idle EXCEPT !.pc = "count", !.task = k ])
    BY <1>2 DEF ToolCallback
  <2>2. QED
    BY <2>1, FreshPlace, BecomePlace
<1>3. CASE TimeoutRead(t)
  <2>1. \/ Goto(t, "resume")
        \/ Become(t, [ Idle EXCEPT !.pc = "timeoutEnd", !.seen = status ])
    BY <1>3 DEF TimeoutRead
  <2>2. QED
    BY <2>1, <1>a, FreshPlace, BecomePlace, GotoPlace
<1>4. CASE Guard(t)
  <2>1. \/ Become(t, [ Idle EXCEPT !.pc = "wake", !.task = th[t].task ])
        \/ Finish(t)
    BY <1>4 DEF Guard
  <2>2. QED
    BY <2>1, FreshPlace, BecomePlace, FinishPlace
<1>5. CASE Count(t)
  <2>1. Goto(t, "wake") \/ Finish(t)
    BY <1>5 DEF Count
  <2>2. QED
    BY <2>1, <1>a, GotoPlace, FinishPlace
<1>6. CASE WakeLoad(t)
  <2>1. \/ Finish(t)
        \/ th' = [ th EXCEPT ![t].pc = "wakeCas", ![t].mem = snap, ![t].at = snap.cur ]
    BY <1>6 DEF WakeLoad
  <2>2. ASSUME th' = [ th EXCEPT ![t].pc = "wakeCas", ![t].mem = snap, ![t].at = snap.cur ]
        PROVE  th'[t].pc = "wakeCas" /\ \A u \in Thread \ { t } : th'[u] = th[u]
    BY <1>0, <2>2 DEF ThreadState
  <2>3. QED
    BY <2>1, <2>2, <1>a, FinishPlace
<1>7. CASE ResumeLoad(t)
  <2>1. th'[t].pc \in { "reject", "retake" } /\ \A u \in Thread \ { t } : th'[u] = th[u]
    BY <1>0, <1>7 DEF ResumeLoad, ThreadState
  <2>2. QED
    BY <2>1, <1>a
<1>8. CASE CountRejection(t)
  BY <1>8, <1>a, GotoPlace DEF CountRejection
<1>9. CASE Save(t)
  <2>1. Goto(t, "guard") \/ Finish(t)
    BY <1>9 DEF Save
  <2>2. QED
    BY <2>1, <1>a, GotoPlace, FinishPlace
<1>10. QED
  BY <1>1, <1>2, <1>3, <1>4, <1>5, <1>6, <1>7, <1>8, <1>9

\* Handlers that do not drive, and the driver of a resume.
LEMMA DriverOfHandlers ==
  ASSUME TypeOK, DriverInv, NEW t \in Thread,
         \/ Save(t) \/ Guard(t) \/ Throw(t) \/ Decide(t) \/ ResumeLoad(t)
         \/ RejectLimit(t) \/ CountRejection(t) \/ ResumeSave(t) \/ Route(t)
         \/ ToolCallback(t) \/ Count(t) \/ WakeLoad(t) \/ RedoDone(t) \/ RedoFail(t)
         \/ TimeoutRead(t) \/ TimeoutEnd(t) \/ SopTimeout(t) \/ CancelRead(t)
         \/ Cancel(t) \/ Crash(t)
  PROVE  DriverInv'
<1>0. th \in [ Thread -> ThreadState ] /\ th[t] \in ThreadState
  BY HandlerFacts
<1>1. CASE RejectLimit(t) \/ RedoFail(t) \/ TimeoutEnd(t) \/ Cancel(t)
  <2>1. /\ \E from : \E to \in SopTerminalStatuses : Transition(from, to)
        /\ Finish(t) /\ UNCHANGED surroundings
    BY <1>1 DEF RejectLimit, RedoFail, TimeoutEnd, Cancel, SopTerminalStatuses
  <2>2. QED
    BY <2>1, FinishPlace, DriverStep DEF surroundings
<1>2. CASE Throw(t)
  <2>1. /\ \E from : \E to \in SopTerminalStatuses : Transition(from, to)
        /\ Finish(t) /\ UNCHANGED triggered /\ used' = [ used EXCEPT !.faults = @ + 1 ]
    BY <1>2 DEF Throw, SopTerminalStatuses
  <2>2. QED
    BY <2>1, UsedGrows, FinishPlace, DriverStep
<1>3. CASE Crash(t)
  <2>1. /\ UNCHANGED << status, stale, triggered >> /\ Finish(t)
        /\ used' = [ used EXCEPT !.crashes = @ + 1 ]
    BY <1>3 DEF Crash, row
  <2>2. QED
    BY <2>1, UsedGrows, FinishPlace, DriverStep
<1>4. CASE CancelRead(t)
  <2>1. /\ UNCHANGED << status, stale, triggered >> /\ used' = [ used EXCEPT !.cancels = @ + 1 ]
        /\ th'[t].pc \notin Driving /\ \A u \in Thread \ { t } : th'[u] = th[u]
    BY <1>0, <1>4, FreshPlace DEF CancelRead, Become, row
  <2>2. QED
    BY <2>1, UsedGrows, DriverStep
<1>5. CASE SopTimeout(t)
  <2>1. /\ UNCHANGED << status, stale, triggered, used >>
        /\ \/ th' = th
           \/ Become(t, [ Idle EXCEPT !.pc = "timeoutEnd", !.seen = status ])
    BY <1>5 DEF SopTimeout, row
  <2>2. /\ (th'[t].pc \in Driving => th[t].pc \in Driving)
        /\ \A u \in Thread \ { t } : th'[u] = th[u]
    BY <2>1, FreshPlace, BecomePlace, SamePlace
  <2>3. QED
    BY <2>1, <2>2, DriverStep
<1>6. CASE \/ Decide(t) \/ ToolCallback(t) \/ TimeoutRead(t) \/ Guard(t) \/ Count(t)
           \/ WakeLoad(t) \/ ResumeLoad(t) \/ CountRejection(t)
  <2>1. UNCHANGED << status, stale, surroundings >>
    BY <1>6 DEF Decide, ToolCallback, TimeoutRead, Guard, Count, WakeLoad, ResumeLoad,
       CountRejection, row
  <2>2. QED
    BY <1>6, <2>1, Bystanders, DriverStep DEF surroundings
<1>7. CASE Save(t)
  <2>1. UNCHANGED << status, surroundings >> /\ stale' = FALSE
    BY <1>7 DEF Save, Persist
  <2>2. QED
    BY <1>7, <2>1, Bystanders, DriverStep DEF surroundings
<1>8. CASE ResumeSave(t) \/ RedoDone(t)
  <2>1. /\ UNCHANGED << status, surroundings >> /\ stale' = FALSE
        /\ th[t].pc \in Driving /\ \A u \in Thread \ { t } : th'[u] = th[u]
    BY <1>0, <1>8 DEF ResumeSave, RedoDone, Persist, Become, Goto, At, Driving
  <2>2. QED
    BY <2>1, DriverStep DEF surroundings
<1>9. CASE Route(t)
  <2>1. /\ UNCHANGED surroundings /\ th[t].pc \in Driving
        /\ \A u \in Thread \ { t } : th'[u] = th[u]
    BY <1>0, <1>9 DEF Route, Become, Finish, At, Driving
  <2>2. \/ UNCHANGED status /\ (stale' = stale \/ stale' = FALSE)
        \/ \E from : \E to \in SopTerminalStatuses : Transition(from, to)
    BY <1>9 DEF Route, Persist, SopTerminalStatuses
  <2>3. QED
    BY <2>1, <2>2, DriverStep DEF surroundings
<1>10. QED
  BY <1>1, <1>2, <1>3, <1>4, <1>5, <1>6, <1>7, <1>8, <1>9

\* A timeout job, or a recovery of an expired pause, takes the pause only.
LEMMA TakeTimeoutPlace ==
  ASSUME TypeOK, NEW t \in Thread, NEW p, At(t, "idle"), TakeTimeout(t, p)
  PROVE  th'[t].pc \notin Driving /\ \A u \in Thread \ { t } : th'[u] = th[u]
BY HandlerFacts, FreshPlace DEF TakeTimeout, Become, At, Driving

LEMMA DriverTimesOut ==
  ASSUME TypeOK, DriverInv, NEW t \in Thread, NodeTimeout(t)
  PROVE  DriverInv'
<1>1. th'[t].pc \notin Driving /\ \A u \in Thread \ { t } : th'[u] = th[u]
  BY TakeTimeoutPlace DEF NodeTimeout
<1>2. UNCHANGED << status, stale, surroundings >>
  BY DEF NodeTimeout, row
<1>3. QED
  BY <1>1, <1>2, DriverStep DEF surroundings

\* With at most one recovery, recovery hands an undriven row to one driver.
LEMMA DriverRecovers ==
  ASSUME TypeOK, DriverInv, NEW t \in Thread, Recover(t), MaxRecoveries <= 1, ~SlowNodes
  PROVE  DriverInv'
<1>0. th \in [ Thread -> ThreadState ] /\ th[t] \in ThreadState
  BY HandlerFacts
<1>1. /\ Recovers(t) /\ stale /\ used.recoveries < MaxRecoveries
      /\ used' = [ used EXCEPT !.recoveries = @ + 1 ] /\ UNCHANGED triggered
  BY DEF Recover, RecoverRunning, RecoverWaiting, RecoverDecided, RecoverLost, RecoverError,
     Recovers
<1>2. ~(used'.recoveries < MaxRecoveries)
  <2>1. used \in [ crashes : Nat, recoveries : Nat, faults : Nat, cancels : Nat ]
    BY TypeParts DEF SurroundingsOK, UsedOK
  <2>2. used'.recoveries = used.recoveries + 1 /\ used.recoveries \in Nat
    BY <1>1, <2>1
  <2>3. QED
    BY <1>1, <2>2, BoundAssumption
<1>3. triggered # "no" /\ \A u \in Thread : th[u].pc \notin Driving
  BY <1>1 DEF DriverInv
<1>4. CASE RecoverRunning(t) \/ (RecoverError(t) /\ UNCHANGED status /\ th' # th)
  <2>1. status' \notin Paused \cup { "pending" }
    BY <1>4 DEF RecoverRunning, RecoverError, Paused, row
  <2>2. \A u \in Thread \ { t } : th'[u] = th[u]
    BY <1>0, <1>4 DEF RecoverRunning, RecoverError, Become
  <2>3. QED
    BY <1>1, <1>2, <1>3, <2>1, <2>2, DriverStarts
<1>5. CASE RecoverWaiting(t)
  <2>1. /\ UNCHANGED << status, stale >> /\ th'[t].pc \notin Driving
        /\ \A u \in Thread \ { t } : th'[u] = th[u]
    BY <1>3, <1>5, TakeTimeoutPlace DEF RecoverWaiting, Recovers, row
  <2>2. QED
    BY <1>1, <1>2, <2>1, DriverStep
<1>6. CASE RecoverDecided(t)
  <2>1. /\ UNCHANGED << status, stale >> /\ th'[t].pc \notin Driving
        /\ \A u \in Thread \ { t } : th'[u] = th[u]
    BY <1>0, <1>6, FreshPlace DEF RecoverDecided, Become, row
  <2>2. QED
    BY <1>1, <1>2, <2>1, DriverStep
<1>7. CASE RecoverLost(t) \/ (RecoverError(t) /\ th' = th)
  <2>1. th' = th /\ (stale' = stale \/ stale' = FALSE)
    <3>1. stale \in BOOLEAN
      BY TypeParts DEF RowOK
    <3>2. QED
      BY <1>7, <3>1 DEF RecoverLost, RecoverError, Transition
  <2>2. UNCHANGED status \/ \E from : \E to \in SopTerminalStatuses : Transition(from, to)
    <3>1. CASE \/ Transition("paused_for_human", "failed") \/ Transition("error", "timed_out")
               \/ Transition("error", "failed")
      BY <3>1 DEF SopTerminalStatuses
    <3>2. CASE UNCHANGED status
      BY <3>2
    <3>3. QED
      BY <1>7, <3>1, <3>2 DEF RecoverLost, RecoverError
  <2>3. used'.recoveries < MaxRecoveries => used.recoveries < MaxRecoveries
    BY <1>2
  <2>4. CASE UNCHANGED status
    BY <1>1, <2>1, <2>3, <2>4, SamePlace, DriverStep
  <2>5. CASE \E from : \E to \in SopTerminalStatuses : Transition(from, to)
    BY <1>1, <2>1, <2>3, <2>5, SamePlace, DriverStep
  <2>6. QED
    BY <2>2, <2>4, <2>5
<1>8. RecoverError(t) => (UNCHANGED status \/ th' = th)
  BY DEF RecoverError
<1>9. QED
  BY <1>4, <1>5, <1>6, <1>7, <1>8 DEF Recover

\* A row grows stale only when nobody works on it, unless nodes are slow.
LEMMA DriverAlone ==
  ASSUME TypeOK, DriverInv,
         LimitPasses \/ RowAges \/ EditDefinition \/ UNCHANGED vars
  PROVE  DriverInv'
<1>1. CASE LimitPasses \/ EditDefinition \/ UNCHANGED vars
  <2>1. UNCHANGED << status, stale, triggered, used, th >>
    BY <1>1 DEF LimitPasses, EditDefinition, vars, row
  <2>2. QED
    BY <2>1 DEF DriverInv
<1>2. CASE RowAges
  <2>1. /\ status \in { "running", "paused_for_human", "error" }
        /\ SlowNodes \/ \A t \in Thread : th[t].pc = "idle"
        /\ UNCHANGED << status, triggered, used, th >>
    BY <1>2 DEF RowAges, At, row, surroundings
  <2>2. SlowNodes \/ \A t \in Thread : th'[t].pc \notin Driving
    BY <2>1 DEF Driving
  <2>3. triggered' # "no"
    BY <2>1 DEF DriverInv
  <2>4. QED
    BY <2>1, <2>2, <2>3 DEF DriverInv
<1>3. QED
  BY <1>1, <1>2

\* Who recovers counts it.
LEMMA RecoveriesGrow ==
  ASSUME TypeOK, [Next]_vars
  PROVE  /\ used'.recoveries >= used.recoveries
         /\ used'.recoveries = 0 => used.recoveries = 0
         /\ \A t \in Thread : Recover(t) => used'.recoveries # 0
         /\ used'.recoveries = used.recoveries \/ \E t \in Thread : Recover(t)
<1>1. used \in [ crashes : Nat, recoveries : Nat, faults : Nat, cancels : Nat ]
  BY TypeParts DEF SurroundingsOK, UsedOK
<1>2. \/ UNCHANGED used
      \/ used' = [ used EXCEPT !.crashes = @ + 1 ] \/ used' = [ used EXCEPT !.faults = @ + 1 ]
      \/ used' = [ used EXCEPT !.cancels = @ + 1 ] \/ \E t \in Thread : Recover(t)
  <2>1. ASSUME NEW t \in Thread, Proceed(t) PROVE UNCHANGED used
    BY <2>1 DEF Proceed, surroundings, Load, LoadWithoutStartNode, LimitReached, NodeMissing,
       GateReroute, GateTerminate, Enter, NodeDone, Complete, NodeRetry, NodeErrorExit,
       NodeFatal, AskHuman, Arm, Dispatch, DispatchFailed, Suspend, Save, Guard, ResumeLoad,
       RejectLimit, CountRejection, Retake, ResumeSave, Route, Count, WakeLoad, WakeCas,
       RedoDone, RedoFail, TimeoutRead, TimeoutEnd, Cancel
  <2>2. ASSUME NEW t \in Thread,
               \/ Start(t) \/ StartRefused(t) \/ Decide(t) \/ ToolCallback(t)
               \/ NodeTimeout(t) \/ SopTimeout(t)
        PROVE  UNCHANGED used
    BY <2>2 DEF Start, StartRefused, Decide, ToolCallback, NodeTimeout, SopTimeout, surroundings
  <2>3. ASSUME NEW t \in Thread, Throw(t) \/ CancelRead(t) \/ Crash(t)
        PROVE  \/ used' = [ used EXCEPT !.crashes = @ + 1 ]
               \/ used' = [ used EXCEPT !.faults = @ + 1 ]
               \/ used' = [ used EXCEPT !.cancels = @ + 1 ]
    BY <2>3 DEF Throw, CancelRead, Crash
  <2>4. CASE LimitPasses \/ RowAges \/ EditDefinition \/ UNCHANGED vars
    BY <2>4 DEF LimitPasses, RowAges, EditDefinition, vars, surroundings
  <2>5. QED
    BY <2>1, <2>2, <2>3, <2>4 DEF Next
<1>3. ASSUME NEW t \in Thread, Recover(t) PROVE used' = [ used EXCEPT !.recoveries = @ + 1 ]
  BY <1>3 DEF Recover, Recovers, RecoverRunning, RecoverWaiting, RecoverDecided, RecoverLost,
     RecoverError
<1>4. used'.recoveries = used.recoveries \/ \E t \in Thread : Recover(t)
  BY <1>1, <1>2
<1>5. ASSUME NEW t \in Thread, Recover(t) PROVE used'.recoveries = used.recoveries + 1
  BY <1>1, <1>3, <1>5
<1>6. used.recoveries \in Nat
  BY <1>1
<1>7. QED
  BY <1>4, <1>5, <1>6

\* Before the first recovery, or if recovery is never too early and happens once.
LEMMA DriverInvStep ==
  ASSUME TypeOK, DriverInv, [Next]_vars,
         used'.recoveries = 0 \/ (~SlowNodes /\ MaxRecoveries <= 1)
  PROVE  DriverInv'
<1>1. ASSUME NEW t \in Thread, Proceed(t)
      PROVE  DriverInv'
  BY <1>1, DriverOfEngine, DriverSuspends, DriverResumes, DriverOfHandlers DEF Proceed
<1>2. ASSUME NEW t \in Thread,
             \/ Start(t) \/ StartRefused(t) \/ Throw(t) \/ Decide(t) \/ ToolCallback(t)
             \/ NodeTimeout(t) \/ SopTimeout(t) \/ CancelRead(t) \/ Crash(t)
      PROVE  DriverInv'
  BY <1>2, DriverResumes, DriverOfHandlers, DriverTimesOut
<1>3. ASSUME NEW t \in Thread, Recover(t)
      PROVE  DriverInv'
  <2>1. ~SlowNodes /\ MaxRecoveries <= 1
    BY <1>3, RecoveriesGrow
  <2>2. QED
    BY <1>3, <2>1, DriverRecovers
<1>4. QED
  BY <1>1, <1>2, <1>3, DriverAlone DEF Next

\* Until an execution is recovered for the first time, at most one handler runs its
\* nodes, whatever crashes, throws, cancels or is slow.
THEOREM DriverIsAloneUnrecovered == Spec => [](used.recoveries = 0 => OneDriver)
<1>1. Init => (used.recoveries = 0 => DriverInv)
  BY FreshPlace DEF Init, DriverInv
<1>2. TypeOK /\ (used.recoveries = 0 => DriverInv) /\ [Next]_vars
        => (used.recoveries = 0 => DriverInv)'
  BY DriverInvStep, RecoveriesGrow
<1>3. QED
  BY <1>1, <1>2, TypeCorrect, DriverInvImplies, PTL DEF Spec

\* Provided that no live handler outlasts the threshold of cold recovery, and that
\* a row is recovered at most once, at most one handler runs nodes of an
\* execution at a time, for any number of handlers and any definitions.
THEOREM DriverIsAlone ==
  ASSUME SlowNodes = FALSE, MaxRecoveries <= 1
  PROVE  Spec => []OneDriver
<1>1. Init => DriverInv
  BY FreshPlace DEF Init, DriverInv
<1>2. TypeOK /\ DriverInv /\ [Next]_vars => DriverInv'
  BY DriverInvStep
<1>3. QED
  BY <1>1, <1>2, TypeCorrect, DriverInvImplies, PTL DEF Spec

===============================================================================
