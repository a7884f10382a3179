--------------------------- MODULE SopDecisionProofs ---------------------------
(***************************************************************************)
(* Proofs about SopEngine: whatever handlers interleave, crash or recover, *)
(* no decision is acted on that nobody made or that its pause row does not *)
(* hold, and no more rejections are counted than were made.  Until a       *)
(* recovery a decision resumes the execution once, at its own pause.       *)
(***************************************************************************)
EXTENDS SopEngineProofs, FiniteSetTheorems

Ruled == { "approved", "rejected" }

\* NoForgedDecision in terms of a list of pauses, so that a step can be asked
\* what it does to the list and what to the rest.
Real(ps, d) == \E p \in DOMAIN ps : ps[p].st = "decided" /\ ps[p].decision = d
Genuine(ps, s) == \A n \in Node : s.dec[n] \in Ruled => Real(ps, s.dec[n])
Honest(ps, l) == Genuine(ps, l.mem) /\ (l.ruling.decision \in Ruled => Real(ps, l.ruling.decision))

LEMMA Restated ==
  NoForgedDecision <=> Genuine(pauses, snap) /\ \A t \in Thread : Honest(pauses, th[t])
BY DEF NoForgedDecision, Backed, Made, Genuine, Honest, Real, Ruled

LEMMA RestatedPrimed ==
  NoForgedDecision' <=> Genuine(pauses', snap') /\ \A t \in Thread : Honest(pauses', th'[t])
BY DEF NoForgedDecision, Backed, Made, Genuine, Honest, Real, Ruled

-------------------------------------------------------------------------------
(* Decisions once made are never unmade.                                   *)

Grows == \A d \in Ruled : Real(pauses, d) => Real(pauses', d)

LEMMA PausesKept == ASSUME UNCHANGED pauses PROVE Grows
BY DEF Grows

LEMMA PauseRuled ==
  ASSUME TypeOK, NEW p \in DOMAIN pauses, pauses[p].st = "waiting", NEW st, NEW d,
         pauses' = [ pauses EXCEPT ![p].st = st, ![p].decision = d ]
  PROVE  Grows /\ (st = "decided" => Real(pauses', d))
<1>1. /\ pauses[p] \in Pause /\ DOMAIN pauses' = DOMAIN pauses
      /\ \A q \in DOMAIN pauses \ { p } : pauses'[q] = pauses[q]
      /\ pauses'[p] = [ pauses[p] EXCEPT !.st = st, !.decision = d ]
  BY TypeParts, LenProperties, ElementOfSeq DEF ApprovalsOK
<1>2. pauses'[p].st = st /\ pauses'[p].decision = d
  BY <1>1 DEF Pause
<1>3. ASSUME NEW e, Real(pauses, e) PROVE Real(pauses', e)
  <2>1. PICK q \in DOMAIN pauses : pauses[q].st = "decided" /\ pauses[q].decision = e
    BY <1>3 DEF Real
  <2>2. q # p
    BY <2>1
  <2>3. QED
    BY <1>1, <2>1, <2>2 DEF Real
<1>4. QED
  BY <1>1, <1>2, <1>3 DEF Grows, Real

LEMMA PauseAdded ==
  ASSUME TypeOK, NEW p, pauses' = Append(pauses, p)
  PROVE  Grows
<1>1. pauses \in Seq(Pause) /\ DOMAIN pauses = 1 .. Len(pauses) /\ Len(pauses) \in Nat
  BY TypeParts, LenProperties DEF ApprovalsOK
<1>2. /\ DOMAIN pauses' = 1 .. Len(pauses) + 1
      /\ \A q \in 1 .. Len(pauses) : pauses'[q] = pauses[q]
  BY <1>1
<1>3. ASSUME NEW e, Real(pauses, e) PROVE Real(pauses', e)
  <2>1. PICK q \in DOMAIN pauses : pauses[q].st = "decided" /\ pauses[q].decision = e
    BY <1>3 DEF Real
  <2>2. q \in DOMAIN pauses' /\ pauses'[q] = pauses[q]
    BY <1>1, <1>2, <2>1
  <2>3. QED
    BY <2>1, <2>2 DEF Real
<1>4. QED
  BY <1>3 DEF Grows

LEMMA GenuineStays ==
  ASSUME Grows, NEW s, Genuine(pauses, s) PROVE Genuine(pauses', s)
BY DEF Grows, Genuine

LEMMA HonestStays ==
  ASSUME Grows, NEW l, Honest(pauses, l) PROVE Honest(pauses', l)
BY GenuineStays DEF Honest, Grows

-------------------------------------------------------------------------------
(* What a step has to do.                                                  *)

\* One handler moves on: the snapshot it leaves in the row and its own are
\* genuine, and so is its ruling.
LEMMA HandlerStep ==
  ASSUME TypeOK, NoForgedDecision, Grows, NEW t \in Thread, NEW l, th' = [ th EXCEPT ![t] = l ],
         Honest(pauses', l), Genuine(pauses', snap')
  PROVE  NoForgedDecision'
<1>1. th \in [ Thread -> ThreadState ]
  BY HandlerFacts
<1>2. ASSUME NEW u \in Thread PROVE Honest(pauses', th'[u])
  <2>1. CASE u = t
    BY <1>1, <2>1
  <2>2. CASE u # t
    <3>1. th'[u] = th[u] /\ Honest(pauses, th[u])
      BY <1>1, <2>2, Restated
    <3>2. QED
      BY <3>1, HonestStays
  <2>3. QED
    BY <2>1, <2>2
<1>3. QED
  BY <1>2, RestatedPrimed

\* Nobody moves.
LEMMA NobodyMoves ==
  ASSUME NoForgedDecision, UNCHANGED << snap, th >>, Grows
  PROVE  NoForgedDecision'
<1>1. Genuine(pauses', snap)
  BY Restated, GenuineStays
<1>2. \A t \in Thread : Honest(pauses', th[t])
  BY Restated, HonestStays
<1>3. QED
  BY <1>1, <1>2, RestatedPrimed

\* Its locals are those it had, as far as decisions go, or those of a handler
\* that has just begun.
Same(l, t) == l.mem = th[t].mem /\ l.ruling = th[t].ruling
Fresh(l) == l.mem.dec = Idle.mem.dec /\ l.ruling = NoRuling

LEMMA FreshHonest ==
  ASSUME NEW ps, NEW l, Fresh(l) PROVE Honest(ps, l)
<1>1. \A n \in Node : l.mem.dec[n] = NoDecision
  BY DEF Fresh, Idle, BlankSnapshot
<1>2. NoDecision \notin Ruled /\ l.ruling.decision = NoDecision
  BY DEF Fresh, NoRuling, NoDecision, Ruled
<1>3. QED
  BY <1>1, <1>2 DEF Honest, Genuine

LEMMA IdleFresh ==
  /\ Fresh(Idle)
  /\ \A place : Fresh([ Idle EXCEPT !.pc = place ])
  /\ \A place, k : Fresh([ Idle EXCEPT !.pc = place, !.task = k ])
  /\ \A place, s : Fresh([ Idle EXCEPT !.pc = place, !.seen = s ])
BY DEF Fresh, Idle

LEMMA PlainStep ==
  ASSUME TypeOK, NoForgedDecision, NEW t \in Thread, NEW l, th' = [ th EXCEPT ![t] = l ],
         Same(l, t) \/ Fresh(l), Grows, UNCHANGED snap
  PROVE  NoForgedDecision'
<1>1. Honest(pauses', l)
  <2>1. CASE Same(l, t)
    <3>1. Honest(pauses, l)
      BY <2>1, Restated DEF Same, Honest
    <3>2. QED
      BY <3>1, HonestStays
  <2>2. CASE Fresh(l)
    BY <2>2, FreshHonest
  <2>3. QED
    BY <2>1, <2>2
<1>2. Genuine(pauses', snap')
  BY Restated, GenuineStays
<1>3. QED
  BY <1>1, <1>2, HandlerStep

\* The handler saves a snapshot made of its own.
LEMMA SavingKeeps ==
  ASSUME TypeOK, NoForgedDecision, NEW t \in Thread, NEW l, th' = [ th EXCEPT ![t] = l ],
         UNCHANGED pauses, Genuine(pauses, snap'),
         Genuine(pauses, l.mem), l.ruling = th[t].ruling \/ l.ruling = NoRuling
  PROVE  NoForgedDecision'
<1>1. Honest(pauses, l)
  <2>1. Honest(pauses, th[t]) /\ NoRuling.decision \notin Ruled
    BY Restated DEF NoRuling, NoDecision, Ruled
  <2>2. QED
    BY <2>1 DEF Honest
<1>2. QED
  BY <1>1, PausesKept, HandlerStep

LEMMA SameDecisions ==
  ASSUME NEW ps, NEW s, NEW r, s.dec = r.dec, Genuine(ps, r) PROVE Genuine(ps, s)
BY DEF Genuine

-------------------------------------------------------------------------------
(* Steps that touch no decision.                                           *)

LEMMA Gone ==
  ASSUME TypeOK, NoForgedDecision, NEW t \in Thread, Finish(t), UNCHANGED << pauses, snap >>
  PROVE  NoForgedDecision'
BY IdleFresh, PausesKept, PlainStep DEF Finish, Become

LEMMA Goes ==
  ASSUME TypeOK, NoForgedDecision, NEW t \in Thread, NEW place, Goto(t, place),
         UNCHANGED << pauses, snap >>
  PROVE  NoForgedDecision'
<1> DEFINE l == [ th[t] EXCEPT !.pc = place ]
<1>1. th \in [ Thread -> ThreadState ] /\ th[t] \in ThreadState
  BY HandlerFacts
<1>2. th' = [ th EXCEPT ![t] = l ] /\ Same(l, t)
  BY <1>1 DEF Goto, Same, ThreadState
<1>3. QED
  BY <1>2, PausesKept, PlainStep

LEMMA EndsKeep ==
  ASSUME TypeOK, NoForgedDecision, NEW t \in Thread,
         \/ LoadWithoutStartNode(t) \/ LimitReached(t) \/ NodeMissing(t) \/ GateTerminate(t)
         \/ Complete(t) \/ NodeFatal(t) \/ RedoFail(t) \/ TimeoutEnd(t) \/ Throw(t)
         \/ RejectLimit(t) \/ Cancel(t) \/ Crash(t)
  PROVE  NoForgedDecision'
<1>1. Finish(t) /\ UNCHANGED << pauses, snap >>
  BY DEF LoadWithoutStartNode, LimitReached, NodeMissing, GateTerminate, Complete, NodeFatal,
     RedoFail, TimeoutEnd, Throw, RejectLimit, Cancel, Crash, approvals, row
<1>2. QED
  BY <1>1, Gone

LEMMA FreshStep ==
  ASSUME TypeOK, NoForgedDecision, NEW t \in Thread, NEW l, Fresh(l), Become(t, l),
         UNCHANGED << pauses, snap >>
  PROVE  NoForgedDecision'
BY PausesKept, PlainStep DEF Become

LEMMA BeginningsKeep ==
  ASSUME TypeOK, NoForgedDecision, NEW t \in Thread,
         \/ Start(t) \/ StartRefused(t) \/ ToolCallback(t) \/ SopTimeout(t) \/ CancelRead(t)
         \/ RecoverRunning(t) \/ RecoverLost(t) \/ RecoverError(t) \/ Guard(t)
  PROVE  NoForgedDecision'
<1>1. UNCHANGED << pauses, snap >>
  BY DEF Start, StartRefused, ToolCallback, SopTimeout, CancelRead, RecoverRunning, RecoverLost,
     RecoverError, Guard, approvals, row
<1>2. \/ UNCHANGED th
      \/ Finish(t)
      \/ Become(t, [ Idle EXCEPT !.pc = "load" ])
      \/ \E k : Become(t, [ Idle EXCEPT !.pc = "count", !.task = k ])
      \/ Become(t, [ Idle EXCEPT !.pc = "wake", !.task = th[t].task ])
      \/ \E place : Become(t, [ Idle EXCEPT !.pc = place, !.seen = status ])
  <2>1. CASE Start(t) \/ StartRefused(t) \/ RecoverRunning(t) \/ RecoverLost(t) \/ RecoverError(t)
    BY <2>1 DEF Start, StartRefused, RecoverRunning, RecoverLost, RecoverError
  <2>2. CASE ToolCallback(t) \/ Guard(t)
    BY <2>2 DEF ToolCallback, Guard
  <2>3. CASE SopTimeout(t) \/ CancelRead(t)
    BY <2>3 DEF SopTimeout, CancelRead
  <2>4. QED
    BY <2>1, <2>2, <2>3
<1>3. QED
  BY <1>1, <1>2, PausesKept, NobodyMoves, Gone, IdleFresh, FreshStep

LEMMA MovesKeep ==
  ASSUME TypeOK, NoForgedDecision, NEW t \in Thread,
         \/ Arm(t) \/ Dispatch(t) \/ DispatchFailed(t) \/ Suspend(t) \/ CountRejection(t)
         \/ Retake(t) \/ Count(t) \/ WakeCas(t) \/ TimeoutRead(t)
  PROVE  NoForgedDecision'
<1>0. th \in [ Thread -> ThreadState ] /\ th[t] \in ThreadState
  BY HandlerFacts
<1>1. UNCHANGED << pauses, snap >>
  BY DEF Arm, Dispatch, DispatchFailed, Suspend, CountRejection, Retake, Count, WakeCas,
     TimeoutRead, approvals, row
<1>2. CASE Arm(t)
  <2> DEFINE l == [ th[t] EXCEPT !.pc = "suspend", !.pause = 0 ]
  <2>1. th' = [ th EXCEPT ![t] = l ] /\ Same(l, t)
    BY <1>0, <1>2 DEF Arm, Same, ThreadState
  <2>2. QED
    BY <1>1, <2>1, PausesKept, PlainStep
<1>3. CASE Dispatch(t)
  <2> DEFINE k == IF At(t, "execute") THEN tasks + 1 ELSE th[t].task
             l == [ th[t] EXCEPT !.pc = "dispatch", !.task = k ]
  <2>1. th' = [ th EXCEPT ![t].pc = "dispatch", ![t].task = k ]
    BY <1>3 DEF Dispatch
  <2> HIDE DEF k
  <2>2. th' = [ th EXCEPT ![t] = l ] /\ Same(l, t)
    BY <1>0, <2>1 DEF Same, ThreadState
  <2>3. QED
    BY <1>1, <2>2, PausesKept, PlainStep
<1>4. CASE WakeCas(t)
  <2> DEFINE l == [ th[t] EXCEPT !.pc = "redo", !.mode = "wake", !.ver = version ]
  <2>1. th' = [ th EXCEPT ![t] = l ] \/ Finish(t)
    BY <1>0, <1>4 DEF WakeCas
  <2>2. Same(l, t)
    BY <1>0 DEF Same, ThreadState
  <2>3. QED
    BY <1>1, <2>1, <2>2, PausesKept, PlainStep, Gone
<1>5. CASE DispatchFailed(t)
  BY <1>1, <1>5, PausesKept, NobodyMoves DEF DispatchFailed
<1>6. CASE Suspend(t) \/ CountRejection(t) \/ Retake(t) \/ Count(t)
  <2>1. \/ \E place \in { "save", "retake", "resumeSave", "wake" } : Goto(t, place)
        \/ Finish(t)
    BY <1>6 DEF Suspend, CountRejection, Retake, Count
  <2>2. QED
    BY <1>1, <2>1, Goes, Gone
<1>7. CASE TimeoutRead(t)
  <2>1. \/ Goto(t, "resume")
        \/ Become(t, [ Idle EXCEPT !.pc = "timeoutEnd", !.seen = status ])
    BY <1>7 DEF TimeoutRead
  <2>2. QED
    BY <1>1, <2>1, Goes, IdleFresh, FreshStep
<1>8. QED
  BY <1>2, <1>3, <1>4, <1>5, <1>6, <1>7

-------------------------------------------------------------------------------
(* Steps that read or write a snapshot.                                    *)

LEMMA LoadKeeps ==
  ASSUME TypeOK, NoForgedDecision, NEW t \in Thread, Load(t)
  PROVE  NoForgedDecision'
<1> DEFINE s == StartSnapshot(snap, Definitions[version])
           l == [ Idle EXCEPT !.pc = "loop", !.ver = version, !.mem = s, !.at = s.cur ]
<1>1. Genuine(pauses, s)
  <2>1. CASE snap.cur = NoNode
    <3>1. \A n \in Node : s.dec[n] = NoDecision
      BY <2>1 DEF StartSnapshot, BlankSnapshot
    <3>2. QED
      BY <3>1 DEF Genuine, Ruled, NoDecision
  <2>2. CASE snap.cur # NoNode
    BY <2>2, Restated DEF StartSnapshot
  <2>3. QED
    BY <2>1, <2>2
<1>2. th' = [ th EXCEPT ![t] = l ] /\ UNCHANGED << pauses, snap >>
  BY DEF Load, Become, row, approvals
<1> HIDE DEF s
<1>3. l.mem = s /\ l.ruling = NoRuling
  BY DEF Idle
<1>4. QED
  BY <1>1, <1>2, <1>3, Restated, SavingKeeps

LEMMA WakeLoadKeeps ==
  ASSUME TypeOK, NoForgedDecision, NEW t \in Thread, WakeLoad(t)
  PROVE  NoForgedDecision'
<1> DEFINE l == [ th[t] EXCEPT !.pc = "wakeCas", !.mem = snap, !.at = snap.cur ]
<1>1. th \in [ Thread -> ThreadState ] /\ th[t] \in ThreadState
  BY HandlerFacts
<1>2. (th' = [ th EXCEPT ![t] = l ] \/ Finish(t)) /\ UNCHANGED << pauses, snap >>
  BY <1>1 DEF WakeLoad, row, approvals
<1>3. l.mem = snap /\ l.ruling = th[t].ruling
  BY <1>1 DEF ThreadState
<1>4. QED
  <2>1. Genuine(pauses, snap) /\ Genuine(pauses, snap') /\ UNCHANGED pauses
    BY <1>2, Restated
  <2>2. CASE th' = [ th EXCEPT ![t] = l ]
    <3> HIDE DEF l
    <3>1. QED
      BY <1>3, <2>1, <2>2, SavingKeeps
  <2>3. CASE Finish(t)
    BY <1>2, <2>3, Gone
  <2>4. QED
    BY <1>2, <2>2, <2>3

\* A handler goes on with snapshot s and saves s, or s with another next node.
LEMMA SavesKeep ==
  ASSUME TypeOK, NoForgedDecision, NEW t \in Thread, NEW s, Genuine(pauses, s),
         UNCHANGED pauses, snap'.dec = s.dec, NEW l, th' = [ th EXCEPT ![t] = l ],
         l.mem = s \/ l.mem = th[t].mem \/ l.mem.dec = Idle.mem.dec,
         l.ruling = th[t].ruling \/ l.ruling = NoRuling
  PROVE  NoForgedDecision'
<1>1. Genuine(pauses, snap')
  BY SameDecisions
<1>2. Genuine(pauses, l.mem)
  <2>1. CASE l.mem.dec = Idle.mem.dec
    <3>1. \A n \in Node : l.mem.dec[n] = NoDecision
      BY <2>1 DEF Idle, BlankSnapshot
    <3>2. QED
      BY <3>1 DEF Genuine, Ruled, NoDecision
  <2>2. QED
    BY <2>1, Restated DEF Honest
<1>3. QED
  BY <1>1, <1>2, SavingKeeps

\* The updates of a snapshot that leave its decisions alone.
LEMMA DecisionsKept ==
  ASSUME NEW s \in Snapshot, NEW n
  PROVE  /\ EnterNode(s, n).dec = s.dec /\ FinishNode(s, n).dec = s.dec
         /\ FinishResumed(s, n).dec = s.dec /\ RetryNode(s, n).dec = s.dec
         /\ ErrorExitNode(s, n).dec = s.dec /\ [ s EXCEPT !.cur = n ].dec = s.dec
         /\ \A m : [ s EXCEPT !.cur = n, !.ns[m] = "error" ].dec = s.dec
BY DEF Snapshot, EnterNode, FinishNode, FinishResumed, RetryNode, ErrorExitNode

\* A human_confirm node repeats a decision of the path, or none was made.
LEMMA DecidedGenuine ==
  ASSUME TypeOK, NoForgedDecision, NEW t \in Thread, th[t].at \in Node,
         NEW out \in Outputs(DefOf(t), th[t].at, th[t].mem)
  PROVE  Decided(t, out) \in Snapshot /\ Genuine(pauses, Decided(t, out))
<1> DEFINE s == th[t].mem
<1>1. s \in Snapshot /\ Genuine(pauses, s)
  BY HandlerFacts, Restated DEF Honest
<1>2. CASE DefOf(t).kind[th[t].at] = "human_confirm"
  <2>1. out \in PreviousDecision(s)
    BY <1>2 DEF Outputs
  <2>2. out \in Ruled => Real(pauses, out)
    <3>1. out = "timeout" \/ \E i \in DOMAIN s.path : out = s.dec[s.path[i]]
      BY <2>1 DEF PreviousDecision
    <3>2. \A i \in DOMAIN s.path : s.path[i] \in Node
      BY <1>1, LenProperties, ElementOfSeq DEF Snapshot
    <3>3. QED
      BY <1>1, <3>1, <3>2 DEF Genuine, Ruled
  <2>3. ASSUME NEW n \in Node
        PROVE  Decided(t, out).dec[n] = IF n = th[t].at THEN out ELSE s.dec[n]
    BY <1>1, <1>2 DEF Decided, Snapshot
  <2>4. QED
    BY <1>1, <2>2, <2>3, DecidedTyped DEF Genuine
<1>3. CASE DefOf(t).kind[th[t].at] # "human_confirm"
  BY <1>1, <1>3, DecidedTyped DEF Decided
<1>4. QED
  BY <1>2, <1>3

LEMMA GateKeeps ==
  ASSUME TypeOK, NoForgedDecision, NEW t \in Thread, GateReroute(t) \/ Enter(t) \/ NodeRetry(t) \/ NodeErrorExit(t)
  PROVE  NoForgedDecision'
<1>0. th \in [ Thread -> ThreadState ] /\ th[t] \in ThreadState /\ th[t].mem \in Snapshot
      /\ Genuine(pauses, th[t].mem)
  BY HandlerFacts, Restated DEF Honest
<1>1. PICK s : /\ s.dec = th[t].mem.dec
               /\ snap' = s
               /\ \/ th' = [ th EXCEPT ![t].mem = s, ![t].pc = "execute" ]
                  \/ th' = [ th EXCEPT ![t].mem = s, ![t].pc = "loop", ![t].task = 0 ]
                  \/ \E n : th' = [ th EXCEPT ![t].mem = s, ![t].at = n ]
                  \/ \E n : th' = [ th EXCEPT ![t].mem = s, ![t].pc = "loop", ![t].at = n, ![t].task = 0 ]
  <2>1. CASE GateReroute(t)
    <3>1. PICK faulty : LET s == [ th[t].mem EXCEPT !.cur = th[t].at, !.ns[faulty] = "error" ]
                        IN  Persist(s) /\ th' = [ th EXCEPT ![t].mem = s, ![t].at =
                                                   ErrorTargetOf(DefOf(t), faulty) ]
      BY <2>1 DEF GateReroute
    <3>2. [ th[t].mem EXCEPT !.cur = th[t].at, !.ns[faulty] = "error" ].dec = th[t].mem.dec
      BY <1>0, DecisionsKept
    <3>3. QED
      BY <3>1, <3>2 DEF Persist
  <2>2. CASE Enter(t)
    <3>1. EnterNode(th[t].mem, th[t].at).dec = th[t].mem.dec
      BY <1>0, DecisionsKept
    <3>2. QED
      BY <2>2, <3>1 DEF Enter, Persist
  <2>3. CASE NodeRetry(t)
    <3>1. RetryNode(th[t].mem, th[t].at).dec = th[t].mem.dec
      BY <1>0, DecisionsKept
    <3>2. QED
      BY <2>3, <3>1 DEF NodeRetry, Persist
  <2>4. CASE NodeErrorExit(t)
    <3>1. ErrorExitNode(th[t].mem, th[t].at).dec = th[t].mem.dec
      BY <1>0, DecisionsKept
    <3>2. QED
      BY <2>4, <3>1 DEF NodeErrorExit, Persist
  <2>5. QED
    BY <2>1, <2>2, <2>3, <2>4
<1> DEFINE L(place, n, k) == [ th[t] EXCEPT !.mem = s, !.pc = place, !.at = n, !.task = k ]
           Becomes(l) == th' = [ th EXCEPT ![t] = l ]
<1>a. \A place, n, k : L(place, n, k).mem = s /\ L(place, n, k).ruling = th[t].ruling
  BY <1>0 DEF ThreadState
<1>b. \E place, n, k : Becomes(L(place, n, k))
  <2>1. CASE th' = [ th EXCEPT ![t].mem = s, ![t].pc = "execute" ]
    <3>1. Becomes(L("execute", th[t].at, th[t].task))
      BY <1>0, <2>1 DEF ThreadState
    <3> HIDE DEF L, Becomes
    <3>2. QED
      BY <3>1
  <2>2. CASE th' = [ th EXCEPT ![t].mem = s, ![t].pc = "loop", ![t].task = 0 ]
    <3>1. Becomes(L("loop", th[t].at, 0))
      BY <1>0, <2>2 DEF ThreadState
    <3> HIDE DEF L, Becomes
    <3>2. QED
      BY <3>1
  <2>3. ASSUME NEW n, th' = [ th EXCEPT ![t].mem = s, ![t].at = n ]
        PROVE  \E place, m, k : Becomes(L(place, m, k))
    <3>1. Becomes(L(th[t].pc, n, th[t].task))
      BY <1>0, <2>3 DEF ThreadState
    <3> HIDE DEF L, Becomes
    <3>2. QED
      BY <3>1
  <2>4. ASSUME NEW n, th' = [ th EXCEPT ![t].mem = s, ![t].pc = "loop", ![t].at = n, ![t].task = 0 ]
        PROVE  \E place, m, k : Becomes(L(place, m, k))
    <3>1. Becomes(L("loop", n, 0))
      BY <1>0, <2>4 DEF ThreadState
    <3> HIDE DEF L, Becomes
    <3>2. QED
      BY <3>1
  <2> HIDE DEF L, Becomes
  <2>5. QED
    BY <1>1, <2>1, <2>2, <2>3, <2>4
<1> HIDE DEF L, Becomes
<1>c. PICK l : Becomes(l) /\ l.mem = s /\ l.ruling = th[t].ruling
  BY <1>a, <1>b
<1>2. th' = [ th EXCEPT ![t] = l ] /\ l.mem = s /\ l.ruling = th[t].ruling
  BY <1>c DEF Becomes
<1>3. UNCHANGED pauses
  BY DEF GateReroute, Enter, NodeRetry, NodeErrorExit, approvals
<1>4. Genuine(pauses, s)
  BY <1>0, <1>1, SameDecisions
<1>5. QED
  BY <1>1, <1>2, <1>3, <1>4, SavesKeep

LEMMA NodeDoneKeeps ==
  ASSUME TypeOK, NoForgedDecision, NEW t \in Thread, NodeDone(t) \/ RedoDone(t)
  PROVE  NoForgedDecision'
<1>0. th \in [ Thread -> ThreadState ] /\ th[t] \in ThreadState /\ th[t].at \in Node
  BY HandlerFacts DEF NodeDone, RedoDone, At, Sound
<1>1. UNCHANGED pauses
  BY DEF NodeDone, RedoDone, approvals
<1>2. PICK out \in Outputs(DefOf(t), th[t].at, th[t].mem) :
        \E s, l : /\ s \in { FinishNode(Decided(t, out), th[t].at), FinishResumed(Decided(t, out), th[t].at) }
                  /\ snap' = s \/ \E n : snap' = [ s EXCEPT !.cur = n ]
                  /\ th' = [ th EXCEPT ![t] = l ]
                  /\ l = Idle \/ l = [ Idle EXCEPT !.pc = "load" ]
                     \/ (l.mem = s /\ l.ruling = th[t].ruling)
  <2>1. CASE NodeDone(t)
    <3>1. PICK out \in Outputs(DefOf(t), th[t].at, th[t].mem) :
            LET target == TargetOf(DefOf(t), th[t].at, out)
                s == FinishNode(Decided(t, out), th[t].at)
            IN  /\ Persist(s)
                /\ \/ th' = [ th EXCEPT ![t].mem = s, ![t].pc = "complete" ]
                   \/ th' = [ th EXCEPT ![t].mem = s, ![t].pc = "loop", ![t].at = target ]
      BY <2>1 DEF NodeDone
    <3> DEFINE target == TargetOf(DefOf(t), th[t].at, out)
               s == FinishNode(Decided(t, out), th[t].at)
               goes == [ th[t] EXCEPT !.mem = s, !.pc = "loop", !.at = target ]
               ends == [ th[t] EXCEPT !.mem = s, !.pc = "complete" ]
    <3>2. snap' = s /\ (th' = [ th EXCEPT ![t] = goes ] \/ th' = [ th EXCEPT ![t] = ends ])
      BY <1>0, <3>1 DEF Persist
    <3> HIDE DEF s, target
    <3>3. goes.mem = s /\ goes.ruling = th[t].ruling /\ ends.mem = s /\ ends.ruling = th[t].ruling
      BY <1>0 DEF ThreadState
    <3>4. s \in { FinishNode(Decided(t, out), th[t].at), FinishResumed(Decided(t, out), th[t].at) }
      BY DEF s
    <3> HIDE DEF goes, ends
    <3>5. QED
      BY <3>2, <3>3, <3>4
  <2>2. CASE RedoDone(t)
    <3>1. PICK out \in Outputs(DefOf(t), th[t].at, th[t].mem) :
            LET target == TargetOf(DefOf(t), th[t].at, out)
                s == FinishResumed(Decided(t, out), th[t].at)
            IN  \/ Persist(s) /\ th' = [ th EXCEPT ![t].mem = s, ![t].pc = "complete" ]
                \/ /\ Persist([ s EXCEPT !.cur = AsNode(target) ])
                   /\ Become(t, [ Idle EXCEPT !.pc = "load" ])
      BY <2>2 DEF RedoDone
    <3> DEFINE target == TargetOf(DefOf(t), th[t].at, out)
               s == FinishResumed(Decided(t, out), th[t].at)
               ends == [ th[t] EXCEPT !.mem = s, !.pc = "complete" ]
    <3>2. \/ snap' = s /\ th' = [ th EXCEPT ![t] = ends ]
          \/ /\ snap' = [ s EXCEPT !.cur = AsNode(target) ]
             /\ th' = [ th EXCEPT ![t] = [ Idle EXCEPT !.pc = "load" ] ]
      BY <1>0, <3>1 DEF Persist, Become
    <3> HIDE DEF s, target
    <3>3. ends.mem = s /\ ends.ruling = th[t].ruling
      BY <1>0 DEF ThreadState
    <3>4. s \in { FinishNode(Decided(t, out), th[t].at), FinishResumed(Decided(t, out), th[t].at) }
      BY DEF s
    <3> HIDE DEF ends
    <3>5. QED
      BY <3>2, <3>3, <3>4
  <2>3. QED
    BY <2>1, <2>2
<1>3. PICK s, l :
        /\ s \in { FinishNode(Decided(t, out), th[t].at), FinishResumed(Decided(t, out), th[t].at) }
        /\ snap' = s \/ \E n : snap' = [ s EXCEPT !.cur = n ]
        /\ th' = [ th EXCEPT ![t] = l ]
        /\ l = Idle \/ l = [ Idle EXCEPT !.pc = "load" ] \/ (l.mem = s /\ l.ruling = th[t].ruling)
  BY <1>2
<1>4. Decided(t, out) \in Snapshot /\ Genuine(pauses, Decided(t, out))
  BY <1>0, DecidedGenuine
<1>5. s \in Snapshot /\ s.dec = Decided(t, out).dec
  <2> DEFINE d == Decided(t, out)
  <2>1. /\ FinishNode(d, th[t].at) \in Snapshot /\ FinishResumed(d, th[t].at) \in Snapshot
        /\ FinishNode(d, th[t].at).dec = d.dec /\ FinishResumed(d, th[t].at).dec = d.dec
    <3> HIDE DEF d
    <3>1. d \in Snapshot
      BY <1>4 DEF d
    <3>2. QED
      BY <1>0, <3>1, SnapshotUpdates, DecisionsKept
  <2>2. QED
    BY <1>3, <2>1
<1>6. Genuine(pauses, s) /\ snap'.dec = s.dec
  <2>1. Genuine(pauses, s)
    BY <1>4, <1>5, SameDecisions
  <2>2. \A n : [ s EXCEPT !.cur = n ].dec = s.dec
    BY <1>5, DecisionsKept
  <2>3. QED
    BY <1>3, <2>1, <2>2
<1>7. /\ l.mem = s \/ l.mem.dec = Idle.mem.dec
      /\ l.ruling = th[t].ruling \/ l.ruling = NoRuling
  BY <1>3 DEF Idle
<1>8. QED
  BY <1>1, <1>3, <1>6, <1>7, SavesKeep

LEMMA SaveKeeps ==
  ASSUME TypeOK, NoForgedDecision, NEW t \in Thread, Save(t) \/ ResumeSave(t)
  PROVE  NoForgedDecision'
<1>0. th \in [ Thread -> ThreadState ] /\ th[t] \in ThreadState /\ Genuine(pauses, th[t].mem)
  BY HandlerFacts, Restated DEF Honest
<1>1. snap' = th[t].mem /\ UNCHANGED pauses
  BY DEF Save, ResumeSave, Persist, approvals
<1>2. \/ \E place : th' = [ th EXCEPT ![t].pc = place ]
      \/ th' = [ th EXCEPT ![t] = Idle ]
  BY DEF Save, ResumeSave, Goto, Finish, Become
<1>3. ASSUME NEW place, th' = [ th EXCEPT ![t].pc = place ] PROVE NoForgedDecision'
  <2> DEFINE l == [ th[t] EXCEPT !.pc = place ]
  <2>1. th' = [ th EXCEPT ![t] = l ] /\ l.mem = th[t].mem /\ l.ruling = th[t].ruling
    BY <1>0, <1>3 DEF ThreadState
  <2> HIDE DEF l
  <2>2. QED
    BY <1>0, <1>1, <2>1, SavesKeep
<1>4. CASE th' = [ th EXCEPT ![t] = Idle ]
  <2>1. Idle.ruling = NoRuling /\ Idle.mem.dec = Idle.mem.dec
    BY DEF Idle
  <2>2. QED
    BY <1>0, <1>1, <1>4, <2>1, SavesKeep
<1>5. QED
  BY <1>2, <1>3, <1>4

LEMMA RouteKeeps ==
  ASSUME TypeOK, NoForgedDecision, NEW t \in Thread, Route(t)
  PROVE  NoForgedDecision'
<1> DEFINE target == TargetOf(Definitions[version], th[t].ruling.node, th[t].ruling.decision)
           s == [ th[t].mem EXCEPT !.cur = AsNode(target) ]
<1>0. th[t].mem \in Snapshot /\ Genuine(pauses, th[t].mem)
  BY HandlerFacts, Restated DEF Honest
<1>1. UNCHANGED pauses
  BY DEF Route, approvals
<1>2. \/ Finish(t) /\ UNCHANGED snap
      \/ Persist(s) /\ Become(t, [ Idle EXCEPT !.pc = "load" ])
  BY DEF Route
<1>3. s.dec = th[t].mem.dec
  BY <1>0, DecisionsKept
<1> HIDE DEF s
<1>4. CASE Persist(s) /\ Become(t, [ Idle EXCEPT !.pc = "load" ])
  <2> DEFINE l == [ Idle EXCEPT !.pc = "load" ]
  <2>1. l.ruling = NoRuling /\ l.mem.dec = Idle.mem.dec
    BY DEF Idle
  <2>2. snap' = s /\ th' = [ th EXCEPT ![t] = l ]
    BY <1>4 DEF Persist, Become
  <2>3. Genuine(pauses, s)
    BY <1>0, <1>3, SameDecisions
  <2> HIDE DEF l
  <2>4. QED
    BY <1>1, <2>1, <2>2, <2>3, SavesKeep
<1>5. QED
  BY <1>1, <1>2, <1>4, Gone

-------------------------------------------------------------------------------
(* Steps that make a ruling or write it.                                   *)

\* A handler begins with a ruling that is a timeout or a decision made.
LEMMA RulingStep ==
  ASSUME TypeOK, NoForgedDecision, NEW t \in Thread, NEW r, NEW place, Grows, UNCHANGED snap,
         Become(t, [ Idle EXCEPT !.pc = place, !.ruling = r ]),
         r.decision \in Ruled => Real(pauses', r.decision)
  PROVE  NoForgedDecision'
<1> DEFINE l == [ Idle EXCEPT !.pc = place, !.ruling = r ]
<1>1. l.ruling = r /\ l.mem.dec = Idle.mem.dec
  BY DEF Idle
<1>2. \A n \in Node : l.mem.dec[n] = NoDecision
  BY <1>1 DEF Idle, BlankSnapshot
<1>3. Honest(pauses', l)
  BY <1>1, <1>2 DEF Honest, Genuine, Ruled, NoDecision
<1>4. Genuine(pauses', snap')
  BY Restated, GenuineStays
<1>5. QED
  BY <1>3, <1>4, HandlerStep DEF Become

LEMMA DecideKeeps ==
  ASSUME TypeOK, NoForgedDecision, NEW t \in Thread, Decide(t)
  PROVE  NoForgedDecision'
<1>1. PICK p \in DOMAIN pauses, d \in Ruled :
        /\ pauses[p].st = "waiting"
        /\ pauses' = [ pauses EXCEPT ![p].st = "decided", ![p].decision = d ]
        /\ Become(t, [ Idle EXCEPT !.pc = "resume", !.ruling = RulingOf(p, d) ])
  BY DEF Decide, Decidable, Ruled
<1>2. Grows /\ Real(pauses', d)
  BY <1>1, PauseRuled
<1>3. RulingOf(p, d).decision = d /\ UNCHANGED snap
  BY DEF RulingOf, Decide, row
<1>4. QED
  BY <1>1, <1>2, <1>3, RulingStep

LEMMA TimeoutKeeps ==
  ASSUME TypeOK, NoForgedDecision, NEW t \in Thread, NEW p \in DOMAIN pauses, TakeTimeout(t, p),
         UNCHANGED snap
  PROVE  NoForgedDecision'
<1>1. CASE pauses[p].st = "waiting"
  <2>1. /\ pauses' = [ pauses EXCEPT ![p].st = "timeout", ![p].decision = "timeout" ]
        /\ Become(t, [ Idle EXCEPT !.pc = "timeoutRead", !.ruling = RulingOf(p, "timeout") ])
    BY <1>1 DEF TakeTimeout, TimeoutDecision
  <2>2. Grows
    BY <1>1, <2>1, PauseRuled
  <2>3. RulingOf(p, "timeout").decision \notin Ruled
    BY DEF RulingOf, Ruled
  <2>4. QED
    BY <2>1, <2>2, <2>3, RulingStep
<1>2. CASE pauses[p].st # "waiting"
  BY <1>2, PausesKept, NobodyMoves DEF TakeTimeout
<1>3. QED
  BY <1>1, <1>2

LEMMA JobsKeep ==
  ASSUME TypeOK, NoForgedDecision, NEW t \in Thread, NodeTimeout(t) \/ RecoverWaiting(t)
  PROVE  NoForgedDecision'
<1>1. UNCHANGED snap
  BY DEF NodeTimeout, RecoverWaiting, row
<1>2. jobs \subseteq DOMAIN pauses /\ PausesIn("waiting") \subseteq DOMAIN pauses
  BY TypeParts DEF ApprovalsOK, PausesIn
<1>3. \/ \E p \in DOMAIN pauses : TakeTimeout(t, p)
      \/ UNCHANGED << pauses, th >>
  BY <1>2 DEF NodeTimeout, RecoverWaiting
<1>4. QED
  BY <1>1, <1>3, TimeoutKeeps, PausesKept, NobodyMoves

LEMMA RecoverDecidedKeeps ==
  ASSUME TypeOK, NoForgedDecision, NEW t \in Thread, RecoverDecided(t)
  PROVE  NoForgedDecision'
<1>1. PICK p \in PausesIn("decided") :
        Become(t, [ Idle EXCEPT !.pc = "resume", !.ruling = RulingOf(p, pauses[p].decision) ])
  BY DEF RecoverDecided
<1>2. UNCHANGED << pauses, snap >>
  BY DEF RecoverDecided, row, approvals
<1>3. Real(pauses', pauses[p].decision)
  BY <1>2 DEF PausesIn, Real
<1>4. RulingOf(p, pauses[p].decision).decision = pauses[p].decision
  BY DEF RulingOf
<1>5. QED
  BY <1>1, <1>2, <1>3, <1>4, PausesKept, RulingStep

LEMMA AskHumanKeeps ==
  ASSUME TypeOK, NoForgedDecision, NEW t \in Thread, AskHuman(t)
  PROVE  NoForgedDecision'
<1> DEFINE place == IF DefOf(t).nodeTimeout[th[t].at] THEN "arm" ELSE "suspend"
           l == [ th[t] EXCEPT !.pause = Len(pauses) + 1, !.task = 0, !.pc = place ]
<1>1. th \in [ Thread -> ThreadState ] /\ th[t] \in ThreadState
  BY HandlerFacts
<1>2. th' = [ th EXCEPT ![t].pause = Len(pauses) + 1, ![t].task = 0, ![t].pc = place ]
      /\ UNCHANGED snap
  BY DEF AskHuman, row
<1> HIDE DEF place
<1>3. th' = [ th EXCEPT ![t] = l ] /\ Same(l, t)
  BY <1>1, <1>2 DEF Same, ThreadState
<1>4. \E p : pauses' = Append(pauses, p)
  BY DEF AskHuman
<1>5. QED
  BY <1>2, <1>3, <1>4, PauseAdded, PlainStep

\* The ruling a resume writes into the snapshot is one that was made.
LEMMA ResumeLoadKeeps ==
  ASSUME TypeOK, NoForgedDecision, NEW t \in Thread, ResumeLoad(t)
  PROVE  NoForgedDecision'
<1> DEFINE r == th[t].ruling
           s == RuleNode(snap, r)
           place == IF CountsAsRejection(r) THEN "reject" ELSE "retake"
           l == [ th[t] EXCEPT !.mem = s, !.counted = rejections, !.pc = place ]
<1>1. th \in [ Thread -> ThreadState ] /\ th[t] \in ThreadState /\ snap \in Snapshot
      /\ Sound(th[t], Len(pauses)) /\ th[t].pc = "resume"
  BY HandlerFacts DEF ResumeLoad, At
<1>2. r \in Ruling /\ r.node \in Node
  BY <1>1 DEF Sound, InResume, Ruling
<1>3. Genuine(pauses, snap) /\ (r.decision \in Ruled => Real(pauses, r.decision))
  BY Restated DEF Honest
<1>4. Genuine(pauses, s)
  <2>1. \A n \in Node : s.dec[n] = IF n = r.node THEN r.decision ELSE snap.dec[n]
    BY <1>1, <1>2 DEF RuleNode, Snapshot
  <2>2. QED
    BY <1>3, <2>1 DEF Genuine
<1>5. th' = [ th EXCEPT ![t].mem = s, ![t].counted = rejections, ![t].pc = place ]
      /\ UNCHANGED << pauses, snap >>
  BY DEF ResumeLoad, row, approvals
<1> HIDE DEF s, place
<1>6. th' = [ th EXCEPT ![t] = l ] /\ l.mem = s /\ l.ruling = th[t].ruling
  BY <1>1, <1>5 DEF ThreadState
<1> HIDE DEF l
<1>7. QED
  BY <1>3, <1>4, <1>5, <1>6, SavingKeeps

-------------------------------------------------------------------------------
(* The theorem.                                                            *)

LEMMA DecisionsStep == TypeOK /\ NoForgedDecision /\ [Next]_vars => NoForgedDecision'
<1> SUFFICES ASSUME TypeOK, NoForgedDecision, [Next]_vars PROVE NoForgedDecision'
  OBVIOUS
<1>1. ASSUME NEW t \in Thread, Proceed(t) PROVE NoForgedDecision'
  BY <1>1, LoadKeeps, EndsKeep, GateKeeps, NodeDoneKeeps, AskHumanKeeps, MovesKeep, SaveKeeps,
     BeginningsKeep, ResumeLoadKeeps, RouteKeeps, WakeLoadKeeps DEF Proceed
<1>2. ASSUME NEW t \in Thread, Recover(t) PROVE NoForgedDecision'
  BY <1>2, BeginningsKeep, JobsKeep, RecoverDecidedKeeps DEF Recover
<1>3. ASSUME NEW t \in Thread,
             \/ Start(t) \/ StartRefused(t) \/ Throw(t) \/ Decide(t) \/ ToolCallback(t)
             \/ NodeTimeout(t) \/ SopTimeout(t) \/ CancelRead(t) \/ Crash(t)
      PROVE  NoForgedDecision'
  BY <1>3, BeginningsKeep, EndsKeep, DecideKeeps, JobsKeep
<1>4. CASE LimitPasses \/ RowAges \/ EditDefinition \/ UNCHANGED vars
  <2>1. UNCHANGED << snap, th, pauses >>
    BY <1>4 DEF LimitPasses, RowAges, EditDefinition, vars, row, approvals
  <2>2. QED
    BY <2>1, PausesKept, NobodyMoves
<1>5. QED
  BY <1>1, <1>2, <1>3, <1>4 DEF Next

\* An approval or a rejection that the row or any handler holds was made by an
\* approver, whatever jobs, crashes, recoveries and edits come in between.
THEOREM DecisionsAreMade == Spec => []NoForgedDecision
<1>1. Init => NoForgedDecision
  <2> SUFFICES ASSUME Init PROVE NoForgedDecision
    OBVIOUS
  <2>1. Genuine(pauses, snap)
    BY DEF Init, BlankSnapshot, Genuine, Ruled, NoDecision
  <2>2. \A t \in Thread : Honest(pauses, th[t])
    BY FreshHonest, IdleFresh DEF Init
  <2>3. QED
    BY <2>1, <2>2, Restated
<1>2. TypeOK /\ NoForgedDecision /\ [Next]_vars => NoForgedDecision'
  BY DecisionsStep
<1>3. QED
  BY <1>1, <1>2, TypeCorrect, PTL DEF Spec
-------------------------------------------------------------------------------
(* Where handlers with a ruling are.                                       *)

\* A handler at one of these places has a ruling it has not applied yet.
Claiming == { "timeoutRead", "resume", "reject", "retake" }
\* At one of these it goes on with a ruling, applied or not.
Heeding == Claiming \cup { "resumeSave", "route" }
Others(t) == \A u \in Thread \ { t } : th'[u] = th[u]

LEMMA MovesTo ==
  ASSUME TypeOK, NEW t \in Thread, NEW l, Become(t, l)
  PROVE  th'[t] = l /\ Others(t)
BY HandlerFacts DEF Become, Others

LEMMA GoesTo ==
  ASSUME TypeOK, NEW t \in Thread, NEW place, Goto(t, place)
  PROVE  /\ Others(t) /\ th'[t].pc = place
         /\ th'[t].ruling = th[t].ruling /\ th'[t].counted = th[t].counted
BY HandlerFacts DEF Goto, Others, ThreadState

\* A handler that has just been given its ruling.
Given(t, p, d, place) ==
  Become(t, [ Idle EXCEPT !.pc = place, !.ruling = RulingOf(p, d) ])

LEMMA RulesAt ==
  ASSUME TypeOK, NEW t \in Thread, NEW p, NEW d, NEW place, Given(t, p, d, place)
  PROVE  /\ Others(t) /\ th'[t].pc = place
         /\ th'[t].ruling.pause = p /\ th'[t].ruling.decision = d
         /\ th'[t].ruling.node = pauses[p].node
<1> DEFINE l == [ Idle EXCEPT !.pc = place, !.ruling = RulingOf(p, d) ]
<1>1. l.pc = place /\ l.ruling = RulingOf(p, d)
  BY DEF Idle
<1>2. /\ RulingOf(p, d).pause = p /\ RulingOf(p, d).decision = d
      /\ RulingOf(p, d).node = pauses[p].node
  BY DEF RulingOf
<1> HIDE DEF l
<1>3. th'[t] = l /\ Others(t)
  BY MovesTo DEF Given, l
<1>4. QED
  BY <1>1, <1>2, <1>3

LEMMA BegunElsewhere ==
  /\ Idle.pc \notin Heeding
  /\ [ Idle EXCEPT !.pc = "load" ].pc \notin Heeding
  /\ \A k : [ Idle EXCEPT !.pc = "wake", !.task = k ].pc \notin Heeding
  /\ \A k : [ Idle EXCEPT !.pc = "count", !.task = k ].pc \notin Heeding
  /\ \A s : [ Idle EXCEPT !.pc = "timeoutEnd", !.seen = s ].pc \notin Heeding
  /\ \A s : [ Idle EXCEPT !.pc = "cancel", !.seen = s ].pc \notin Heeding
BY DEF Idle, Claiming, Heeding

\* Every handler but those that take, load, count or recover a ruling ends its step
\* at a place where it has none.
LEMMA EndsUnruled ==
  ASSUME TypeOK, NEW t \in Thread,
         \/ LoadWithoutStartNode(t) \/ LimitReached(t) \/ NodeMissing(t) \/ GateTerminate(t)
         \/ Complete(t) \/ NodeFatal(t) \/ RedoFail(t) \/ TimeoutEnd(t) \/ Throw(t)
         \/ RejectLimit(t) \/ Cancel(t) \/ Crash(t)
  PROVE  Others(t) /\ th'[t].pc \notin Heeding
<1>1. Finish(t)
  BY DEF LoadWithoutStartNode, LimitReached, NodeMissing, GateTerminate, Complete, NodeFatal,
     RedoFail, TimeoutEnd, Throw, RejectLimit, Cancel, Crash
<1>2. QED
  BY <1>1, MovesTo, BegunElsewhere DEF Finish

LEMMA BeginsUnruled ==
  ASSUME TypeOK, NEW t \in Thread,
         \/ Start(t) \/ StartRefused(t) \/ ToolCallback(t) \/ SopTimeout(t) \/ CancelRead(t)
         \/ RecoverRunning(t) \/ RecoverLost(t) \/ RecoverError(t) \/ Guard(t)
  PROVE  Others(t) /\ th'[t].pc \notin Heeding
<1>1. \/ UNCHANGED th /\ At(t, "idle")
      \/ Become(t, Idle)
      \/ Become(t, [ Idle EXCEPT !.pc = "load" ])
      \/ \E k : Become(t, [ Idle EXCEPT !.pc = "count", !.task = k ])
      \/ \E k : Become(t, [ Idle EXCEPT !.pc = "wake", !.task = k ])
      \/ \E s : Become(t, [ Idle EXCEPT !.pc = "timeoutEnd", !.seen = s ])
      \/ \E s : Become(t, [ Idle EXCEPT !.pc = "cancel", !.seen = s ])
  <2>1. CASE Start(t) \/ StartRefused(t) \/ RecoverRunning(t) \/ RecoverLost(t) \/ RecoverError(t)
    BY <2>1 DEF Start, StartRefused, RecoverRunning, RecoverLost, RecoverError, Recovers
  <2>2. CASE ToolCallback(t) \/ Guard(t)
    BY <2>2 DEF ToolCallback, Guard, Finish
  <2>3. CASE SopTimeout(t) \/ CancelRead(t)
    BY <2>3 DEF SopTimeout, CancelRead
  <2>4. QED
    BY <2>1, <2>2, <2>3
<1>2. ASSUME NEW l, Become(t, l), l.pc \notin Heeding
      PROVE  Others(t) /\ th'[t].pc \notin Heeding
  BY <1>2, MovesTo
<1>3. UNCHANGED th /\ At(t, "idle") => Others(t) /\ th'[t].pc \notin Heeding
  BY DEF Others, At, Claiming, Heeding
<1>4. QED
  BY <1>1, <1>2, <1>3, BegunElsewhere

LEMMA DrivesUnheeding ==
  ASSUME TypeOK, NEW t \in Thread,
         \/ Load(t) \/ GateReroute(t) \/ Enter(t) \/ NodeDone(t) \/ NodeRetry(t)
         \/ NodeErrorExit(t) \/ AskHuman(t) \/ Arm(t) \/ Dispatch(t) \/ DispatchFailed(t)
         \/ Suspend(t) \/ Save(t) \/ Route(t) \/ Count(t)
         \/ WakeLoad(t) \/ WakeCas(t) \/ RedoDone(t)
  PROVE  Others(t) /\ th'[t].pc \notin Heeding
<1>0. th \in [ Thread -> ThreadState ] /\ th[t] \in ThreadState
  BY HandlerFacts
<1>1. CASE Load(t)
  <2> DEFINE s == StartSnapshot(snap, Definitions[version])
             l == [ Idle EXCEPT !.pc = "loop", !.ver = version, !.mem = s, !.at = s.cur ]
  <2>1. Become(t, l)
    BY <1>1 DEF Load
  <2> HIDE DEF s
  <2>2. l.pc = "loop"
    BY DEF Idle
  <2> HIDE DEF l
  <2>3. QED
    BY <2>1, <2>2, MovesTo DEF Claiming, Heeding
<1>2. CASE GateReroute(t)
  <2>1. Others(t) /\ th'[t].pc = "loop"
    <3>1. th[t].pc = "loop" /\ \E s, n : th' = [ th EXCEPT ![t].mem = s, ![t].at = n ]
      BY <1>2 DEF GateReroute, AtNode, At
    <3>2. QED
      BY <1>0, <3>1 DEF Others, ThreadState
  <2>2. QED
    BY <2>1 DEF Claiming, Heeding
<1>3. CASE Enter(t) \/ AskHuman(t) \/ Arm(t) \/ Dispatch(t)
  <2>1. \/ \E s : th' = [ th EXCEPT ![t].mem = s, ![t].pc = "execute" ]
        \/ \E p, place : /\ place \in { "arm", "suspend" }
                         /\ th' = [ th EXCEPT ![t].pause = p, ![t].task = 0, ![t].pc = place ]
        \/ th' = [ th EXCEPT ![t].pc = "suspend", ![t].pause = 0 ]
        \/ \E k : th' = [ th EXCEPT ![t].pc = "dispatch", ![t].task = k ]
    <3>1. CASE AskHuman(t)
      <4> DEFINE place == IF DefOf(t).nodeTimeout[th[t].at] THEN "arm" ELSE "suspend"
      <4>1. th' = [ th EXCEPT ![t].pause = Len(pauses) + 1, ![t].task = 0, ![t].pc = place ]
        BY <3>1 DEF AskHuman
      <4>2. place \in { "arm", "suspend" }
        OBVIOUS
      <4> HIDE DEF place
      <4>3. QED
        BY <4>1, <4>2
    <3>2. CASE Enter(t) \/ Arm(t) \/ Dispatch(t)
      BY <3>2 DEF Enter, Arm, Dispatch
    <3>3. QED
      BY <1>3, <3>1, <3>2
  <2>2. ASSUME NEW s, th' = [ th EXCEPT ![t].mem = s, ![t].pc = "execute" ]
        PROVE  Others(t) /\ th'[t].pc \notin Heeding
    BY <1>0, <2>2 DEF Others, Claiming, Heeding, ThreadState
  <2>3. ASSUME NEW p, NEW place \in { "arm", "suspend" },
               th' = [ th EXCEPT ![t].pause = p, ![t].task = 0, ![t].pc = place ]
        PROVE  Others(t) /\ th'[t].pc \notin Heeding
    BY <1>0, <2>3 DEF Others, Claiming, Heeding, ThreadState
  <2>4. ASSUME th' = [ th EXCEPT ![t].pc = "suspend", ![t].pause = 0 ]
        PROVE  Others(t) /\ th'[t].pc \notin Heeding
    BY <1>0, <2>4 DEF Others, Claiming, Heeding, ThreadState
  <2>5. ASSUME NEW k, th' = [ th EXCEPT ![t].pc = "dispatch", ![t].task = k ]
        PROVE  Others(t) /\ th'[t].pc \notin Heeding
    BY <1>0, <2>5 DEF Others, Claiming, Heeding, ThreadState
  <2>6. QED
    BY <2>1, <2>2, <2>3, <2>4, <2>5
<1>4. CASE NodeDone(t)
  <2>1. \/ \E s : th' = [ th EXCEPT ![t].mem = s, ![t].pc = "complete" ]
        \/ \E s, n : th' = [ th EXCEPT ![t].mem = s, ![t].pc = "loop", ![t].at = n ]
    BY <1>4 DEF NodeDone
  <2>2. ASSUME NEW s, th' = [ th EXCEPT ![t].mem = s, ![t].pc = "complete" ]
        PROVE  Others(t) /\ th'[t].pc \notin Heeding
    BY <1>0, <2>2 DEF Others, Claiming, Heeding, ThreadState
  <2>3. ASSUME NEW s, NEW n, th' = [ th EXCEPT ![t].mem = s, ![t].pc = "loop", ![t].at = n ]
        PROVE  Others(t) /\ th'[t].pc \notin Heeding
    BY <1>0, <2>3 DEF Others, Claiming, Heeding, ThreadState
  <2>4. QED
    BY <2>1, <2>2, <2>3
<1>5. CASE NodeRetry(t) \/ NodeErrorExit(t)
  <2>1. Others(t) /\ th'[t].pc = "loop"
    BY <1>0, <1>5 DEF NodeRetry, NodeErrorExit, Others, ThreadState
  <2>2. QED
    BY <2>1 DEF Claiming, Heeding
<1>6. CASE DispatchFailed(t)
  <2>1. Others(t) /\ th'[t].pc = "dispatch"
    BY <1>6 DEF DispatchFailed, Others, At
  <2>2. QED
    BY <2>1 DEF Claiming, Heeding
<1>7. CASE Suspend(t) \/ Save(t) \/ Count(t)
  <2>1. \/ \E place \in { "save", "guard", "wake" } : Goto(t, place)
        \/ Become(t, Idle)
    BY <1>7 DEF Suspend, Save, Count, Finish
  <2>2. ASSUME NEW place \in { "save", "guard", "wake" }, Goto(t, place)
        PROVE  Others(t) /\ th'[t].pc \notin Heeding
    BY <2>2, GoesTo DEF Claiming, Heeding
  <2>3. QED
    BY <2>1, <2>2, MovesTo, BegunElsewhere
<1>8. CASE Route(t)
  <2>1. Become(t, Idle) \/ Become(t, [ Idle EXCEPT !.pc = "load" ])
    BY <1>8 DEF Route, Finish
  <2>2. QED
    BY <2>1, MovesTo, BegunElsewhere
<1>9. CASE WakeLoad(t) \/ WakeCas(t)
  <2>1. \/ Become(t, Idle)
        \/ th' = [ th EXCEPT ![t].pc = "wakeCas", ![t].mem = snap, ![t].at = snap.cur ]
        \/ th' = [ th EXCEPT ![t].pc = "redo", ![t].mode = "wake", ![t].ver = version ]
    BY <1>9 DEF WakeLoad, WakeCas, Finish
  <2>2. CASE \/ th' = [ th EXCEPT ![t].pc = "wakeCas", ![t].mem = snap, ![t].at = snap.cur ]
             \/ th' = [ th EXCEPT ![t].pc = "redo", ![t].mode = "wake", ![t].ver = version ]
    BY <1>0, <2>2 DEF Others, Claiming, Heeding, ThreadState
  <2>3. QED
    BY <2>1, <2>2, MovesTo, BegunElsewhere
<1>10. CASE RedoDone(t)
  <2>1. \/ \E s : th' = [ th EXCEPT ![t].mem = s, ![t].pc = "complete" ]
        \/ Become(t, [ Idle EXCEPT !.pc = "load" ])
    BY <1>10 DEF RedoDone
  <2>2. ASSUME NEW s, th' = [ th EXCEPT ![t].mem = s, ![t].pc = "complete" ]
        PROVE  Others(t) /\ th'[t].pc \notin Heeding
    BY <1>0, <2>2 DEF Others, Claiming, Heeding, ThreadState
  <2>3. QED
    BY <2>1, <2>2, MovesTo, BegunElsewhere
<1>11. QED
  BY <1>1, <1>2, <1>3, <1>4, <1>5, <1>6, <1>7, <1>8, <1>9, <1>10

LEMMA AppliesRuling ==
  ASSUME TypeOK, NEW t \in Thread, Retake(t) \/ ResumeSave(t)
  PROVE  /\ Others(t) /\ th'[t].pc \notin Claiming
         /\ \/ th'[t].pc \notin Heeding
            \/ th[t].pc \in Heeding /\ th'[t].ruling = th[t].ruling
<1>1. th[t].pc \in Heeding
  BY DEF Retake, ResumeSave, At, Claiming, Heeding
<1>2. (\E place \in { "resumeSave", "route" } : Goto(t, place)) \/ Become(t, Idle)
  BY DEF Retake, ResumeSave, Finish
<1>3. ASSUME NEW place \in { "resumeSave", "route" }, Goto(t, place)
      PROVE  Others(t) /\ th'[t].pc \notin Claiming /\ th'[t].ruling = th[t].ruling
  BY <1>3, GoesTo DEF Claiming
<1>4. QED
  BY <1>1, <1>2, <1>3, MovesTo, BegunElsewhere DEF Heeding

LEMMA DrivesUnruled ==
  ASSUME TypeOK, NEW t \in Thread,
         \/ Load(t) \/ GateReroute(t) \/ Enter(t) \/ NodeDone(t) \/ NodeRetry(t)
         \/ NodeErrorExit(t) \/ AskHuman(t) \/ Arm(t) \/ Dispatch(t) \/ DispatchFailed(t)
         \/ Suspend(t) \/ Save(t) \/ Retake(t) \/ ResumeSave(t) \/ Route(t) \/ Count(t)
         \/ WakeLoad(t) \/ WakeCas(t) \/ RedoDone(t)
  PROVE  Others(t) /\ th'[t].pc \notin Claiming
BY DrivesUnheeding, AppliesRuling DEF Heeding

-------------------------------------------------------------------------------
(* Every rejection counted was made.                                       *)

\* A rejection that is decided and still to be counted.
Owing(l) == l.pc = "reject" \/ (l.pc = "resume" /\ l.ruling.decision = "rejected")
Owed == { t \in Thread : Owing(th[t]) }
Budget == RejectionsMade + used.recoveries

\* RejectionsBacked is not inductive: a handler may be about to count.  What is
\* counted, or was when a handler read it, and what is still to be counted, is
\* together no more than what was decided or recovered.
BackedInv ==
  /\ IsFiniteSet(Owed)
  /\ rejections + Cardinality(Owed) <= Budget
  /\ \A t \in Thread : th[t].pc = "reject" => th[t].counted + Cardinality(Owed) <= Budget
  /\ \A t \in Thread : th[t].pc = "timeoutRead" => th[t].ruling.decision = "timeout"

RejectedIn(ps) == { p \in DOMAIN ps : ps[p].decision = "rejected" }

LEMMA RejectedFinite ==
  ASSUME TypeOK
  PROVE  IsFiniteSet(RejectedIn(pauses)) /\ RejectionsMade = Cardinality(RejectedIn(pauses))
         /\ RejectionsMade \in Nat /\ used.recoveries \in Nat /\ Budget \in Nat
<1>1. IsFiniteSet(DOMAIN pauses)
  <2>1. pauses \in Seq(Pause) /\ Len(pauses) \in Nat /\ DOMAIN pauses = 1 .. Len(pauses)
    BY TypeParts, LenProperties DEF ApprovalsOK
  <2>2. QED
    BY <2>1, FS_Interval
<1>2. IsFiniteSet(RejectedIn(pauses))
  BY <1>1, FS_Subset DEF RejectedIn
<1>3. RejectionsMade = Cardinality(RejectedIn(pauses))
  BY DEF RejectionsMade, RejectedIn
<1>4. RejectionsMade \in Nat
  BY <1>2, <1>3, FS_CardinalityType
<1>5. used.recoveries \in Nat
  BY TypeParts DEF SurroundingsOK, UsedOK
<1>6. QED
  BY <1>2, <1>3, <1>4, <1>5 DEF Budget

\* A pause that is added, or that times out, is no rejection; one that is decided
\* is one more if it is decided so.
LEMMA RejectionsAfter ==
  ASSUME TypeOK, NEW p \in DOMAIN pauses, pauses[p].st = "waiting", NEW st, NEW d,
         pauses' = [ pauses EXCEPT ![p].st = st, ![p].decision = d ]
  PROVE  RejectionsMade' = IF d = "rejected" THEN RejectionsMade + 1 ELSE RejectionsMade
<1>1. /\ pauses[p] \in Pause /\ DOMAIN pauses' = DOMAIN pauses
      /\ \A q \in DOMAIN pauses \ { p } : pauses'[q] = pauses[q]
      /\ pauses'[p] = [ pauses[p] EXCEPT !.st = st, !.decision = d ]
  BY TypeParts, LenProperties, ElementOfSeq DEF ApprovalsOK
<1>2. pauses'[p].decision = d /\ pauses[p].decision # "rejected"
  BY <1>1 DEF Pause, NoDecision
<1>3. p \notin RejectedIn(pauses)
  BY <1>2 DEF RejectedIn
<1>4. RejectedIn(pauses') = IF d = "rejected" THEN RejectedIn(pauses) \cup { p }
                                              ELSE RejectedIn(pauses)
  BY <1>1, <1>2 DEF RejectedIn
<1>5. RejectionsMade' = Cardinality(RejectedIn(pauses'))
  BY DEF RejectionsMade, RejectedIn
<1>6. IsFiniteSet(RejectedIn(pauses)) /\ RejectionsMade = Cardinality(RejectedIn(pauses))
  BY RejectedFinite
<1>7. Cardinality(RejectedIn(pauses) \cup { p }) = RejectionsMade + 1
  BY <1>3, <1>6, FS_AddElement
<1>8. CASE d = "rejected"
  BY <1>4, <1>5, <1>7, <1>8
<1>9. CASE d # "rejected"
  BY <1>4, <1>5, <1>6, <1>9
<1>10. QED
  BY <1>8, <1>9

LEMMA RejectionsAfterAsking ==
  ASSUME TypeOK, NEW r, r.decision = NoDecision, pauses' = Append(pauses, r)
  PROVE  RejectionsMade' = RejectionsMade
<1>1. pauses \in Seq(Pause) /\ DOMAIN pauses = 1 .. Len(pauses) /\ Len(pauses) \in Nat
  BY TypeParts, LenProperties DEF ApprovalsOK
<1>2. /\ DOMAIN pauses' = 1 .. Len(pauses) + 1
      /\ \A q \in 1 .. Len(pauses) : pauses'[q] = pauses[q]
      /\ pauses'[Len(pauses) + 1] = r
  BY <1>1
<1>3. \A q \in DOMAIN pauses' : q \in DOMAIN pauses \/ pauses'[q].decision = NoDecision
  BY <1>1, <1>2
<1>4. RejectedIn(pauses') = RejectedIn(pauses)
  BY <1>1, <1>2, <1>3 DEF RejectedIn, NoDecision
<1>5. QED
  BY <1>4 DEF RejectionsMade, RejectedIn

\* Who still owes a count, after a step of one handler.
LEMMA OwedAfter ==
  ASSUME NEW t \in Thread, IsFiniteSet(Owed), Others(t)
  PROVE  /\ IsFiniteSet(Owed') /\ Cardinality(Owed) \in Nat /\ Cardinality(Owed') \in Nat
         /\ Owing(th'[t]) /\ Owing(th[t]) => Cardinality(Owed') = Cardinality(Owed)
         /\ Owing(th'[t]) /\ ~Owing(th[t]) => Cardinality(Owed') = Cardinality(Owed) + 1
         /\ ~Owing(th'[t]) /\ Owing(th[t]) => Cardinality(Owed') = Cardinality(Owed) - 1
         /\ ~Owing(th'[t]) /\ ~Owing(th[t]) => Cardinality(Owed') = Cardinality(Owed)
<1>1. Owed' = { u \in Thread : Owing(th'[u]) }
  BY DEF Owed, Owing
<1>2. t \in Owed <=> Owing(th[t])
  BY DEF Owed
<1>3. ASSUME NEW u \in Thread, u # t PROVE Owing(th'[u]) <=> Owing(th[u])
  BY <1>3 DEF Others
<1>4. Owing(th'[t]) => Owed' = Owed \cup { t }
  BY <1>1, <1>3 DEF Owed
<1>5. ~Owing(th'[t]) => Owed' = Owed \ { t }
  BY <1>1, <1>3 DEF Owed
<1>6. /\ Cardinality(Owed) \in Nat
      /\ IsFiniteSet(Owed \cup { t }) /\ IsFiniteSet(Owed \ { t })
      /\ Cardinality(Owed \cup { t }) \in Nat /\ Cardinality(Owed \ { t }) \in Nat
      /\ Cardinality(Owed \cup { t }) = IF t \in Owed THEN Cardinality(Owed)
                                                      ELSE Cardinality(Owed) + 1
      /\ Cardinality(Owed \ { t }) = IF t \in Owed THEN Cardinality(Owed) - 1
                                                   ELSE Cardinality(Owed)
  BY FS_AddElement, FS_RemoveElement, FS_CardinalityType
<1>7. CASE Owing(th'[t])
  BY <1>2, <1>4, <1>6, <1>7
<1>8. CASE ~Owing(th'[t])
  BY <1>2, <1>5, <1>6, <1>8
<1>9. QED
  BY <1>7, <1>8

\* A handler that owes nothing after its step may have counted what it owed.
LEMMA BackedQuiet ==
  ASSUME TypeOK, BackedInv, NEW t \in Thread, Others(t), ~Owing(th'[t]),
         th'[t].pc = "timeoutRead" => th'[t].ruling.decision = "timeout",
         \/ rejections' = rejections
         \/ th[t].pc = "reject" /\ rejections' = th[t].counted + 1,
         Budget' \in Nat, Budget' >= Budget
  PROVE  BackedInv'
<1> DEFINE n == Cardinality(Owed)
           m == Cardinality(Owed')
<1>1. /\ IsFiniteSet(Owed') /\ n \in Nat /\ m \in Nat /\ m <= n
      /\ th[t].pc = "reject" => m = n - 1
  BY OwedAfter DEF BackedInv, Owing
<1>2. rejections \in Nat /\ th[t].counted \in Nat /\ Budget \in Nat
  BY HandlerFacts, RejectedFinite DEF ThreadState
<1>3. rejections + n <= Budget /\ (th[t].pc = "reject" => th[t].counted + n <= Budget)
  BY DEF BackedInv
<1> HIDE DEF n, m
<1>4. rejections' + m <= Budget'
  BY <1>1, <1>2, <1>3
<1>5. ASSUME NEW u \in Thread, th'[u].pc = "reject"
      PROVE  th'[u].counted + m <= Budget'
  <2>1. u # t
    BY <1>5 DEF Owing
  <2>2. th[u].pc = "reject" /\ th'[u].counted = th[u].counted
    BY <1>5, <2>1 DEF Others
  <2>3. th[u].counted + n <= Budget
    BY <2>2 DEF BackedInv, n
  <2>4. th[u].counted \in Nat
    BY HandlerFacts DEF ThreadState
  <2>5. QED
    BY <1>1, <1>2, <2>2, <2>3, <2>4
<1>6. ASSUME NEW u \in Thread, th'[u].pc = "timeoutRead"
      PROVE  th'[u].ruling.decision = "timeout"
  BY <1>6 DEF Others, BackedInv
<1>7. QED
  BY <1>1, <1>4, <1>5, <1>6 DEF BackedInv, m

\* A handler that begins to owe a count has something to show for it.
LEMMA BackedIncurred ==
  ASSUME TypeOK, BackedInv, NEW t \in Thread, Others(t), th'[t].pc = "resume",
         rejections' = rejections, Budget' \in Nat, Budget' >= Budget + 1
  PROVE  BackedInv'
<1> DEFINE n == Cardinality(Owed)
           m == Cardinality(Owed')
<1>1. IsFiniteSet(Owed') /\ n \in Nat /\ m \in Nat /\ m <= n + 1
  BY OwedAfter DEF BackedInv
<1>2. rejections \in Nat /\ Budget \in Nat /\ rejections + n <= Budget
  BY HandlerFacts, RejectedFinite DEF BackedInv
<1> HIDE DEF n, m
<1>3. rejections' + m <= Budget'
  BY <1>1, <1>2
<1>4. ASSUME NEW u \in Thread, th'[u].pc = "reject"
      PROVE  th'[u].counted + m <= Budget'
  <2>1. th[u].pc = "reject" /\ th'[u].counted = th[u].counted
    BY <1>4 DEF Others
  <2>2. th[u].counted + n <= Budget
    BY <2>1 DEF BackedInv, n
  <2>3. th[u].counted \in Nat
    BY HandlerFacts DEF ThreadState
  <2>4. QED
    BY <1>1, <1>2, <2>1, <2>2, <2>3
<1>5. ASSUME NEW u \in Thread, th'[u].pc = "timeoutRead"
      PROVE  th'[u].ruling.decision = "timeout"
  BY <1>5 DEF Others, BackedInv
<1>6. QED
  BY <1>1, <1>3, <1>4, <1>5 DEF BackedInv, m

\* A handler that reads the count still owes what it owed.
LEMMA BackedLoaded ==
  ASSUME TypeOK, BackedInv, NEW t \in Thread, Others(t), Owing(th[t]),
         th'[t].pc = "reject", th'[t].counted = rejections,
         UNCHANGED rejections, Budget' = Budget
  PROVE  BackedInv'
<1>1. IsFiniteSet(Owed') /\ Cardinality(Owed') = Cardinality(Owed)
  BY OwedAfter DEF BackedInv, Owing
<1>2. ASSUME NEW u \in Thread, th'[u].pc = "reject"
      PROVE  th'[u].counted + Cardinality(Owed) <= Budget
  <2>1. CASE u = t
    BY <2>1 DEF BackedInv
  <2>2. CASE u # t
    BY <1>2, <2>2 DEF BackedInv, Others
  <2>3. QED
    BY <2>1, <2>2
<1>3. ASSUME NEW u \in Thread, th'[u].pc = "timeoutRead"
      PROVE  th'[u].ruling.decision = "timeout"
  BY <1>3 DEF Others, BackedInv
<1>4. rejections' + Cardinality(Owed') <= Budget'
  BY <1>1 DEF BackedInv
<1>5. QED
  BY <1>1, <1>2, <1>3, <1>4 DEF BackedInv

\* The steps that leave the pauses and the count alone.
LEMMA BackedUntouched ==
  ASSUME TypeOK, BackedInv, NEW t \in Thread, Others(t), th'[t].pc \notin Claiming,
         UNCHANGED << rejections, pauses >>, used'.recoveries >= used.recoveries,
         used'.recoveries \in Nat
  PROVE  BackedInv'
<1>1. RejectionsMade' = RejectionsMade /\ RejectionsMade \in Nat /\ used.recoveries \in Nat
  BY RejectedFinite DEF RejectionsMade
<1>2. Budget' \in Nat /\ Budget' >= Budget
  BY <1>1 DEF Budget
<1>3. ~Owing(th'[t]) /\ th'[t].pc # "timeoutRead"
  BY DEF Owing, Claiming
<1>4. QED
  BY <1>2, <1>3, BackedQuiet

\* A handler that decides, or takes a pause that timed out.
LEMMA BackedDecide ==
  ASSUME TypeOK, BackedInv, NEW t \in Thread, Decide(t)
  PROVE  BackedInv'
<1>1. PICK p \in DOMAIN pauses, d \in { "approved", "rejected" } :
        /\ pauses[p].st = "waiting"
        /\ pauses' = [ pauses EXCEPT ![p].st = "decided", ![p].decision = d ]
        /\ Become(t, [ Idle EXCEPT !.pc = "resume", !.ruling = RulingOf(p, d) ])
  BY DEF Decide, Decidable
<1>2. UNCHANGED << rejections, used >>
  BY DEF Decide, row, surroundings
<1>3. /\ Others(t) /\ th'[t].pc = "resume" /\ th'[t].ruling.decision = d
  <2>1. Given(t, p, d, "resume")
    BY <1>1 DEF Given
  <2>2. QED
    BY <2>1, RulesAt
<1>4. /\ RejectionsMade' = IF d = "rejected" THEN RejectionsMade + 1 ELSE RejectionsMade
      /\ RejectionsMade \in Nat /\ used.recoveries \in Nat
  BY <1>1, RejectionsAfter, RejectedFinite
<1>5. CASE d = "rejected"
  <2>1. Budget' = Budget + 1 /\ Budget \in Nat
    BY <1>2, <1>4, <1>5 DEF Budget
  <2>2. QED
    BY <1>2, <1>3, <2>1, BackedIncurred
<1>6. CASE d # "rejected"
  <2>1. Budget' = Budget /\ Budget \in Nat
    BY <1>2, <1>4, <1>6 DEF Budget
  <2>2. ~Owing(th'[t]) /\ th'[t].pc # "timeoutRead"
    BY <1>3, <1>6 DEF Owing
  <2>3. QED
    BY <1>2, <1>3, <2>1, <2>2, BackedQuiet
<1>7. QED
  BY <1>5, <1>6

LEMMA BackedTimeout ==
  ASSUME TypeOK, BackedInv, NEW t \in Thread, NodeTimeout(t) \/ RecoverWaiting(t),
         used'.recoveries >= used.recoveries, used'.recoveries \in Nat
  PROVE  BackedInv'
<1>1. UNCHANGED rejections /\ At(t, "idle")
  BY DEF NodeTimeout, RecoverWaiting, Recovers, row
<1>2. jobs \subseteq DOMAIN pauses /\ PausesIn("waiting") \subseteq DOMAIN pauses
  BY TypeParts DEF ApprovalsOK, PausesIn
<1>3. \/ \E p \in DOMAIN pauses : TakeTimeout(t, p)
      \/ UNCHANGED << pauses, th >>
  BY <1>2 DEF NodeTimeout, RecoverWaiting
<1>4. CASE UNCHANGED << pauses, th >>
  <2>1. Others(t) /\ th'[t].pc \notin Claiming
    BY <1>1, <1>4 DEF Others, At, Claiming
  <2>2. QED
    BY <1>1, <1>4, <2>1, BackedUntouched
<1>5. ASSUME NEW p \in DOMAIN pauses, pauses[p].st = "waiting", TakeTimeout(t, p)
      PROVE  BackedInv'
  <2>1. /\ pauses' = [ pauses EXCEPT ![p].st = "timeout", ![p].decision = "timeout" ]
        /\ Become(t, [ Idle EXCEPT !.pc = "timeoutRead", !.ruling = RulingOf(p, "timeout") ])
    BY <1>5 DEF TakeTimeout, TimeoutDecision
  <2>2. /\ Others(t) /\ th'[t].pc = "timeoutRead" /\ th'[t].ruling.decision = "timeout"
    <3>1. Given(t, p, "timeout", "timeoutRead")
      BY <2>1 DEF Given
    <3>2. QED
      BY <3>1, RulesAt
  <2>3. RejectionsMade' = RejectionsMade /\ RejectionsMade \in Nat /\ used.recoveries \in Nat
    <3> DEFINE d == "timeout"
    <3>1. /\ pauses' = [ pauses EXCEPT ![p].st = d, ![p].decision = d ]
          /\ d # "rejected" /\ pauses[p].st = "waiting"
      BY <1>5, <2>1
    <3> HIDE DEF d
    <3>2. RejectionsMade' = IF d = "rejected" THEN RejectionsMade + 1 ELSE RejectionsMade
      BY <3>1, RejectionsAfter
    <3>3. QED
      BY <3>1, <3>2, RejectedFinite
  <2>4. Budget' \in Nat /\ Budget' >= Budget
    BY <2>3 DEF Budget
  <2>5. ~Owing(th'[t])
    BY <2>2 DEF Owing
  <2>6. QED
    BY <1>1, <2>2, <2>4, <2>5, BackedQuiet
<1>6. ASSUME NEW p \in DOMAIN pauses, pauses[p].st # "waiting", TakeTimeout(t, p)
      PROVE  UNCHANGED << pauses, th >>
  BY <1>6 DEF TakeTimeout
<1>7. QED
  BY <1>3, <1>4, <1>5, <1>6

\* A recovery may resume with a rejection that is counted already: it is one more.
LEMMA BackedRecoverDecided ==
  ASSUME TypeOK, BackedInv, NEW t \in Thread, RecoverDecided(t)
  PROVE  BackedInv'
<1>1. PICK p \in PausesIn("decided") :
        Become(t, [ Idle EXCEPT !.pc = "resume", !.ruling = RulingOf(p, pauses[p].decision) ])
  BY DEF RecoverDecided
<1>2. UNCHANGED << rejections, pauses >> /\ used' = [ used EXCEPT !.recoveries = @ + 1 ]
  BY DEF RecoverDecided, Recovers, row, approvals
<1>3. used \in [ crashes : Nat, recoveries : Nat, faults : Nat, cancels : Nat ]
  BY TypeParts DEF SurroundingsOK, UsedOK
<1>4. used'.recoveries = used.recoveries + 1 /\ used.recoveries \in Nat
  BY <1>2, <1>3
<1>5. RejectionsMade' = RejectionsMade /\ RejectionsMade \in Nat
  BY <1>2, RejectedFinite DEF RejectionsMade
<1>6. Budget' \in Nat /\ Budget' >= Budget + 1
  BY <1>4, <1>5 DEF Budget
<1>7. Others(t) /\ th'[t].pc = "resume"
  <2>1. Given(t, p, pauses[p].decision, "resume")
    BY <1>1 DEF Given
  <2>2. QED
    BY <2>1, RulesAt
<1>8. QED
  BY <1>2, <1>6, <1>7, BackedIncurred

LEMMA BackedResumeLoad ==
  ASSUME TypeOK, BackedInv, NEW t \in Thread, ResumeLoad(t)
  PROVE  BackedInv'
<1> DEFINE r == th[t].ruling
           s == RuleNode(snap, r)
           place == IF CountsAsRejection(r) THEN "reject" ELSE "retake"
<1>1. th \in [ Thread -> ThreadState ] /\ th[t] \in ThreadState /\ th[t].pc = "resume"
  BY HandlerFacts DEF ResumeLoad, At
<1>2. /\ th' = [ th EXCEPT ![t].mem = s, ![t].counted = rejections, ![t].pc = place ]
      /\ UNCHANGED << rejections, pauses, used >>
  BY DEF ResumeLoad, row, approvals, surroundings
<1>3. place = IF r.decision = "rejected" THEN "reject" ELSE "retake"
  BY DEF CountsAsRejection
<1> HIDE DEF s, place
<1>4. Others(t) /\ th'[t].pc = place /\ th'[t].counted = rejections
  BY <1>1, <1>2 DEF Others, ThreadState
<1>5. Budget' = Budget /\ Budget \in Nat
  BY <1>2, RejectedFinite DEF Budget, RejectionsMade
<1>6. CASE r.decision = "rejected"
  <2>1. Owing(th[t]) /\ th'[t].pc = "reject"
    BY <1>1, <1>3, <1>4, <1>6 DEF Owing
  <2>2. QED
    BY <1>2, <1>4, <1>5, <2>1, BackedLoaded
<1>7. CASE r.decision # "rejected"
  <2>1. ~Owing(th'[t]) /\ th'[t].pc # "timeoutRead"
    BY <1>3, <1>4, <1>7 DEF Owing
  <2>2. rejections' = rejections /\ Budget' \in Nat /\ Budget' >= Budget
    BY <1>2, <1>5
  <2>3. QED
    BY <1>4, <2>1, <2>2, BackedQuiet
<1>8. QED
  BY <1>6, <1>7

LEMMA BackedCounts ==
  ASSUME TypeOK, BackedInv, NEW t \in Thread,
         RejectLimit(t) \/ CountRejection(t) \/ TimeoutRead(t)
  PROVE  BackedInv'
<1>1. UNCHANGED << pauses, used >>
  BY DEF RejectLimit, CountRejection, TimeoutRead, approvals, surroundings
<1>2. Budget' = Budget /\ Budget \in Nat
  BY <1>1, RejectedFinite DEF Budget, RejectionsMade
<1>3. CASE RejectLimit(t) \/ CountRejection(t)
  <2>1. \/ rejections' = rejections
        \/ th[t].pc = "reject" /\ rejections' = th[t].counted + 1
    BY <1>3 DEF RejectLimit, CountRejection, At
  <2>2. Others(t) /\ (th'[t].pc = "idle" \/ th'[t].pc = "retake")
    BY <1>3, MovesTo, GoesTo DEF RejectLimit, CountRejection, Finish, Idle
  <2>3. ~Owing(th'[t]) /\ th'[t].pc # "timeoutRead"
    BY <2>2 DEF Owing
  <2>4. QED
    BY <1>2, <2>1, <2>2, <2>3, BackedQuiet
<1>4. CASE TimeoutRead(t)
  <2>1. th[t].ruling.decision = "timeout" /\ UNCHANGED rejections
    BY <1>4 DEF BackedInv, TimeoutRead, At, row
  <2>2. \/ Goto(t, "resume")
        \/ Become(t, [ Idle EXCEPT !.pc = "timeoutEnd", !.seen = status ])
    BY <1>4 DEF TimeoutRead
  <2>3. ASSUME Goto(t, "resume") PROVE Others(t) /\ ~Owing(th'[t]) /\ th'[t].pc # "timeoutRead"
    BY <2>1, <2>3, GoesTo DEF Owing
  <2>4. ASSUME Become(t, [ Idle EXCEPT !.pc = "timeoutEnd", !.seen = status ])
        PROVE  Others(t) /\ ~Owing(th'[t]) /\ th'[t].pc # "timeoutRead"
    <3> DEFINE l == [ Idle EXCEPT !.pc = "timeoutEnd", !.seen = status ]
    <3>1. l.pc \notin Heeding
      BY BegunElsewhere
    <3> HIDE DEF l
    <3>2. th'[t] = l /\ Others(t)
      BY <2>4, MovesTo DEF l
    <3>3. QED
      BY <3>1, <3>2 DEF Owing, Claiming, Heeding
  <2>5. Others(t) /\ ~Owing(th'[t]) /\ th'[t].pc # "timeoutRead"
    BY <2>2, <2>3, <2>4
  <2>6. QED
    BY <1>2, <2>1, <2>5, BackedQuiet
<1>5. QED
  BY <1>3, <1>4

LEMMA BackedAskHuman ==
  ASSUME TypeOK, BackedInv, NEW t \in Thread, AskHuman(t)
  PROVE  BackedInv'
<1>1. Others(t) /\ th'[t].pc \notin Claiming /\ UNCHANGED << rejections, used >>
  BY DrivesUnruled DEF AskHuman, row, surroundings
<1>2. PICK r : r.decision = NoDecision /\ pauses' = Append(pauses, r)
  BY DEF AskHuman
<1>3. RejectionsMade' = RejectionsMade
  BY <1>2, RejectionsAfterAsking
<1>4. Budget' = Budget /\ Budget \in Nat
  BY <1>1, <1>3, RejectedFinite DEF Budget
<1>5. ~Owing(th'[t]) /\ th'[t].pc # "timeoutRead"
  BY <1>1 DEF Owing, Claiming
<1>6. QED
  BY <1>1, <1>4, <1>5, BackedQuiet

LEMMA BackedStep == ASSUME TypeOK, BackedInv, [Next]_vars PROVE BackedInv'
<1>0. used'.recoveries >= used.recoveries /\ used'.recoveries \in Nat
  <2>1. used.recoveries \in Nat
    BY RejectedFinite
  <2>2. TypeOK'
    BY StepTyped
  <2>3. QED
    BY <2>1, <2>2, RecoveriesGrow, TypePartsPrimed DEF SurroundingsOK, UsedOK
<1>1. ASSUME NEW t \in Thread,
             \/ Load(t) \/ LoadWithoutStartNode(t) \/ LimitReached(t) \/ NodeMissing(t)
             \/ GateReroute(t) \/ GateTerminate(t) \/ Enter(t) \/ NodeDone(t) \/ Complete(t)
             \/ NodeRetry(t) \/ NodeErrorExit(t) \/ NodeFatal(t) \/ Arm(t) \/ Dispatch(t)
             \/ DispatchFailed(t) \/ Suspend(t) \/ Save(t) \/ Guard(t) \/ Retake(t)
             \/ ResumeSave(t) \/ Route(t) \/ Count(t) \/ WakeLoad(t) \/ WakeCas(t)
             \/ RedoDone(t) \/ RedoFail(t) \/ TimeoutEnd(t) \/ Cancel(t)
             \/ Start(t) \/ StartRefused(t) \/ Throw(t) \/ ToolCallback(t)
             \/ SopTimeout(t) \/ CancelRead(t) \/ Crash(t)
             \/ RecoverRunning(t) \/ RecoverLost(t) \/ RecoverError(t)
      PROVE  BackedInv'
  <2>1. UNCHANGED rejections
    BY <1>1 DEF Load, LoadWithoutStartNode, LimitReached, NodeMissing, GateReroute,
       GateTerminate, Enter, NodeDone, Complete, NodeRetry, NodeErrorExit, NodeFatal, Arm,
       Dispatch, DispatchFailed, Suspend, Save, Guard, Retake, ResumeSave, Route, Count,
       WakeLoad, WakeCas, RedoDone, RedoFail, TimeoutEnd, Cancel, Start, StartRefused, Throw,
       ToolCallback, SopTimeout, CancelRead, Crash, RecoverRunning, RecoverLost, RecoverError,
       row
  <2>2. UNCHANGED pauses
    BY <1>1 DEF Load, LoadWithoutStartNode, LimitReached, NodeMissing, GateReroute,
       GateTerminate, Enter, NodeDone, Complete, NodeRetry, NodeErrorExit, NodeFatal, Arm,
       Dispatch, DispatchFailed, Suspend, Save, Guard, Retake, ResumeSave, Route, Count,
       WakeLoad, WakeCas, RedoDone, RedoFail, TimeoutEnd, Cancel, Start, StartRefused, Throw,
       ToolCallback, SopTimeout, CancelRead, Crash, RecoverRunning, RecoverLost, RecoverError,
       approvals
  <2>3. Others(t) /\ th'[t].pc \notin Claiming
    BY <1>1, EndsUnruled, BeginsUnruled, DrivesUnruled DEF Heeding
  <2>4. QED
    BY <1>0, <2>1, <2>2, <2>3, BackedUntouched
<1>2. ASSUME NEW t \in Thread,
             \/ Decide(t) \/ NodeTimeout(t) \/ RecoverWaiting(t) \/ RecoverDecided(t)
             \/ ResumeLoad(t) \/ RejectLimit(t) \/ CountRejection(t) \/ TimeoutRead(t)
             \/ AskHuman(t)
      PROVE  BackedInv'
  BY <1>0, <1>2, BackedDecide, BackedTimeout, BackedRecoverDecided, BackedResumeLoad,
     BackedCounts, BackedAskHuman
<1>3. CASE LimitPasses \/ RowAges \/ EditDefinition \/ UNCHANGED vars
  <2>1. UNCHANGED << rejections, th, pauses, used >>
    BY <1>3 DEF LimitPasses, RowAges, EditDefinition, vars, row, approvals, surroundings
  <2>2. Owed' = Owed /\ RejectionsMade' = RejectionsMade
    BY <2>1 DEF Owed, Owing, RejectionsMade
  <2>3. QED
    BY <2>1, <2>2 DEF BackedInv, Budget
<1>4. QED
  BY <1>1, <1>2, <1>3 DEF Next, Proceed, Recover

\* rejection_count never exceeds the rejections approvers made, one more for each
\* recovery, however the handlers that read and write it interleave or crash.
THEOREM RejectionsWereMade == Spec => []RejectionsBacked
<1>1. Init => BackedInv
  <2> SUFFICES ASSUME Init PROVE BackedInv
    OBVIOUS
  <2>1. Owed = {}
    BY DEF Init, Owed, Owing, Idle
  <2>2. TypeOK
    BY InitTyped
  <2>3. IsFiniteSet(Owed) /\ Cardinality(Owed) = 0
    BY <2>1, FS_EmptySet
  <2>4. rejections = 0 /\ Budget \in Nat
    BY <2>2, RejectedFinite DEF Init
  <2>5. \A t \in Thread : th[t].pc = "idle"
    BY DEF Init, Idle
  <2>6. QED
    BY <2>3, <2>4, <2>5 DEF BackedInv
<1>2. TypeOK /\ BackedInv /\ [Next]_vars => BackedInv'
  BY BackedStep
<1>3. TypeOK /\ BackedInv => RejectionsBacked
  <2> SUFFICES ASSUME TypeOK, BackedInv PROVE RejectionsBacked
    OBVIOUS
  <2>1. Cardinality(Owed) \in Nat /\ rejections \in Nat /\ Budget \in Nat
    BY FS_CardinalityType, RejectedFinite, TypeParts DEF BackedInv, RowOK
  <2>2. rejections + Cardinality(Owed) <= Budget
    BY DEF BackedInv
  <2>3. rejections <= Budget
    BY <2>1, <2>2
  <2>4. QED
    BY <2>3 DEF RejectionsBacked, Budget
<1>4. QED
  BY <1>1, <1>2, <1>3, TypeCorrect, PTL DEF Spec

-------------------------------------------------------------------------------
(* A decision resumes once.                                                *)

Claims(l) == l.pc \in Claiming
TakenIn(ps, p) == p \in DOMAIN ps /\ ps[p].st # "waiting"
Taken(p) == TakenIn(pauses, p)

\* Until a recovery resumes with a pause taken earlier, a pause that no longer waits
\* has one handler at most that is still to apply it, and none once it is applied.
ClaimInv ==
  /\ \A t, u \in Thread :
       Claims(th[t]) /\ Claims(th[u]) /\ th[t].ruling.pause = th[u].ruling.pause => t = u
  /\ \A t \in Thread : Claims(th[t]) =>
       Taken(th[t].ruling.pause) /\ th[t].ruling.pause \notin applied
  /\ \A p \in applied : Taken(p)

LEMMA TakenStays ==
  ASSUME TypeOK, NEW q \in DOMAIN pauses, pauses[q].st = "waiting", NEW st, NEW d,
         st # "waiting", pauses' = [ pauses EXCEPT ![q].st = st, ![q].decision = d ]
  PROVE  /\ \A p : Taken(p) => TakenIn(pauses', p)
         /\ ~Taken(q) /\ TakenIn(pauses', q)
<1>1. /\ pauses[q] \in Pause /\ DOMAIN pauses' = DOMAIN pauses
      /\ \A p \in DOMAIN pauses \ { q } : pauses'[p] = pauses[p]
      /\ pauses'[q] = [ pauses[q] EXCEPT !.st = st, !.decision = d ]
  BY TypeParts, LenProperties, ElementOfSeq DEF ApprovalsOK
<1>2. pauses'[q].st = st
  BY <1>1 DEF Pause
<1>3. QED
  BY <1>1, <1>2 DEF Taken, TakenIn

LEMMA TakenStaysAsking ==
  ASSUME TypeOK, NEW r, pauses' = Append(pauses, r)
  PROVE  \A p : Taken(p) => TakenIn(pauses', p)
<1>1. pauses \in Seq(Pause) /\ DOMAIN pauses = 1 .. Len(pauses) /\ Len(pauses) \in Nat
  BY TypeParts, LenProperties DEF ApprovalsOK
<1>2. /\ DOMAIN pauses' = 1 .. Len(pauses) + 1
      /\ \A q \in 1 .. Len(pauses) : pauses'[q] = pauses[q]
  BY <1>1
<1>3. ASSUME NEW p, Taken(p) PROVE TakenIn(pauses', p)
  <2>1. p \in 1 .. Len(pauses) /\ pauses[p].st # "waiting"
    BY <1>1, <1>3 DEF Taken, TakenIn
  <2>2. p \in DOMAIN pauses' /\ pauses'[p] = pauses[p]
    BY <1>1, <1>2, <2>1
  <2>3. QED
    BY <2>1, <2>2 DEF TakenIn
<1>4. QED
  BY <1>3

\* What a step of one handler may do: give its ruling up or apply it, go on with
\* it, or take a pause that nobody has taken.
LEMMA ClaimStep ==
  ASSUME ClaimInv, NEW t \in Thread, Others(t), \A p : Taken(p) => TakenIn(pauses', p),
         \/ ~Claims(th'[t]) /\ UNCHANGED applied
         \/ /\ Claims(th[t]) /\ ~Claims(th'[t])
            /\ applied' = applied \cup { th[t].ruling.pause }
         \/ /\ Claims(th[t]) /\ th'[t].ruling = th[t].ruling /\ UNCHANGED applied
         \/ /\ ~Taken(th'[t].ruling.pause) /\ TakenIn(pauses', th'[t].ruling.pause)
            /\ UNCHANGED applied
  PROVE  ClaimInv'
<1>1. /\ \A p \in applied' : TakenIn(pauses', p)
      /\ \A u \in Thread \ { t } : Claims(th[u]) => th[u].ruling.pause \notin applied'
  BY DEF ClaimInv
<1>2. Claims(th'[t]) =>
        /\ TakenIn(pauses', th'[t].ruling.pause) /\ th'[t].ruling.pause \notin applied'
        /\ \A u \in Thread \ { t } : Claims(th[u]) => th[u].ruling.pause # th'[t].ruling.pause
  BY DEF ClaimInv
<1>3. \A u \in Thread \ { t } : th'[u] = th[u]
  BY DEF Others
<1>4. \A u \in Thread \ { t } : Claims(th[u]) => TakenIn(pauses', th[u].ruling.pause)
  BY DEF ClaimInv
<1>5. ASSUME NEW u \in Thread, Claims(th'[u])
      PROVE  TakenIn(pauses', th'[u].ruling.pause) /\ th'[u].ruling.pause \notin applied'
  BY <1>1, <1>2, <1>3, <1>4, <1>5
<1>6. ASSUME NEW u \in Thread, NEW v \in Thread, Claims(th'[u]), Claims(th'[v]),
             th'[u].ruling.pause = th'[v].ruling.pause
      PROVE  u = v
  <2>1. CASE u # t /\ v # t
    BY <1>3, <1>6, <2>1 DEF ClaimInv
  <2>2. CASE u = t \/ v = t
    BY <1>2, <1>3, <1>6, <2>2
  <2>3. QED
    BY <2>1, <2>2
<1>7. QED
  BY <1>1, <1>5, <1>6 DEF ClaimInv, Taken, Claims

LEMMA ClaimIdle ==
  ASSUME TypeOK, ClaimInv, NEW t \in Thread, Others(t), th'[t].pc \notin Claiming,
         UNCHANGED << applied, pauses >>
  PROVE  ClaimInv'
BY ClaimStep DEF Claims, Taken

LEMMA ClaimsTaken ==
  ASSUME TypeOK, ClaimInv, NEW t \in Thread, Decide(t) \/ NodeTimeout(t)
  PROVE  ClaimInv'
<1>1. UNCHANGED applied
  BY DEF Decide, NodeTimeout
<1>2. ASSUME NEW p \in DOMAIN pauses, NEW st, NEW d, NEW place, pauses[p].st = "waiting",
             st # "waiting", pauses' = [ pauses EXCEPT ![p].st = st, ![p].decision = d ],
             Become(t, [ Idle EXCEPT !.pc = place, !.ruling = RulingOf(p, d) ])
      PROVE  ClaimInv'
  <2>1. Others(t) /\ th'[t].ruling.pause = p
    <3>1. Given(t, p, d, place)
      BY <1>2 DEF Given
    <3>2. QED
      BY <3>1, RulesAt
  <2>2. (\A q : Taken(q) => TakenIn(pauses', q)) /\ ~Taken(p) /\ TakenIn(pauses', p)
    BY <1>2, TakenStays
  <2>3. QED
    BY <1>1, <2>1, <2>2, ClaimStep
<1>3. CASE Decide(t)
  <2>1. PICK p \in DOMAIN pauses, d \in { "approved", "rejected" } :
          /\ pauses[p].st = "waiting"
          /\ pauses' = [ pauses EXCEPT ![p].st = "decided", ![p].decision = d ]
          /\ Become(t, [ Idle EXCEPT !.pc = "resume", !.ruling = RulingOf(p, d) ])
    BY <1>3 DEF Decide, Decidable
  <2> DEFINE st == "decided"
             place == "resume"
  <2>2. /\ st # "waiting" /\ pauses' = [ pauses EXCEPT ![p].st = st, ![p].decision = d ]
        /\ Become(t, [ Idle EXCEPT !.pc = place, !.ruling = RulingOf(p, d) ])
    BY <2>1
  <2> HIDE DEF st, place
  <2>3. QED
    BY <1>2, <2>1, <2>2
<1>4. ASSUME NEW p \in DOMAIN pauses, pauses[p].st = "waiting", TakeTimeout(t, p)
      PROVE  ClaimInv'
  <2> DEFINE st == "timeout"
             place == "timeoutRead"
  <2>1. /\ st # "waiting" /\ pauses' = [ pauses EXCEPT ![p].st = st, ![p].decision = st ]
        /\ Become(t, [ Idle EXCEPT !.pc = place, !.ruling = RulingOf(p, st) ])
    BY <1>4 DEF TakeTimeout, TimeoutDecision
  <2> HIDE DEF st, place
  <2>2. QED
    BY <1>2, <1>4, <2>1
<1>5. ASSUME NEW p \in DOMAIN pauses, pauses[p].st # "waiting", TakeTimeout(t, p)
      PROVE  ClaimInv'
  <2>1. UNCHANGED << pauses, th >>
    BY <1>5 DEF TakeTimeout
  <2>2. QED
    BY <1>1, <2>1 DEF ClaimInv, Claims, Taken
<1>6. NodeTimeout(t) => \E p \in DOMAIN pauses : TakeTimeout(t, p)
  BY TypeParts DEF ApprovalsOK, NodeTimeout
<1>7. QED
  BY <1>3, <1>4, <1>5, <1>6

LEMMA ClaimsGoOn ==
  ASSUME TypeOK, ClaimInv, NEW t \in Thread,
         ResumeLoad(t) \/ CountRejection(t) \/ TimeoutRead(t)
  PROVE  ClaimInv'
<1>0. th \in [ Thread -> ThreadState ] /\ th[t] \in ThreadState
  BY HandlerFacts
<1>1. UNCHANGED << applied, pauses >> /\ Claims(th[t])
  BY DEF ResumeLoad, CountRejection, TimeoutRead, approvals, At, Claims, Claiming
<1>2. \/ Others(t) /\ th'[t].ruling = th[t].ruling
      \/ Others(t) /\ th'[t].pc \notin Claiming
  <2>1. CASE ResumeLoad(t)
    <3> DEFINE s == RuleNode(snap, th[t].ruling)
               place == IF CountsAsRejection(th[t].ruling) THEN "reject" ELSE "retake"
    <3>1. th' = [ th EXCEPT ![t].mem = s, ![t].counted = rejections, ![t].pc = place ]
      BY <2>1 DEF ResumeLoad
    <3> HIDE DEF s, place
    <3>2. QED
      BY <1>0, <3>1 DEF Others, ThreadState
  <2>2. CASE CountRejection(t)
    BY <2>2, GoesTo DEF CountRejection
  <2>3. CASE TimeoutRead(t)
    <3>1. \/ Goto(t, "resume")
          \/ Become(t, [ Idle EXCEPT !.pc = "timeoutEnd", !.seen = status ])
      BY <2>3 DEF TimeoutRead
    <3>2. Goto(t, "resume") => Others(t) /\ th'[t].ruling = th[t].ruling
      BY GoesTo
    <3>3. ASSUME NEW l, Become(t, l), l.pc \notin Heeding
          PROVE  Others(t) /\ th'[t].pc \notin Claiming
      BY <3>3, MovesTo DEF Heeding
    <3>4. QED
      BY <3>1, <3>2, <3>3, BegunElsewhere
  <2>4. QED
    BY <2>1, <2>2, <2>3
<1>3. \A p : Taken(p) => TakenIn(pauses', p)
  BY <1>1 DEF Taken
<1>4. QED
  BY <1>1, <1>2, <1>3, ClaimStep DEF Claims

LEMMA ClaimApplied ==
  ASSUME TypeOK, ClaimInv, NEW t \in Thread, Retake(t)
  PROVE  ClaimInv'
<1>1. /\ UNCHANGED pauses /\ Claims(th[t])
      /\ \/ UNCHANGED applied
         \/ applied' = applied \cup { th[t].ruling.pause }
  BY DEF Retake, At, Claims, Claiming
<1>2. Others(t) /\ ~Claims(th'[t])
  BY DrivesUnruled DEF Claims
<1>3. \A p : Taken(p) => TakenIn(pauses', p)
  BY <1>1 DEF Taken
<1>4. QED
  BY <1>1, <1>2, <1>3, ClaimStep

LEMMA ClaimAsked ==
  ASSUME TypeOK, ClaimInv, NEW t \in Thread, AskHuman(t)
  PROVE  ClaimInv'
<1>1. Others(t) /\ ~Claims(th'[t]) /\ UNCHANGED applied
  BY DrivesUnruled DEF AskHuman, Claims
<1>2. \E r : pauses' = Append(pauses, r)
  BY DEF AskHuman
<1>3. \A p : Taken(p) => TakenIn(pauses', p)
  BY <1>2, TakenStaysAsking
<1>4. QED
  BY <1>1, <1>3, ClaimStep

LEMMA ClaimInvStep ==
  ASSUME TypeOK, ClaimInv, [Next]_vars, used'.recoveries = 0
  PROVE  ClaimInv'
<1>1. ASSUME NEW t \in Thread,
             \/ Load(t) \/ LoadWithoutStartNode(t) \/ LimitReached(t) \/ NodeMissing(t)
             \/ GateReroute(t) \/ GateTerminate(t) \/ Enter(t) \/ NodeDone(t) \/ Complete(t)
             \/ NodeRetry(t) \/ NodeErrorExit(t) \/ NodeFatal(t) \/ Arm(t) \/ Dispatch(t)
             \/ DispatchFailed(t) \/ Suspend(t) \/ Save(t) \/ Guard(t) \/ RejectLimit(t)
             \/ ResumeSave(t) \/ Route(t) \/ Count(t) \/ WakeLoad(t) \/ WakeCas(t)
             \/ RedoDone(t) \/ RedoFail(t) \/ TimeoutEnd(t) \/ Cancel(t)
             \/ Start(t) \/ StartRefused(t) \/ Throw(t) \/ ToolCallback(t)
             \/ SopTimeout(t) \/ CancelRead(t) \/ Crash(t)
      PROVE  ClaimInv'
  <2>1. UNCHANGED << applied, pauses >>
    BY <1>1 DEF Load, LoadWithoutStartNode, LimitReached, NodeMissing, GateReroute,
       GateTerminate, Enter, NodeDone, Complete, NodeRetry, NodeErrorExit, NodeFatal, Arm,
       Dispatch, DispatchFailed, Suspend, Save, Guard, RejectLimit, ResumeSave, Route, Count,
       WakeLoad, WakeCas, RedoDone, RedoFail, TimeoutEnd, Cancel, Start, StartRefused, Throw,
       ToolCallback, SopTimeout, CancelRead, Crash, approvals
  <2>2. Others(t) /\ th'[t].pc \notin Claiming
    BY <1>1, EndsUnruled, BeginsUnruled, DrivesUnruled DEF Heeding
  <2>3. QED
    BY <2>1, <2>2, ClaimIdle
<1>2. ASSUME NEW t \in Thread,
             \/ Decide(t) \/ NodeTimeout(t) \/ ResumeLoad(t) \/ CountRejection(t)
             \/ TimeoutRead(t) \/ Retake(t) \/ AskHuman(t)
      PROVE  ClaimInv'
  BY <1>2, ClaimsTaken, ClaimsGoOn, ClaimApplied, ClaimAsked
<1>3. CASE LimitPasses \/ RowAges \/ EditDefinition \/ UNCHANGED vars
  <2>1. UNCHANGED << applied, pauses, th >>
    BY <1>3 DEF LimitPasses, RowAges, EditDefinition, vars, approvals
  <2>2. QED
    BY <2>1 DEF ClaimInv, Claims, Taken
<1>4. \A t \in Thread : ~Recover(t)
  BY RecoveriesGrow
<1>5. QED
  BY <1>1, <1>2, <1>3, <1>4 DEF Next, Proceed

LEMMA ClaimInvHolds == Spec => [](used.recoveries = 0 => ClaimInv)
<1>1. Init => ClaimInv
  BY DEF Init, ClaimInv, Claims, Claiming, Idle
<1>2. TypeOK /\ (used.recoveries = 0 => ClaimInv) /\ [Next]_vars
        => (used.recoveries = 0 => ClaimInv)'
  BY ClaimInvStep, RecoveriesGrow
<1>3. QED
  BY <1>1, <1>2, TypeCorrect, PTL DEF Spec

\* Until an execution is recovered for the first time, a decision resumes it at most
\* once, whatever crashes, throws, times out or is sent again.
THEOREM ResumedOnceUnrecovered ==
  Spec => [][ \A t \in Thread : /\ used.recoveries = 0
                                /\ At(t, "retake") /\ th'[t].pc = "resumeSave"
                => th[t].ruling.pause \notin applied ]_vars
<1>1. (used.recoveries = 0 => ClaimInv) /\ [Next]_vars
        => [ \A t \in Thread : /\ used.recoveries = 0
                               /\ At(t, "retake") /\ th'[t].pc = "resumeSave"
               => th[t].ruling.pause \notin applied ]_vars
  BY DEF ClaimInv, Claims, Claiming, At
<1>2. QED
  BY <1>1, ClaimInvHolds, PTL DEF Spec

LEMMA NeverRecovered == MaxRecoveries = 0 => (Spec => [](used.recoveries = 0))
<1> SUFFICES ASSUME MaxRecoveries = 0 PROVE Spec => [](used.recoveries = 0)
  OBVIOUS
<1>1. Init => used.recoveries = 0
  BY DEF Init
<1>2. TypeOK /\ used.recoveries = 0 /\ [Next]_vars => (used.recoveries = 0)'
  <2> SUFFICES ASSUME TypeOK, used.recoveries = 0, [Next]_vars PROVE used'.recoveries = 0
    OBVIOUS
  <2>1. \A t \in Thread : ~Recover(t)
    BY DEF Recover, RecoverRunning, RecoverWaiting, RecoverDecided, RecoverLost, RecoverError,
       Recovers
  <2>2. QED
    BY <2>1, RecoveriesGrow
<1>3. QED
  BY <1>1, <1>2, TypeCorrect, PTL DEF Spec

\* Without recovery a decision resumes the execution at most once, however often it
\* is sent and whatever crashes, throws or times out.
THEOREM ResumedOnce == MaxRecoveries = 0 => (Spec => ResumesOnce)
<1> SUFFICES ASSUME MaxRecoveries = 0 PROVE Spec => ResumesOnce
  OBVIOUS
<1>1. Spec => [](used.recoveries = 0)
  BY NeverRecovered
<1>2. used.recoveries = 0 /\ (used.recoveries = 0 => ClaimInv) /\ [Next]_vars
        => [ \A t \in Thread : At(t, "retake") /\ th'[t].pc = "resumeSave"
               => th[t].ruling.pause \notin applied ]_vars
  BY DEF ClaimInv, Claims, Claiming, At
<1>3. QED
  BY <1>1, <1>2, ClaimInvHolds, PTL DEF Spec, ResumesOnce

-------------------------------------------------------------------------------
(* The last pause is the one resumed.                                      *)

\* A driver at one of these places has left every approval so far behind it.
Ahead == Driving \ { "arm", "suspend" }
Live == { "running", "paused_for_human", "paused_for_tool" }

\* While an execution can still be resumed, every pause but the last has been
\* applied, and so has the last when it is not at it that the execution waits.
TurnInv ==
  /\ status = "pending" => DOMAIN pauses = {}
  /\ status \in Live => \A p \in DOMAIN pauses : p = Len(pauses) \/ p \in applied
  /\ status = "paused_for_tool" => DOMAIN pauses \subseteq applied
  /\ status = "running" => \A t \in Thread : th[t].pc \in Ahead => DOMAIN pauses \subseteq applied

LEMMA TurnStep ==
  ASSUME TurnInv, NEW t \in Thread, Others(t), UNCHANGED << pauses, applied >>,
         th'[t].pc \in Ahead => th[t].pc \in Ahead,
         UNCHANGED status \/ status' \in SopTerminalStatuses
  PROVE  TurnInv'
<1>1. \A u \in Thread : th'[u].pc \in Ahead => th[u].pc \in Ahead
  BY DEF Others
<1>2. CASE UNCHANGED status
  BY <1>1, <1>2 DEF TurnInv
<1>3. CASE status' \in SopTerminalStatuses
  BY <1>3 DEF TurnInv, SopTerminalStatuses, Live
<1>4. QED
  BY <1>2, <1>3

LEMMA TransitionEnds ==
  ASSUME NEW from, NEW to \in SopTerminalStatuses, Transition(from, to)
  PROVE  UNCHANGED status \/ status' \in SopTerminalStatuses
BY DEF Transition, AfterTransition

\* Handlers that end, or drive on, or never drove.
LEMMA TurnEnds ==
  ASSUME TypeOK, TurnInv, NEW t \in Thread,
         \/ LoadWithoutStartNode(t) \/ LimitReached(t) \/ NodeMissing(t) \/ GateTerminate(t)
         \/ Complete(t) \/ NodeFatal(t) \/ RedoFail(t) \/ TimeoutEnd(t) \/ Throw(t)
         \/ RejectLimit(t) \/ Cancel(t) \/ Crash(t)
  PROVE  TurnInv'
<1>1. Finish(t) /\ UNCHANGED << pauses, applied >>
  BY DEF LoadWithoutStartNode, LimitReached, NodeMissing, GateTerminate, Complete, NodeFatal,
     RedoFail, TimeoutEnd, Throw, RejectLimit, Cancel, Crash, approvals
<1>2. Others(t) /\ th'[t].pc \notin Ahead
  BY <1>1, FinishPlace DEF Others, Ahead
<1>3. UNCHANGED status \/ \E from : \E to \in SopTerminalStatuses : Transition(from, to)
  BY DEF LoadWithoutStartNode, LimitReached, NodeMissing, GateTerminate, Complete, NodeFatal,
     RedoFail, TimeoutEnd, Throw, RejectLimit, Cancel, Crash, SopTerminalStatuses, row
<1>4. QED
  BY <1>1, <1>2, <1>3, TransitionEnds, TurnStep

LEMMA TurnBystands ==
  ASSUME TypeOK, TurnInv, NEW t \in Thread,
         \/ ToolCallback(t) \/ TimeoutRead(t) \/ Guard(t) \/ Count(t) \/ WakeLoad(t)
         \/ ResumeLoad(t) \/ CountRejection(t) \/ Save(t) \/ SopTimeout(t) \/ CancelRead(t)
  PROVE  TurnInv'
<1>1. UNCHANGED << status, pauses, applied >>
  BY DEF ToolCallback, TimeoutRead, Guard, Count, WakeLoad, ResumeLoad, CountRejection, Save,
     SopTimeout, CancelRead, approvals, row
<1>2. Others(t) /\ th'[t].pc \notin Ahead
  <2>1. CASE \/ ToolCallback(t) \/ TimeoutRead(t) \/ Guard(t) \/ Count(t) \/ WakeLoad(t)
             \/ ResumeLoad(t) \/ CountRejection(t) \/ Save(t)
    BY <2>1, Bystanders DEF Others, Ahead
  <2>2. CASE SopTimeout(t)
    <3>1. \/ UNCHANGED th /\ At(t, "idle")
          \/ Become(t, [ Idle EXCEPT !.pc = "timeoutEnd", !.seen = status ])
      BY <2>2 DEF SopTimeout
    <3>2. ASSUME Become(t, [ Idle EXCEPT !.pc = "timeoutEnd", !.seen = status ])
          PROVE  Others(t) /\ th'[t].pc \notin Ahead
      BY <3>2, BecomePlace, FreshPlace DEF Others, Ahead
    <3>3. UNCHANGED th /\ At(t, "idle") => Others(t) /\ th'[t].pc \notin Ahead
      BY DEF Others, At, Ahead, Driving
    <3>4. QED
      BY <3>1, <3>2, <3>3
  <2>3. CASE CancelRead(t)
    <3>1. Become(t, [ Idle EXCEPT !.pc = "cancel", !.seen = status ])
      BY <2>3 DEF CancelRead
    <3>2. QED
      BY <3>1, BecomePlace, FreshPlace DEF Others, Ahead
  <2>4. QED
    BY <2>1, <2>2, <2>3
<1>3. QED
  BY <1>1, <1>2, TurnStep

LEMMA TurnDrives ==
  ASSUME TypeOK, TurnInv, NEW t \in Thread,
         \/ Load(t) \/ GateReroute(t) \/ Enter(t) \/ NodeDone(t) \/ NodeRetry(t)
         \/ NodeErrorExit(t) \/ Arm(t) \/ Dispatch(t) \/ DispatchFailed(t)
         \/ ResumeSave(t) \/ Route(t) \/ RedoDone(t)
  PROVE  TurnInv'
<1>0. Others(t)
  BY DrivesUnruled
<1>1. UNCHANGED << pauses, applied >> /\ Others(t)
  BY <1>0 DEF Load, GateReroute, Enter, NodeDone, NodeRetry, NodeErrorExit, Arm,
     Dispatch, DispatchFailed, ResumeSave, Route, RedoDone, approvals
<1>2. th'[t].pc \in Ahead => th[t].pc \in Ahead
  <2>1. CASE Arm(t)
    <3>1. th'[t].pc = "suspend"
      BY <2>1, HandlerFacts DEF Arm, ThreadState
    <3>2. QED
      BY <3>1 DEF Ahead
  <2>2. CASE \/ Load(t) \/ GateReroute(t) \/ Enter(t) \/ NodeDone(t) \/ NodeRetry(t)
             \/ NodeErrorExit(t) \/ Dispatch(t) \/ DispatchFailed(t)
             \/ ResumeSave(t) \/ Route(t) \/ RedoDone(t)
    BY <2>2 DEF Load, GateReroute, Enter, NodeDone, NodeRetry, NodeErrorExit, Dispatch,
       DispatchFailed, ResumeSave, Route, RedoDone, AtNode, Executing, At, Ahead, Driving
  <2>3. QED
    BY <2>1, <2>2
<1>3. UNCHANGED status \/ \E from : \E to \in SopTerminalStatuses : Transition(from, to)
  BY DEF Load, GateReroute, Enter, NodeDone, NodeRetry, NodeErrorExit, Arm, Dispatch,
     DispatchFailed, ResumeSave, Route, RedoDone, SopTerminalStatuses, row
<1>4. QED
  BY <1>1, <1>2, <1>3, TransitionEnds, TurnStep

\* A pause that is decided or times out keeps its place.
LEMMA TurnRules ==
  ASSUME TypeOK, TurnInv, NEW t \in Thread, Decide(t) \/ NodeTimeout(t)
  PROVE  TurnInv'
<1>1. UNCHANGED << status, applied >>
  BY DEF Decide, NodeTimeout, row
<1>2. DOMAIN pauses' = DOMAIN pauses /\ Len(pauses') = Len(pauses)
  <2>1. ASSUME NEW p \in DOMAIN pauses, NEW st, NEW d,
               pauses' = [ pauses EXCEPT ![p].st = st, ![p].decision = d ]
        PROVE  DOMAIN pauses' = DOMAIN pauses /\ Len(pauses') = Len(pauses)
    BY <2>1, TypeParts, LenProperties DEF ApprovalsOK
  <2>2. CASE Decide(t)
    BY <2>1, <2>2 DEF Decide
  <2>3. CASE NodeTimeout(t)
    BY <2>1, <2>3, TypeParts DEF NodeTimeout, TakeTimeout, ApprovalsOK
  <2>4. QED
    BY <2>2, <2>3
<1>3. \A u \in Thread : th'[u].pc \in Ahead => th[u].pc \in Ahead
  <2>1. CASE Decide(t)
    BY <2>1, Bystanders DEF Ahead
  <2>2. CASE NodeTimeout(t)
    <3>1. th'[t].pc \notin Driving /\ \A u \in Thread \ { t } : th'[u] = th[u]
      BY <2>2, TakeTimeoutPlace DEF NodeTimeout
    <3>2. QED
      BY <3>1 DEF Ahead
  <2>3. QED
    BY <2>1, <2>2
<1>4. QED
  BY <1>1, <1>2, <1>3 DEF TurnInv

\* A new pause is the last, and its driver waits with it.
LEMMA TurnAsks ==
  ASSUME TypeOK, DriverInv, TurnInv, NEW t \in Thread, AskHuman(t)
  PROVE  TurnInv'
<1>1. th[t].pc \in Ahead
  BY DEF AskHuman, Ahead, Driving
<1>2. UNCHANGED << status, applied >> /\ Others(t)
  BY DrivesUnruled DEF AskHuman, row
<1>3. th'[t].pc \notin Ahead
  <2> DEFINE place == IF DefOf(t).nodeTimeout[th[t].at] THEN "arm" ELSE "suspend"
  <2>1. th' = [ th EXCEPT ![t].pause = Len(pauses) + 1, ![t].task = 0, ![t].pc = place ]
    BY DEF AskHuman
  <2>2. place \in { "arm", "suspend" }
    OBVIOUS
  <2> HIDE DEF place
  <2>3. th'[t].pc = place
    BY <2>1, HandlerFacts DEF ThreadState
  <2>4. QED
    BY <2>2, <2>3 DEF Ahead
<1>4. \A u \in Thread : th'[u].pc \notin Ahead
  BY <1>1, <1>2, <1>3 DEF DriverInv, Others, Ahead
<1>5. status \notin Paused \cup { "pending" }
  BY <1>1 DEF DriverInv, Ahead
<1>6. status \in Live => status = "running" /\ DOMAIN pauses \subseteq applied
  BY <1>1, <1>5 DEF TurnInv, Live, Paused
<1>7. \A p \in DOMAIN pauses' : p = Len(pauses') \/ p \in DOMAIN pauses
  <2>1. pauses \in Seq(Pause) /\ DOMAIN pauses = 1 .. Len(pauses) /\ Len(pauses) \in Nat
    BY TypeParts, LenProperties DEF ApprovalsOK
  <2>2. PICK r : pauses' = Append(pauses, r)
    BY DEF AskHuman
  <2>3. Len(pauses') = Len(pauses) + 1 /\ DOMAIN pauses' = 1 .. Len(pauses) + 1
    BY <2>1, <2>2
  <2>4. QED
    BY <2>1, <2>3
<1>8. QED
  BY <1>2, <1>4, <1>5, <1>6, <1>7 DEF TurnInv, Paused

\* The driver suspends for tools only when no approval is open.
LEMMA TurnSuspends ==
  ASSUME TypeOK, TurnInv, NEW t \in Thread, Suspend(t)
  PROVE  TurnInv'
<1>1. UNCHANGED << pauses, applied >>
  BY DEF Suspend, approvals
<1>2. \A u \in Thread : th'[u].pc \in Ahead => th[u].pc \in Ahead
  <2>1. Others(t) /\ th'[t].pc = "save"
    BY GoesTo DEF Suspend
  <2>2. QED
    BY <2>1 DEF Others, Ahead, Driving
<1>3. \/ UNCHANGED status
      \/ /\ status = "running" /\ status' = "paused_for_human"
      \/ /\ status = "running" /\ status' = "paused_for_tool" /\ th[t].pc = "dispatch"
  BY DEF Suspend, Transition, AfterTransition, Transits, At
<1>4. CASE UNCHANGED status
  BY <1>1, <1>2, <1>4 DEF TurnInv
<1>5. CASE status = "running" /\ status' = "paused_for_human"
  BY <1>1, <1>5 DEF TurnInv, Live
<1>6. CASE status = "running" /\ status' = "paused_for_tool" /\ th[t].pc = "dispatch"
  <2>1. DOMAIN pauses \subseteq applied
    BY <1>6 DEF TurnInv, Ahead, Driving
  <2>2. QED
    BY <1>1, <1>6, <2>1 DEF TurnInv, Live
<1>7. QED
  BY <1>3, <1>4, <1>5, <1>6

\* Who starts, or resumes after its tools, drives a row with no approval open.
LEMMA TurnStarts ==
  ASSUME TypeOK, DriverInv, TurnInv, NEW t \in Thread,
         Start(t) \/ StartRefused(t) \/ WakeCas(t)
  PROVE  TurnInv'
<1>1. UNCHANGED << pauses, applied >>
  BY DEF Start, StartRefused, WakeCas, approvals
<1>2. CASE Start(t)
  <2>1. status = "pending" /\ status' = "running"
    BY <1>2 DEF Start, Transition, AfterTransition, Transits, ValidTransitions, Status
  <2>2. QED
    BY <1>1, <2>1 DEF TurnInv
<1>3. CASE StartRefused(t)
  <2>1. status = "cancelled" /\ status' = "cancelled"
    BY <1>3 DEF StartRefused, DriverInv, row
  <2>2. QED
    BY <2>1 DEF TurnInv, Live
<1>4. CASE WakeCas(t) /\ Transits(status, "paused_for_tool", "running")
  <2>1. status = "paused_for_tool" /\ status' = "running"
    BY <1>4 DEF WakeCas, Transition, AfterTransition, Transits
  <2>2. QED
    BY <1>1, <2>1 DEF TurnInv
<1>5. CASE WakeCas(t) /\ ~Transits(status, "paused_for_tool", "running")
  <2>1. UNCHANGED status /\ Finish(t)
    BY <1>5 DEF WakeCas, Woken, Transition, AfterTransition
  <2>2. Others(t) /\ th'[t].pc \notin Ahead
    BY <2>1, FinishPlace DEF Others, Ahead
  <2>3. QED
    BY <1>1, <2>1, <2>2, TurnStep
<1>6. QED
  BY <1>2, <1>3, <1>4, <1>5

\* The ruling that wins the row is the last pause's.
LEMMA RetakesLast ==
  ASSUME TypeOK, ClaimInv, TurnInv, NEW t \in Thread, At(t, "retake"),
         status = "paused_for_human"
  PROVE  th[t].ruling.pause \in DOMAIN pauses /\ th[t].ruling.pause = Len(pauses)
<1>1. th[t].ruling.pause \in DOMAIN pauses /\ th[t].ruling.pause \notin applied
  BY DEF ClaimInv, Claims, Claiming, At, Taken, TakenIn
<1>2. QED
  BY <1>1 DEF TurnInv, Live

LEMMA TurnRetakes ==
  ASSUME TypeOK, ClaimInv, TurnInv, NEW t \in Thread, Retake(t)
  PROVE  TurnInv'
<1>1. UNCHANGED pauses
  BY DEF Retake
<1>2. CASE Transits(status, "paused_for_human", "running")
  <2>1. /\ status = "paused_for_human" /\ status' = "running"
        /\ applied' = applied \cup { th[t].ruling.pause }
    BY <1>2 DEF Retake, Transition, AfterTransition, Transits
  <2>2. th[t].ruling.pause = Len(pauses)
    BY <2>1, RetakesLast DEF Retake
  <2>3. DOMAIN pauses \subseteq applied'
    BY <2>1, <2>2 DEF TurnInv, Live
  <2>4. QED
    BY <1>1, <2>1, <2>3 DEF TurnInv
<1>3. CASE ~Transits(status, "paused_for_human", "running")
  <2>1. UNCHANGED << status, applied >> /\ Finish(t)
    BY <1>3 DEF Retake, Transition, AfterTransition
  <2>2. Others(t) /\ th'[t].pc \notin Ahead
    BY <2>1, FinishPlace DEF Others, Ahead
  <2>3. QED
    BY <1>1, <2>1, <2>2, TurnStep
<1>4. QED
  BY <1>2, <1>3

LEMMA TurnInvStep ==
  ASSUME TypeOK, DriverInv, ClaimInv, TurnInv, [Next]_vars, used'.recoveries = 0
  PROVE  TurnInv'
<1>1. ASSUME NEW t \in Thread, Proceed(t) PROVE TurnInv'
  BY <1>1, TurnEnds, TurnBystands, TurnDrives, TurnAsks, TurnSuspends, TurnStarts, TurnRetakes
     DEF Proceed
<1>2. ASSUME NEW t \in Thread,
             \/ Start(t) \/ StartRefused(t) \/ Throw(t) \/ Decide(t) \/ ToolCallback(t)
             \/ NodeTimeout(t) \/ SopTimeout(t) \/ CancelRead(t) \/ Crash(t)
      PROVE  TurnInv'
  BY <1>2, TurnStarts, TurnEnds, TurnRules, TurnBystands
<1>3. CASE LimitPasses \/ RowAges \/ EditDefinition \/ UNCHANGED vars
  <2>1. UNCHANGED << status, applied, pauses, th >>
    BY <1>3 DEF LimitPasses, RowAges, EditDefinition, vars, row, approvals
  <2>2. QED
    BY <2>1 DEF TurnInv
<1>4. \A t \in Thread : ~Recover(t)
  BY RecoveriesGrow
<1>5. QED
  BY <1>1, <1>2, <1>3, <1>4 DEF Next

\* A step of one handler leaves the others where they are.
LEMMA StepsAlone ==
  ASSUME TypeOK, NEW u \in Thread,
         \/ Start(u) \/ StartRefused(u) \/ Proceed(u) \/ Throw(u) \/ Decide(u)
         \/ ToolCallback(u) \/ NodeTimeout(u) \/ SopTimeout(u) \/ CancelRead(u)
         \/ Recover(u) \/ Crash(u)
  PROVE  Others(u)
<1>1. CASE \/ LoadWithoutStartNode(u) \/ LimitReached(u) \/ NodeMissing(u) \/ GateTerminate(u)
           \/ Complete(u) \/ NodeFatal(u) \/ RedoFail(u) \/ TimeoutEnd(u) \/ Throw(u)
           \/ RejectLimit(u) \/ Cancel(u) \/ Crash(u)
  BY <1>1, EndsUnruled
<1>2. CASE \/ Start(u) \/ StartRefused(u) \/ ToolCallback(u) \/ SopTimeout(u) \/ CancelRead(u)
           \/ RecoverRunning(u) \/ RecoverLost(u) \/ RecoverError(u) \/ Guard(u)
  BY <1>2, BeginsUnruled
<1>3. CASE \/ Load(u) \/ GateReroute(u) \/ Enter(u) \/ NodeDone(u) \/ NodeRetry(u)
           \/ NodeErrorExit(u) \/ AskHuman(u) \/ Arm(u) \/ Dispatch(u) \/ DispatchFailed(u)
           \/ Suspend(u) \/ Save(u) \/ Retake(u) \/ ResumeSave(u) \/ Route(u) \/ Count(u)
           \/ WakeLoad(u) \/ WakeCas(u) \/ RedoDone(u)
  BY <1>3, DrivesUnruled
<1>4. CASE Decide(u) \/ ResumeLoad(u) \/ CountRejection(u) \/ TimeoutRead(u)
  BY <1>4, Bystanders DEF Others
<1>5. CASE NodeTimeout(u)
  BY <1>5, TakeTimeoutPlace DEF NodeTimeout, Others
<1>6. CASE RecoverWaiting(u)
  <2>1. UNCHANGED th \/ \E p : At(u, "idle") /\ TakeTimeout(u, p)
    BY <1>6 DEF RecoverWaiting, Recovers
  <2>2. QED
    BY <2>1, TakeTimeoutPlace DEF Others
<1>7. CASE RecoverDecided(u)
  <2>1. \E l : Become(u, l)
    BY <1>7 DEF RecoverDecided
  <2>2. QED
    BY <2>1, MovesTo
<1>8. QED
  BY <1>1, <1>2, <1>3, <1>4, <1>5, <1>6, <1>7 DEF Proceed, Recover

\* Of its own steps, a handler at retake can only be taken on by Retake: it crashes
\* or it tries to win the row.
LEMMA LeavesRetake ==
  ASSUME TypeOK, NEW t \in Thread, At(t, "retake"),
         \/ Start(t) \/ StartRefused(t) \/ Proceed(t) \/ Throw(t) \/ Decide(t)
         \/ ToolCallback(t) \/ NodeTimeout(t) \/ SopTimeout(t) \/ CancelRead(t)
         \/ Recover(t) \/ Crash(t)
  PROVE  Retake(t) \/ Crash(t)
<1>1. th[t].pc = "retake"
  BY DEF At
<1>2. ~Start(t) /\ ~StartRefused(t) /\ ~Decide(t) /\ ~ToolCallback(t) /\ ~NodeTimeout(t)
      /\ ~SopTimeout(t) /\ ~CancelRead(t)
  BY <1>1 DEF Start, StartRefused, Decide, ToolCallback, NodeTimeout, SopTimeout, CancelRead, At
<1>3. ~Recover(t)
  BY <1>1 DEF Recover, RecoverRunning, RecoverWaiting, RecoverDecided, RecoverLost, RecoverError,
     Recovers, At
<1>4. ~Throw(t)
  BY <1>1 DEF Throw, InExecuteSop
<1>5. /\ ~Load(t) /\ ~LoadWithoutStartNode(t) /\ ~LimitReached(t) /\ ~NodeMissing(t)
      /\ ~GateReroute(t) /\ ~GateTerminate(t) /\ ~Enter(t) /\ ~NodeDone(t) /\ ~Complete(t)
      /\ ~NodeRetry(t) /\ ~NodeErrorExit(t) /\ ~NodeFatal(t)
      /\ ~AskHuman(t) /\ ~Arm(t) /\ ~Dispatch(t) /\ ~DispatchFailed(t)
  BY <1>1 DEF Load, LoadWithoutStartNode, LimitReached, NodeMissing, GateReroute, GateTerminate,
     Enter, NodeDone, Complete, NodeRetry, NodeErrorExit, NodeFatal, AskHuman, Arm, Dispatch,
     DispatchFailed, AtNode, Executing, At
<1>6. /\ ~Suspend(t) /\ ~Save(t) /\ ~Guard(t) /\ ~ResumeLoad(t) /\ ~RejectLimit(t)
      /\ ~CountRejection(t) /\ ~ResumeSave(t) /\ ~Route(t) /\ ~Count(t) /\ ~WakeLoad(t)
      /\ ~WakeCas(t) /\ ~RedoDone(t) /\ ~RedoFail(t) /\ ~TimeoutRead(t) /\ ~TimeoutEnd(t)
      /\ ~Cancel(t)
  BY <1>1 DEF Suspend, Save, Guard, ResumeLoad, RejectLimit, CountRejection, ResumeSave, Route,
     Count, WakeLoad, WakeCas, RedoDone, RedoFail, TimeoutRead, TimeoutEnd, Cancel, At
<1>7. QED
  BY <1>2, <1>3, <1>4, <1>5, <1>6 DEF Proceed

\* Only Retake takes a handler from retake to resumeSave, and only by winning.
LEMMA LastPauseStep ==
  ASSUME TypeOK, DriverInv, ClaimInv, TurnInv, [Next]_vars, NEW t \in Thread,
         At(t, "retake"), th'[t].pc = "resumeSave"
  PROVE  th[t].ruling.pause = Len(pauses)
<1>1. th'[t] # th[t]
  BY DEF At
<1>2. ~(LimitPasses \/ RowAges \/ EditDefinition \/ UNCHANGED vars)
  BY <1>1 DEF LimitPasses, RowAges, EditDefinition, vars
<1>3. PICK u \in Thread :
         \/ Start(u) \/ StartRefused(u) \/ Proceed(u) \/ Throw(u) \/ Decide(u)
         \/ ToolCallback(u) \/ NodeTimeout(u) \/ SopTimeout(u) \/ CancelRead(u)
         \/ Recover(u) \/ Crash(u)
  BY <1>2 DEF Next
<1>4. u = t
  BY <1>1, <1>3, StepsAlone DEF Others
<1>5. Retake(t) \/ Crash(t)
  BY <1>3, <1>4, LeavesRetake
<1>6. ~Finish(t)
  BY MovesTo DEF Finish, Idle
<1>7. Transits(status, "paused_for_human", "running")
  BY <1>5, <1>6 DEF Retake, Crash
<1>8. QED
  BY <1>7, RetakesLast DEF Transits

UnrecoveredInv == used.recoveries = 0 => DriverInv /\ ClaimInv /\ TurnInv

LEMMA UnrecoveredHolds == Spec => []UnrecoveredInv
<1>1. Init => UnrecoveredInv
  <2> SUFFICES ASSUME Init PROVE DriverInv /\ ClaimInv /\ TurnInv
    BY DEF UnrecoveredInv
  <2>1. DriverInv
    BY FreshPlace DEF Init, DriverInv
  <2>2. ClaimInv
    BY DEF Init, ClaimInv, Claims, Claiming, Idle
  <2>3. TurnInv
    BY DEF Init, TurnInv, Live
  <2>4. QED
    BY <2>1, <2>2, <2>3
<1>2. TypeOK /\ UnrecoveredInv /\ [Next]_vars => UnrecoveredInv'
  <2> SUFFICES ASSUME TypeOK, UnrecoveredInv, [Next]_vars, used'.recoveries = 0
               PROVE  DriverInv' /\ ClaimInv' /\ TurnInv'
    BY DEF UnrecoveredInv
  <2>1. DriverInv /\ ClaimInv /\ TurnInv
    BY RecoveriesGrow DEF UnrecoveredInv
  <2>2. QED
    BY <2>1, DriverInvStep, ClaimInvStep, TurnInvStep
<1>3. QED
  BY <1>1, <1>2, TypeCorrect, PTL DEF Spec

\* Until an execution is recovered for the first time, the decision that resumes it
\* is the one of its last pause, never one of an earlier approval that comes late.
THEOREM LastPauseResumedUnrecovered ==
  Spec => [][ \A t \in Thread : /\ used.recoveries = 0
                                /\ At(t, "retake") /\ th'[t].pc = "resumeSave"
                => th[t].ruling.pause = Len(pauses) ]_vars
<1>1. TypeOK /\ UnrecoveredInv /\ [Next]_vars
        => [ \A t \in Thread : /\ used.recoveries = 0
                               /\ At(t, "retake") /\ th'[t].pc = "resumeSave"
               => th[t].ruling.pause = Len(pauses) ]_vars
  BY LastPauseStep DEF UnrecoveredInv
<1>2. QED
  BY <1>1, UnrecoveredHolds, TypeCorrect, PTL DEF Spec

\* Without recovery the decision that resumes an execution is its last pause's.
THEOREM LastPauseResumed == MaxRecoveries = 0 => (Spec => ResumesLastPause)
<1> SUFFICES ASSUME MaxRecoveries = 0 PROVE Spec => ResumesLastPause
  OBVIOUS
<1>1. Spec => [](used.recoveries = 0)
  BY NeverRecovered
<1>2. TypeOK /\ used.recoveries = 0 /\ UnrecoveredInv /\ [Next]_vars
        => [ \A t \in Thread : At(t, "retake") /\ th'[t].pc = "resumeSave"
               => th[t].ruling.pause = Len(pauses) ]_vars
  BY LastPauseStep DEF UnrecoveredInv
<1>3. QED
  BY <1>1, <1>2, UnrecoveredHolds, TypeCorrect, PTL DEF Spec, ResumesLastPause

-------------------------------------------------------------------------------
(* The pause rows are a ledger.                                            *)

HoldsIn(ps, r) == /\ r.pause \in DOMAIN ps
                  /\ ps[r.pause].node = r.node
                  /\ ps[r.pause].decision = r.decision
                  /\ ps[r.pause].st # "waiting"
Keeps == \A r : HoldsIn(pauses, r) => HoldsIn(pauses', r)

LEMMA Recorded ==
  /\ RulingsRecorded <=>
       \A t \in Thread : th[t].pc \in Heeding => HoldsIn(pauses, th[t].ruling)
  /\ RulingsRecorded' <=>
       \A t \in Thread : th'[t].pc \in Heeding => HoldsIn(pauses', th'[t].ruling)
BY DEF RulingsRecorded, Heeds, HoldsRuling, HoldsIn, Heeding, Claiming, InResume

\* What a step of one handler may do: have no ruling after it, keep the one it has,
\* or take one from its row.
LEMMA RecordedStep ==
  ASSUME RulingsRecorded, NEW t \in Thread, Others(t), Keeps,
         \/ th'[t].pc \notin Heeding
         \/ th[t].pc \in Heeding /\ th'[t].ruling = th[t].ruling
         \/ HoldsIn(pauses', th'[t].ruling)
  PROVE  RulingsRecorded'
<1>1. ASSUME NEW u \in Thread, th'[u].pc \in Heeding
      PROVE  HoldsIn(pauses', th'[u].ruling)
  <2>1. CASE u = t
    BY <1>1, <2>1, Recorded DEF Keeps
  <2>2. CASE u # t
    BY <1>1, <2>2, Recorded DEF Keeps, Others
  <2>3. QED
    BY <2>1, <2>2
<1>2. QED
  BY <1>1, Recorded

LEMMA KeptAsIs == ASSUME UNCHANGED pauses PROVE Keeps
BY DEF Keeps

\* A pause that is settled: the others keep what they hold, it holds the ruling.
LEMMA KeptSettling ==
  ASSUME TypeOK, NEW p \in DOMAIN pauses, pauses[p].st = "waiting", NEW st, NEW d,
         st # "waiting", pauses' = [ pauses EXCEPT ![p].st = st, ![p].decision = d ]
  PROVE  /\ Keeps
         /\ \A r : /\ r.pause = p /\ r.node = pauses[p].node /\ r.decision = d
                   => HoldsIn(pauses', r)
<1>1. /\ pauses[p] \in Pause /\ DOMAIN pauses' = DOMAIN pauses
      /\ \A q \in DOMAIN pauses \ { p } : pauses'[q] = pauses[q]
      /\ pauses'[p] = [ pauses[p] EXCEPT !.st = st, !.decision = d ]
  BY TypeParts, LenProperties, ElementOfSeq DEF ApprovalsOK
<1>2. pauses'[p].st = st /\ pauses'[p].decision = d /\ pauses'[p].node = pauses[p].node
  BY <1>1 DEF Pause
<1>3. QED
  BY <1>1, <1>2 DEF Keeps, HoldsIn

LEMMA KeptAsking ==
  ASSUME TypeOK, NEW r, pauses' = Append(pauses, r)
  PROVE  Keeps
<1>1. pauses \in Seq(Pause) /\ DOMAIN pauses = 1 .. Len(pauses) /\ Len(pauses) \in Nat
  BY TypeParts, LenProperties DEF ApprovalsOK
<1>2. /\ DOMAIN pauses' = 1 .. Len(pauses) + 1
      /\ \A q \in 1 .. Len(pauses) : pauses'[q] = pauses[q]
  BY <1>1
<1>3. \A q \in DOMAIN pauses : q \in DOMAIN pauses' /\ pauses'[q] = pauses[q]
  BY <1>1, <1>2
<1>4. QED
  BY <1>3 DEF Keeps, HoldsIn

\* How a pause is settled, by a route, a job or a recovery.
LEMMA Settles ==
  ASSUME TypeOK, NEW t \in Thread,
         \/ Decide(t)
         \/ \E p \in DOMAIN pauses : TakeTimeout(t, p)
  PROVE  \/ UNCHANGED << pauses, th >>
         \/ \E p \in DOMAIN pauses, st \in { "decided", "timeout" }, d \in Decision : \E place :
              /\ pauses[p].st = "waiting"
              /\ pauses' = [ pauses EXCEPT ![p].st = st, ![p].decision = d ]
              /\ Given(t, p, d, place)
<1>1. CASE Decide(t)
  <2>1. PICK p \in DOMAIN pauses, d \in { "approved", "rejected" } :
          /\ pauses[p].st = "waiting"
          /\ pauses' = [ pauses EXCEPT ![p].st = "decided", ![p].decision = d ]
          /\ Given(t, p, d, "resume")
    BY <1>1 DEF Decide, Decidable, Given
  <2>2. d \in Decision
    BY DEF Decision
  <2>3. QED
    BY <2>1, <2>2
<1>2. ASSUME NEW p \in DOMAIN pauses, TakeTimeout(t, p), pauses[p].st = "waiting"
      PROVE  \E st \in { "decided", "timeout" }, d \in Decision : \E place :
               /\ pauses' = [ pauses EXCEPT ![p].st = st, ![p].decision = d ]
               /\ Given(t, p, d, place)
  BY <1>2 DEF TakeTimeout, TimeoutDecision, Decision, Given
<1>3. ASSUME NEW p \in DOMAIN pauses, TakeTimeout(t, p), pauses[p].st # "waiting"
      PROVE  UNCHANGED << pauses, th >>
  BY <1>3 DEF TakeTimeout
<1>4. QED
  BY <1>1, <1>2, <1>3

LEMMA RecordedSettling ==
  ASSUME TypeOK, RulingsRecorded, NEW t \in Thread,
         \/ Decide(t)
         \/ \E p \in DOMAIN pauses : TakeTimeout(t, p)
  PROVE  RulingsRecorded'
<1>1. ASSUME NEW p \in DOMAIN pauses, NEW st, NEW d, NEW place, pauses[p].st = "waiting",
             st # "waiting", pauses' = [ pauses EXCEPT ![p].st = st, ![p].decision = d ],
             Given(t, p, d, place)
      PROVE  RulingsRecorded'
  <2>1. /\ Others(t) /\ th'[t].ruling.pause = p /\ th'[t].ruling.decision = d
        /\ th'[t].ruling.node = pauses[p].node
    BY <1>1, RulesAt
  <2>2. Keeps /\ HoldsIn(pauses', th'[t].ruling)
    BY <1>1, <2>1, KeptSettling
  <2>3. QED
    BY <2>1, <2>2, RecordedStep
<1>2. UNCHANGED << pauses, th >> => RulingsRecorded'
  BY Recorded
<1>3. ASSUME NEW p \in DOMAIN pauses, NEW st \in { "decided", "timeout" }, NEW d, NEW place,
             pauses[p].st = "waiting",
             pauses' = [ pauses EXCEPT ![p].st = st, ![p].decision = d ],
             Given(t, p, d, place)
      PROVE  RulingsRecorded'
  BY <1>1, <1>3
<1>4. QED
  BY <1>2, <1>3, Settles

LEMMA RecordedGoesOn ==
  ASSUME TypeOK, RulingsRecorded, NEW t \in Thread,
         ResumeLoad(t) \/ CountRejection(t) \/ TimeoutRead(t)
  PROVE  RulingsRecorded'
<1>0. th \in [ Thread -> ThreadState ] /\ th[t] \in ThreadState
  BY HandlerFacts
<1>1. UNCHANGED pauses /\ th[t].pc \in Heeding
  BY DEF ResumeLoad, CountRejection, TimeoutRead, approvals, At, Claiming, Heeding
<1>2. Others(t) /\ (th'[t].ruling = th[t].ruling \/ th'[t].pc \notin Heeding)
  <2>1. CASE ResumeLoad(t)
    <3> DEFINE s == RuleNode(snap, th[t].ruling)
               place == IF CountsAsRejection(th[t].ruling) THEN "reject" ELSE "retake"
    <3>1. th' = [ th EXCEPT ![t].mem = s, ![t].counted = rejections, ![t].pc = place ]
      BY <2>1 DEF ResumeLoad
    <3> HIDE DEF s, place
    <3>2. QED
      BY <1>0, <3>1 DEF Others, ThreadState
  <2>2. CASE CountRejection(t)
    BY <2>2, GoesTo DEF CountRejection
  <2>3. CASE TimeoutRead(t)
    <3>1. \/ Goto(t, "resume")
          \/ Become(t, [ Idle EXCEPT !.pc = "timeoutEnd", !.seen = status ])
      BY <2>3 DEF TimeoutRead
    <3>2. ASSUME Goto(t, "resume") PROVE Others(t) /\ th'[t].ruling = th[t].ruling
      BY <3>2, GoesTo
    <3>3. ASSUME NEW l, l.pc \notin Heeding, Become(t, l)
          PROVE  Others(t) /\ th'[t].pc \notin Heeding
      BY <3>3, MovesTo
    <3>4. QED
      BY <3>1, <3>2, <3>3, BegunElsewhere
  <2>4. QED
    BY <2>1, <2>2, <2>3
<1>3. QED
  BY <1>1, <1>2, KeptAsIs, RecordedStep

LEMMA RecordedElsewhere ==
  ASSUME TypeOK, RulingsRecorded, NEW t \in Thread,
         \/ Load(t) \/ LoadWithoutStartNode(t) \/ LimitReached(t) \/ NodeMissing(t)
         \/ GateReroute(t) \/ GateTerminate(t) \/ Enter(t) \/ NodeDone(t) \/ Complete(t)
         \/ NodeRetry(t) \/ NodeErrorExit(t) \/ NodeFatal(t) \/ Arm(t) \/ Dispatch(t)
         \/ DispatchFailed(t) \/ Suspend(t) \/ Save(t) \/ Guard(t) \/ RejectLimit(t)
         \/ Retake(t) \/ ResumeSave(t) \/ Route(t) \/ Count(t) \/ WakeLoad(t) \/ WakeCas(t)
         \/ RedoDone(t) \/ RedoFail(t) \/ TimeoutEnd(t) \/ Cancel(t)
         \/ Start(t) \/ StartRefused(t) \/ Throw(t) \/ ToolCallback(t)
         \/ SopTimeout(t) \/ CancelRead(t) \/ Crash(t)
         \/ RecoverRunning(t) \/ RecoverLost(t) \/ RecoverError(t)
  PROVE  RulingsRecorded'
<1>1. UNCHANGED pauses
  BY DEF Load, LoadWithoutStartNode, LimitReached, NodeMissing, GateReroute, GateTerminate,
     Enter, NodeDone, Complete, NodeRetry, NodeErrorExit, NodeFatal, Arm, Dispatch,
     DispatchFailed, Suspend, Save, Guard, RejectLimit, Retake, ResumeSave, Route, Count,
     WakeLoad, WakeCas, RedoDone, RedoFail, TimeoutEnd, Cancel, Start, StartRefused, Throw,
     ToolCallback, SopTimeout, CancelRead, Crash, RecoverRunning, RecoverLost, RecoverError,
     approvals
<1>2. /\ Others(t)
      /\ \/ th'[t].pc \notin Heeding
         \/ th[t].pc \in Heeding /\ th'[t].ruling = th[t].ruling
  BY EndsUnruled, BeginsUnruled, DrivesUnheeding, AppliesRuling
<1>3. QED
  BY <1>1, <1>2, KeptAsIs, RecordedStep

LEMMA RecordedAsking ==
  ASSUME TypeOK, RulingsRecorded, NEW t \in Thread, AskHuman(t)
  PROVE  RulingsRecorded'
<1>1. \E r : pauses' = Append(pauses, r)
  BY DEF AskHuman
<1>2. QED
  BY <1>1, KeptAsking, DrivesUnheeding, RecordedStep

\* A recovery resumes with a pause as it stands in its row.
LEMMA RecordedRecovering ==
  ASSUME TypeOK, RulingsRecorded, NEW t \in Thread, RecoverWaiting(t) \/ RecoverDecided(t)
  PROVE  RulingsRecorded'
<1>1. CASE RecoverWaiting(t)
  <2>1. \/ \E p \in DOMAIN pauses : TakeTimeout(t, p)
        \/ UNCHANGED << pauses, th >>
    BY <1>1 DEF RecoverWaiting, PausesIn
  <2>2. UNCHANGED << pauses, th >> => RulingsRecorded'
    BY Recorded
  <2>3. QED
    BY <2>1, <2>2, RecordedSettling
<1>2. CASE RecoverDecided(t)
  <2>1. PICK p \in DOMAIN pauses :
          /\ pauses[p].st = "decided"
          /\ Become(t, [ Idle EXCEPT !.pc = "resume",
                                     !.ruling = RulingOf(p, pauses[p].decision) ])
    BY <1>2 DEF RecoverDecided, PausesIn
  <2> DEFINE place == "resume"
             d == pauses[p].decision
  <2>2. Become(t, [ Idle EXCEPT !.pc = place, !.ruling = RulingOf(p, d) ])
    BY <2>1
  <2>3. d = pauses[p].decision /\ UNCHANGED pauses
    BY <1>2 DEF RecoverDecided, approvals
  <2> HIDE DEF place, d
  <2>4. /\ Others(t) /\ th'[t].ruling.pause = p /\ th'[t].ruling.decision = d
        /\ th'[t].ruling.node = pauses[p].node
    <3>1. Given(t, p, d, place)
      BY <2>2 DEF Given
    <3>2. QED
      BY <3>1, RulesAt
  <2>5. HoldsIn(pauses', th'[t].ruling)
    BY <2>1, <2>3, <2>4 DEF HoldsIn
  <2>6. QED
    BY <2>3, <2>4, <2>5, KeptAsIs, RecordedStep
<1>3. QED
  BY <1>1, <1>2

LEMMA RecordedNext ==
  ASSUME TypeOK, RulingsRecorded, [Next]_vars
  PROVE  RulingsRecorded'
<1>1. ASSUME NEW t \in Thread, Proceed(t) \/ Recover(t)
      PROVE  RulingsRecorded'
  BY <1>1, RecordedElsewhere, RecordedGoesOn, RecordedAsking, RecordedRecovering
     DEF Proceed, Recover
<1>2. ASSUME NEW t \in Thread,
             \/ Start(t) \/ StartRefused(t) \/ Throw(t) \/ Decide(t) \/ ToolCallback(t)
             \/ NodeTimeout(t) \/ SopTimeout(t) \/ CancelRead(t) \/ Crash(t)
      PROVE  RulingsRecorded'
  <2>1. NodeTimeout(t) => \E p \in DOMAIN pauses : TakeTimeout(t, p)
    BY TypeParts DEF ApprovalsOK, NodeTimeout
  <2>2. QED
    BY <1>2, <2>1, RecordedElsewhere, RecordedSettling
<1>3. CASE LimitPasses \/ RowAges \/ EditDefinition \/ UNCHANGED vars
  <2>1. UNCHANGED << pauses, th >>
    BY <1>3 DEF LimitPasses, RowAges, EditDefinition, vars, approvals
  <2>2. QED
    BY <2>1, Recorded
<1>4. QED
  BY <1>1, <1>2, <1>3 DEF Next

\* Whatever a handler resumes with is what the row of that very pause says, node and
\* decision, until it has routed the execution by it: no crash, recovery, repeated
\* job or late answer makes an approval count for another node or as another decision.
THEOREM RulingsAreRecorded == Spec => []RulingsRecorded
<1>1. Init => RulingsRecorded
  BY DEF Init, RulingsRecorded, Heeds, InResume, Idle
<1>2. TypeOK /\ RulingsRecorded /\ [Next]_vars => RulingsRecorded'
  BY RecordedNext
<1>3. QED
  BY <1>1, <1>2, TypeCorrect, PTL DEF Spec

DecisionIn(ps) == [ p \in PauseId |-> IF p \in DOMAIN ps THEN ps[p].decision ELSE NoDecision ]

LEMMA PausesNumbered ==
  ASSUME TypeOK, NEW p \in DOMAIN pauses
  PROVE  p \in PauseId /\ pauses[p] \in Pause
<1>1. pauses \in Seq(Pause) /\ Len(pauses) <= MaxPauses
  BY TypeParts DEF ApprovalsOK
<1>2. Len(pauses) \in Nat /\ DOMAIN pauses = 1 .. Len(pauses)
  BY <1>1, LenProperties
<1>3. pauses[p] \in Pause
  BY <1>1, <1>2, ElementOfSeq
<1>4. QED
  BY <1>1, <1>2, <1>3, BoundAssumption DEF PauseId

\* Whatever a step does, those who go on with a ruling go on with one of the ledger.
LEMMA HeedsLedger ==
  ASSUME TypeOK', RulingsRecorded'
  PROVE  Ledger!Heed
<1>1. ASSUME NEW t \in Thread, Heeds(t)'
      PROVE  /\ th'[t].ruling.pause \in DOMAIN pauses'
             /\ th'[t].ruling.decision \in Decision
             /\ DecisionOf'[th'[t].ruling.pause] = th'[t].ruling.decision
  <2> DEFINE p == th'[t].ruling.pause
  <2>1. HoldsIn(pauses', th'[t].ruling)
    BY <1>1, Recorded DEF Heeds, Heeding, Claiming, InResume
  <2>2. p \in PauseId /\ pauses'[p] \in Pause
    <3>1. pauses' \in Seq(Pause) /\ Len(pauses') <= MaxPauses
      BY TypePartsPrimed DEF ApprovalsOK
    <3>2. Len(pauses') \in Nat /\ DOMAIN pauses' = 1 .. Len(pauses')
      BY <3>1, LenProperties
    <3>3. p \in DOMAIN pauses'
      BY <2>1 DEF HoldsIn
    <3> HIDE DEF p
    <3>4. QED
      BY <3>1, <3>2, <3>3, ElementOfSeq, BoundAssumption DEF PauseId
  <2>3. pauses'[p].decision \in Decision
    BY <2>1, <2>2 DEF HoldsIn, Pause
  <2>4. QED
    BY <2>1, <2>2, <2>3 DEF HoldsIn, DecisionOf
<1>2. Heeded' = { << th'[t].ruling.pause, th'[t].ruling.decision >> :
                    t \in { u \in Thread : Heeds(u)' } }
  BY DEF Heeded
<1>3. QED
  BY <1>1, <1>2 DEF Ledger!Heed

LEMMA LedgerKept ==
  ASSUME UNCHANGED << pauses, applied >>
  PROVE  UNCHANGED << DOMAIN pauses, DecisionOf, applied >>
BY DEF DecisionOf

LEMMA LedgerSettles ==
  ASSUME TypeOK, NEW p \in DOMAIN pauses, pauses[p].st = "waiting", NEW st, NEW d \in Decision,
         pauses' = [ pauses EXCEPT ![p].st = st, ![p].decision = d ], UNCHANGED applied
  PROVE  p \in PauseId /\ Ledger!Settle(p)
<1>1. /\ pauses[p] \in Pause /\ DOMAIN pauses' = DOMAIN pauses
      /\ \A q \in DOMAIN pauses \ { p } : pauses'[q] = pauses[q]
      /\ pauses'[p] = [ pauses[p] EXCEPT !.st = st, !.decision = d ]
  BY TypeParts, LenProperties, ElementOfSeq DEF ApprovalsOK
<1>2. pauses[p].decision = NoDecision /\ pauses'[p].decision = d
  BY <1>1 DEF Pause
<1>3. p \in PauseId
  BY PausesNumbered
<1>4. DecisionOf[p] = NoDecision /\ DecisionOf' = [ DecisionOf EXCEPT ![p] = d ]
  <2>1. DecisionOf' = DecisionIn(pauses')
    BY DEF DecisionOf, DecisionIn
  <2>2. DecisionIn(pauses') = [ DecisionOf EXCEPT ![p] = d ]
    BY <1>1, <1>2, <1>3 DEF DecisionOf, DecisionIn
  <2>3. QED
    BY <1>2, <1>3, <2>1, <2>2 DEF DecisionOf
<1>5. QED
  BY <1>1, <1>3, <1>4 DEF Ledger!Settle

LEMMA LedgerOpens ==
  ASSUME TypeOK, NEW t \in Thread, AskHuman(t)
  PROVE  Len(pauses) + 1 \in PauseId /\ Ledger!Open(Len(pauses) + 1)
<1>1. pauses \in Seq(Pause) /\ DOMAIN pauses = 1 .. Len(pauses) /\ Len(pauses) \in Nat
  BY TypeParts, LenProperties DEF ApprovalsOK
<1>2. PICK r : pauses' = Append(pauses, r) /\ r.decision = NoDecision
  BY DEF AskHuman
<1>3. Len(pauses) < MaxPauses /\ UNCHANGED applied
  BY DEF AskHuman
<1> DEFINE p == Len(pauses) + 1
<1>4. p \in PauseId /\ p \notin DOMAIN pauses
  BY <1>1, <1>3, BoundAssumption DEF PauseId
<1>5. /\ DOMAIN pauses' = DOMAIN pauses \cup { p } /\ pauses'[p] = r
      /\ \A q \in DOMAIN pauses : pauses'[q] = pauses[q]
  BY <1>1, <1>2
<1> HIDE DEF p
<1>6. DecisionOf' = DecisionOf
  <2>1. DecisionOf' = DecisionIn(pauses')
    BY DEF DecisionOf, DecisionIn
  <2>2. DecisionIn(pauses') = DecisionOf
    BY <1>2, <1>4, <1>5 DEF DecisionOf, DecisionIn
  <2>3. QED
    BY <2>1, <2>2
<1>7. QED
  BY <1>3, <1>4, <1>5, <1>6 DEF Ledger!Open, p

LEMMA LedgerApplies ==
  ASSUME TypeOK, RulingsRecorded, NEW t \in Thread, Retake(t)
  PROVE  \/ UNCHANGED << pauses, applied >>
         \/ \E p \in PauseId : Ledger!Apply(p)
<1> DEFINE p == th[t].ruling.pause
<1>1. /\ UNCHANGED pauses
      /\ UNCHANGED applied \/ applied' = applied \cup { p }
  BY DEF Retake
<1>2. th[t].pc \in Heeding /\ Heeds(t)
  BY DEF Retake, At, Heeding, Claiming, Heeds, InResume
<1>3. p \in DOMAIN pauses /\ pauses[p].decision = th[t].ruling.decision
  BY <1>2, Recorded DEF HoldsIn
<1>4. p \in PauseId
  BY <1>3, PausesNumbered
<1>5. << p, DecisionOf[p] >> \in Heeded
  BY <1>2, <1>3, <1>4 DEF Heeded, DecisionOf
<1>6. applied' = applied \cup { p } => Ledger!Apply(p)
  BY <1>1, <1>5, LedgerKept DEF Ledger!Apply, DecisionOf
<1>7. QED
  BY <1>1, <1>4, <1>6

LEMMA LedgerStep ==
  ASSUME TypeOK, RulingsRecorded, [Next]_vars
  PROVE  \/ UNCHANGED << pauses, applied >>
         \/ \E p \in PauseId : Ledger!Open(p) \/ Ledger!Settle(p) \/ Ledger!Apply(p)
<1>1. ASSUME NEW t \in Thread,
             \/ Load(t) \/ LoadWithoutStartNode(t) \/ LimitReached(t) \/ NodeMissing(t)
             \/ GateReroute(t) \/ GateTerminate(t) \/ Enter(t) \/ NodeDone(t) \/ Complete(t)
             \/ NodeRetry(t) \/ NodeErrorExit(t) \/ NodeFatal(t) \/ Arm(t) \/ Dispatch(t)
             \/ DispatchFailed(t) \/ Suspend(t) \/ Save(t) \/ Guard(t) \/ RejectLimit(t)
             \/ ResumeLoad(t) \/ CountRejection(t) \/ TimeoutRead(t)
             \/ ResumeSave(t) \/ Route(t) \/ Count(t) \/ WakeLoad(t) \/ WakeCas(t)
             \/ RedoDone(t) \/ RedoFail(t) \/ TimeoutEnd(t) \/ Cancel(t)
             \/ Start(t) \/ StartRefused(t) \/ Throw(t) \/ ToolCallback(t)
             \/ SopTimeout(t) \/ CancelRead(t) \/ Crash(t)
             \/ RecoverRunning(t) \/ RecoverLost(t) \/ RecoverError(t) \/ RecoverDecided(t)
      PROVE  UNCHANGED << pauses, applied >>
  BY <1>1 DEF Load, LoadWithoutStartNode, LimitReached, NodeMissing, GateReroute,
     GateTerminate, Enter, NodeDone, Complete, NodeRetry, NodeErrorExit, NodeFatal, Arm,
     Dispatch, DispatchFailed, Suspend, Save, Guard, RejectLimit, ResumeLoad, CountRejection,
     TimeoutRead, ResumeSave, Route, Count, WakeLoad, WakeCas, RedoDone, RedoFail, TimeoutEnd,
     Cancel, Start, StartRefused, Throw, ToolCallback, SopTimeout, CancelRead, Crash,
     RecoverRunning, RecoverLost, RecoverError, RecoverDecided, approvals
<1>2. ASSUME NEW t \in Thread, Decide(t) \/ NodeTimeout(t) \/ RecoverWaiting(t)
      PROVE  UNCHANGED << pauses, applied >> \/ \E p \in PauseId : Ledger!Settle(p)
  <2>1. UNCHANGED applied
    BY <1>2 DEF Decide, NodeTimeout, RecoverWaiting
  <2>2. \/ UNCHANGED pauses
        \/ Decide(t)
        \/ \E p \in DOMAIN pauses : TakeTimeout(t, p)
    BY <1>2, TypeParts DEF NodeTimeout, RecoverWaiting, PausesIn, ApprovalsOK
  <2>3. \/ UNCHANGED pauses
        \/ \E p \in DOMAIN pauses, st \in { "decided", "timeout" }, d \in Decision :
             /\ pauses[p].st = "waiting"
             /\ pauses' = [ pauses EXCEPT ![p].st = st, ![p].decision = d ]
    BY <2>2, Settles
  <2>4. QED
    BY <2>1, <2>3, LedgerSettles
<1>3. ASSUME NEW t \in Thread,
             \/ Start(t) \/ StartRefused(t) \/ Proceed(t) \/ Throw(t) \/ Decide(t)
             \/ ToolCallback(t) \/ NodeTimeout(t) \/ SopTimeout(t) \/ CancelRead(t)
             \/ Recover(t) \/ Crash(t)
      PROVE  \/ UNCHANGED << pauses, applied >>
             \/ \E p \in PauseId : Ledger!Open(p) \/ Ledger!Settle(p) \/ Ledger!Apply(p)
  <2>1. CASE AskHuman(t)
    BY <2>1, LedgerOpens
  <2>2. CASE Retake(t)
    BY <2>2, LedgerApplies
  <2>3. QED
    BY <1>1, <1>2, <1>3, <2>1, <2>2 DEF Proceed, Recover
<1>4. LimitPasses \/ RowAges \/ EditDefinition \/ UNCHANGED vars => UNCHANGED << pauses, applied >>
  BY DEF LimitPasses, RowAges, EditDefinition, vars, approvals
<1>5. QED
  BY <1>3, <1>4 DEF Next

\* The pause rows are the ledger: an approval is settled once, by the first of
\* routes, timeout jobs and recoveries, its decision never changes, and an execution
\* is resumed only by a handler whose ruling is the decision in the row.
THEOREM ApprovalsImplementLedger == Spec => ImplementsApprovalLedger
<1>1. Init => Ledger!Init
  <2> SUFFICES ASSUME Init PROVE Ledger!Init
    OBVIOUS
  <2>1. Heeded = {}
    BY DEF Init, Heeded, Heeds, InResume, Idle
  <2>2. QED
    BY <2>1 DEF Init, Ledger!Init, DecisionOf
<1>2. TypeOK /\ RulingsRecorded /\ TypeOK' /\ RulingsRecorded' /\ [Next]_vars
        => [Ledger!Next]_(Ledger!ledger)
  BY LedgerStep, LedgerKept, HeedsLedger DEF Ledger!Next
<1>3. QED
  BY <1>1, <1>2, TypeCorrect, RulingsAreRecorded, PTL DEF Spec, ImplementsApprovalLedger, Ledger!Spec
===============================================================================
