----------------------------- MODULE HandoffProofs -----------------------------
(***************************************************************************)
(* Proofs about Handoff, for any number of requests, users and handoffs:   *)
(* its types and its four action properties.  All follow from what a       *)
(* request knows about the row it has read: it is still that row, unless   *)
(* the row has been changed since.                                         *)
(***************************************************************************)
EXTENDS Handoff, FiniteSetTheorems, TLAPS

Row == [ status : { "none", "open", "assigned", "resolved" }, claimed : User \cup { Nobody } ]
Request == [ at : { "idle", "open", "note", "accepted", "patch", "say", "take" },
             user : User \cup { Nobody },
             act : { "none", "ask", "claim", "assign", "close", "reply" },
             id : Ids \cup { 0 }, seen : Row, listed : SUBSET Ids, changed : SUBSET Ids ]

\* Rows are numbered in the order of their insertion and only those that were
\* answered are claimed.
RowsSound ==
  /\ handoff \in [ Ids -> Row ]
  /\ \E n \in 0 .. MaxRows : Rows = 1 .. n
  /\ \A i \in Ids : handoff[i].status \in { "none", "open" } => handoff[i].claimed = Nobody

\* A request that will write knows the row it goes by, unless it has been
\* changed since; what was listed when it looked still is, unless changed since.
Knows(r) ==
  /\ r.at \in { "patch", "say", "take" } =>
       /\ r.id \in Rows /\ r.user \in User
       /\ r.id \notin r.changed => handoff[r.id] = r.seen
  /\ r.at = "patch" => r.act \in { "claim", "assign", "close" } /\ r.seen.status # "none"
  /\ r.at \in { "say", "take" } =>
       /\ r.act = "reply" /\ r.id \in r.listed
       /\ r.seen.status \in { "open", "assigned" } /\ r.seen.claimed \in { Nobody, r.user }
  /\ r.seen.status \in { "none", "open" } => r.seen.claimed = Nobody
  /\ r.at = "note" => Listed # {} \/ r.changed # {}
  /\ r.at \in { "open", "note" } => r.listed \ r.changed \subseteq Listed
  /\ r.listed \subseteq Rows /\ r.changed \subseteq Rows

HandoffInv ==
  /\ RowsSound
  /\ th \in [ Handler -> Request ]
  /\ \A h \in Handler : Knows(th[h])

-------------------------------------------------------------------------------
(* What the helpers keep.                                                  *)

LEMMA IdleTyped == Idle \in Request
<1>1. NoRow \in Row /\ 0 \in Ids \cup { 0 } /\ {} \in SUBSET Ids
  BY DEF NoRow, Row
<1>2. QED
  BY <1>1 DEF Idle, Request

LEMMA IdleKnows == Knows(Idle)
BY DEF Knows, Idle, NoRow

LEMMA InitHolds == Init => HandoffInv
<1> SUFFICES ASSUME Init PROVE HandoffInv
  OBVIOUS
<1>1. handoff \in [ Ids -> Row ]
  BY DEF Init, NoRow, Row
<1>2. Rows = {} /\ 1 .. 0 = {} /\ 0 \in 0 .. MaxRows
  BY NumberAssumption DEF Init, Rows, NoRow
<1>3. RowsSound
  BY <1>1, <1>2 DEF RowsSound, Init, NoRow
<1>4. QED
  BY <1>3, IdleTyped, IdleKnows DEF HandoffInv, Init

\* A request of which the table knows nothing goes on by itself.
LEMMA LocalStep ==
  ASSUME HandoffInv, NEW h \in Handler, NEW r \in Request, Knows(r), UNCHANGED handoff,
         th' = [ th EXCEPT ![h] = r ]
  PROVE  HandoffInv'
<1>1. RowsSound'
  BY DEF HandoffInv, RowsSound, Rows
<1>2. th' \in [ Handler -> Request ] /\ \A g \in Handler : Knows(th'[g])
  BY DEF HandoffInv
<1>3. \A g \in Handler : Knows(th'[g]) => Knows(th[g])'
  BY DEF Knows, Rows, Listed
<1>4. QED
  BY <1>1, <1>2, <1>3 DEF HandoffInv

\* A row that is written: it stays a row, and everybody else who is under way
\* takes note of the change.
LEMMA WriteStep ==
  ASSUME HandoffInv, NEW h \in Handler, NEW i \in Ids, NEW row \in Row, NEW next \in Request,
         Write(h, i, row, next),
         row.status # "none", row.status = "open" => row.claimed = Nobody,
         i \in Rows \/ Rows \cup { i } = 1 .. i,
         next.at \in { "idle", "note" }, next.at = "note" => row.status = "open",
         next.at = "note" => next.listed \ next.changed \subseteq Listed,
         next.listed \subseteq Rows, next.changed \subseteq Rows,
         next.seen.status \in { "none", "open" } => next.seen.claimed = Nobody
  PROVE  HandoffInv'
<1>1. handoff' \in [ Ids -> Row ] /\ handoff'[i] = row
      /\ \A j \in Ids \ { i } : handoff'[j] = handoff[j]
  BY DEF Write, HandoffInv, RowsSound
<1>2. Rows' = Rows \cup { i }
  BY <1>1 DEF Rows
<1>3. RowsSound'
  <2>1. \E n \in 0 .. MaxRows : Rows' = 1 .. n
    BY <1>2, NumberAssumption DEF HandoffInv, RowsSound, Ids
  <2>2. QED
    BY <1>1, <2>1 DEF HandoffInv, RowsSound
<1>4. ASSUME NEW g \in Handler PROVE th'[g] \in Request /\ Knows(th[g])'
  <2>1. CASE g = h
    <3>1. th'[g] = next
      BY <2>1 DEF Write
    <3>2. next.at = "note" => i \in Listed' /\ Listed \subseteq Listed'
      BY <1>1 DEF Listed
    <3>3. QED
      BY <1>2, <3>1, <3>2 DEF Knows
  <2>2. CASE g # h /\ th[g].at = "idle"
    <3>1. th'[g] = th[g]
      BY <2>2 DEF Write
    <3>2. QED
      BY <1>2, <2>2, <3>1 DEF Knows, HandoffInv
  <2>3. CASE g # h /\ row = handoff[i]
    <3>1. th'[g] = th[g] /\ handoff' = handoff
      BY <1>1, <2>3 DEF Write, HandoffInv, RowsSound
    <3>2. QED
      BY <1>2, <3>1 DEF Knows, HandoffInv, Rows, Listed
  <2>4. CASE g # h /\ th[g].at # "idle" /\ row # handoff[i]
    <3>1. th'[g] = [ th[g] EXCEPT !.changed = @ \cup { i } ] /\ th[g] \in Request
      BY <2>4 DEF Write, HandoffInv
    <3>2. th'[g] \in Request
      BY <3>1 DEF Request
    <3>3. /\ th'[g].at = th[g].at /\ th'[g].user = th[g].user /\ th'[g].act = th[g].act
          /\ th'[g].id = th[g].id /\ th'[g].seen = th[g].seen /\ th'[g].listed = th[g].listed
          /\ th'[g].changed = th[g].changed \cup { i }
      BY <3>1 DEF Request
    <3>4. Knows(th[g])
      BY DEF HandoffInv
    <3>5. th[g].id \in Rows => th[g].id \in Ids
      BY DEF Rows
    <3>6. Listed \ { i } \subseteq Listed'
      BY <1>1 DEF Listed
    <3>7. th'[g].listed \ th'[g].changed = (th[g].listed \ th[g].changed) \ { i }
      BY <3>3
    <3>8. QED
      BY <1>1, <1>2, <3>2, <3>3, <3>4, <3>5, <3>6, <3>7 DEF Knows
  <2>5. QED
    BY <2>1, <2>2, <2>3, <2>4
<1>5. th' \in [ Handler -> Request ]
  BY <1>4 DEF Write
<1>6. QED
  BY <1>3, <1>4, <1>5 DEF HandoffInv

LEMMA ReadStep ==
  ASSUME HandoffInv, NEW h \in Handler, NEW request, Reads(h, request),
         [ request EXCEPT !.listed = Listed, !.changed = {} ] \in Request,
         Knows([ request EXCEPT !.listed = Listed, !.changed = {} ])
  PROVE  HandoffInv'
BY LocalStep DEF Reads

-------------------------------------------------------------------------------
(* The steps.                                                              *)

\* The next row to be inserted.
LEMMA NextRow ==
  ASSUME HandoffInv, Cardinality(Rows) < MaxRows
  PROVE  /\ Cardinality(Rows) + 1 \in Ids \ Rows
         /\ Rows \cup { Cardinality(Rows) + 1 } = 1 .. (Cardinality(Rows) + 1)
<1>1. PICK n \in 0 .. MaxRows : Rows = 1 .. n
  BY DEF HandoffInv, RowsSound
<1>2. Cardinality(Rows) = n
  BY <1>1, FS_Interval, NumberAssumption
<1>3. QED
  BY <1>1, <1>2, NumberAssumption DEF Ids

LEMMA AskKeeps ==
  ASSUME HandoffInv, NEW h \in Handler, Ask(h) \/ Open(h) \/ Note(h)
  PROVE  HandoffInv'
<1>1. th[h] \in Request /\ Knows(th[h]) /\ Listed \subseteq Rows /\ Rows \subseteq Ids
  BY DEF HandoffInv, Listed, Rows
<1>2. CASE Ask(h)
  <2> DEFINE place == IF \E i \in Rows : handoff[i].status = "open" THEN "note" ELSE "open"
             request == [ Idle EXCEPT !.act = "ask", !.at = place ]
             asked == [ request EXCEPT !.listed = Listed, !.changed = {} ]
  <2>1. /\ asked.at = place /\ asked.listed = Listed /\ asked.changed = {}
        /\ asked.seen = NoRow /\ asked \in Request
    BY <1>1, IdleTyped DEF Idle, Request
  <2>2. place = "note" => Listed # {}
    BY <1>1 DEF Listed
  <2>3. Knows(asked)
    BY <1>1, <2>1, <2>2 DEF Knows, NoRow
  <2>4. QED
    BY <1>2, <2>1, <2>3, ReadStep DEF Ask
<1>3. CASE Open(h)
  <2> DEFINE i == Cardinality(Rows) + 1
             row == [ NoRow EXCEPT !.status = "open" ]
             next == [ th[h] EXCEPT !.at = "note" ]
  <2>1. i \in Ids /\ Rows \cup { i } = 1 .. i
    BY <1>3, NextRow DEF Open
  <2>2. row \in Row /\ row.status = "open" /\ row.claimed = Nobody
    BY DEF NoRow, Row
  <2>3. /\ next \in Request /\ next.at = "note" /\ next.listed = th[h].listed
        /\ next.changed = th[h].changed /\ next.seen = th[h].seen
    BY <1>1 DEF Request
  <2>4. Write(h, i, row, next)
    BY <1>3 DEF Open
  <2>5. next.listed \ next.changed \subseteq Listed
    BY <1>1, <1>3, <2>3 DEF Open, Knows
  <2> HIDE DEF i, row, next
  <2>6. QED
    BY <1>1, <2>1, <2>2, <2>3, <2>4, <2>5, WriteStep DEF Knows
<1>4. CASE Note(h)
  <2> DEFINE next == [ th[h] EXCEPT !.at = "accepted" ]
  <2>1. /\ next \in Request /\ next.at = "accepted" /\ next.listed = th[h].listed
        /\ next.changed = th[h].changed /\ next.seen = th[h].seen
    BY <1>1 DEF Request
  <2>2. Knows(next)
    BY <1>1, <2>1 DEF Knows
  <2>3. QED
    BY <1>1, <1>4, <2>1, <2>2, LocalStep DEF Note, HandoffInv
<1>5. QED
  BY <1>2, <1>3, <1>4

LEMMA PatchKeeps ==
  ASSUME HandoffInv, NEW h \in Handler, NEW u \in User, NEW i \in Ids,
         NEW act \in { "claim", "assign", "close" }, Patch(h, u, i, act)
  PROVE  HandoffInv'
<1> DEFINE request == [ Idle EXCEPT !.at = "patch", !.user = u, !.act = act, !.id = i,
                                    !.seen = handoff[i] ]
           patch == [ request EXCEPT !.listed = Listed, !.changed = {} ]
<1>1. i \in Rows /\ handoff[i] \in Row /\ handoff[i].status # "none" /\ Listed \subseteq Rows
      /\ Rows \subseteq Ids /\ (handoff[i].status = "open" => handoff[i].claimed = Nobody)
  BY DEF Patch, HandoffInv, RowsSound, Rows, Listed
<1>2. /\ patch \in Request /\ patch.at = "patch" /\ patch.id = i /\ patch.user = u
      /\ patch.act = act /\ patch.seen = handoff[i] /\ patch.listed = Listed
      /\ patch.changed = {}
  BY <1>1, IdleTyped DEF Idle, Request
<1>3. Reads(h, request)
  BY DEF Patch
<1> HIDE DEF request
<1>4. Knows(patch)
  <2> HIDE DEF patch
  <2>1. QED
    BY <1>1, <1>2 DEF Knows
<1>5. QED
  BY <1>2, <1>3, <1>4, ReadStep

LEMMA ReplyKeeps ==
  ASSUME HandoffInv, NEW h \in Handler, NEW u \in User, Reply(h, u)
  PROVE  HandoffInv'
<1>1. PICK i \in Listed :
        /\ CanReplyToHandoff(handoff[i], u)
        /\ Reads(h, [ Idle EXCEPT !.at = "say", !.user = u, !.act = "reply", !.id = i,
                                  !.seen = handoff[i] ])
  BY DEF Reply
<1> DEFINE request == [ Idle EXCEPT !.at = "say", !.user = u, !.act = "reply", !.id = i,
                                    !.seen = handoff[i] ]
           say == [ request EXCEPT !.listed = Listed, !.changed = {} ]
<1>2. /\ i \in Rows /\ i \in Ids /\ handoff[i] \in Row /\ Listed \subseteq Rows /\ Rows \subseteq Ids
      /\ handoff[i].status \in { "open", "assigned" } /\ handoff[i].claimed \in { Nobody, u }
      /\ handoff[i].status = "open" => handoff[i].claimed = Nobody
  BY <1>1 DEF HandoffInv, RowsSound, Rows, Listed, CanReplyToHandoff
<1>3. /\ say \in Request /\ say.at = "say" /\ say.id = i /\ say.user = u
      /\ say.act = "reply" /\ say.seen = handoff[i] /\ say.listed = Listed
      /\ say.changed = {}
  BY <1>2, IdleTyped DEF Idle, Request
<1>4. Reads(h, request)
  BY <1>1
<1> HIDE DEF request
<1>5. Knows(say)
  <2> HIDE DEF say
  <2>1. QED
    BY <1>1, <1>2, <1>3 DEF Knows
<1>6. QED
  BY <1>3, <1>4, <1>5, ReadStep

LEMMA UpdateKeeps ==
  ASSUME HandoffInv, NEW h \in Handler, Update(h)
  PROVE  HandoffInv'
<1> DEFINE i == th[h].id
           new == Resolved(th[h].seen, th[h].act, th[h].user)
<1>1. th[h] \in Request /\ Knows(th[h]) /\ th[h].at = "patch"
  BY DEF HandoffInv, Update
<1>2. CASE handoff[i].status = th[h].seen.status
  <2>1. i \in Ids /\ i \in Rows
    BY <1>1 DEF Knows, Rows
  <2>2. /\ new \in Row /\ new.status # "none" /\ new.status # "open"
    BY <1>1 DEF Knows, Resolved, Request, Row
  <2>3. Write(h, i, new, Idle)
    BY <1>2 DEF Update
  <2>4. Idle.at = "idle" /\ Idle.listed = {} /\ Idle.changed = {} /\ Idle.seen.claimed = Nobody
    BY DEF Idle, NoRow
  <2> HIDE DEF i, new
  <2>5. QED
    BY <2>1, <2>2, <2>3, <2>4, IdleTyped, WriteStep
<1>3. CASE handoff[i].status # th[h].seen.status
  BY <1>3, IdleTyped, IdleKnows, LocalStep DEF Update
<1>4. QED
  BY <1>2, <1>3

LEMMA AnswerKeeps ==
  ASSUME HandoffInv, NEW h \in Handler, Say(h) \/ Take(h)
  PROVE  HandoffInv'
<1>1. th[h] \in Request /\ Knows(th[h])
  BY DEF HandoffInv
<1>2. CASE Say(h)
  <2> DEFINE next == [ th[h] EXCEPT !.at = "take" ]
  <2>1. /\ next \in Request /\ next.at = "take" /\ next.id = th[h].id /\ next.user = th[h].user
        /\ next.act = th[h].act /\ next.seen = th[h].seen /\ next.listed = th[h].listed
        /\ next.changed = th[h].changed
    BY <1>1 DEF Request
  <2>2. Knows(next)
    <3> HIDE DEF next
    <3>1. QED
      BY <1>1, <1>2, <2>1 DEF Knows, Say
  <2>3. QED
    BY <1>2, <2>1, <2>2, LocalStep DEF Say
<1>3. CASE Take(h)
  <2> DEFINE i == th[h].id
             owner == IF th[h].seen.claimed = Nobody THEN th[h].user ELSE th[h].seen.claimed
             new == [ status |-> "assigned", claimed |-> owner ]
  <2>1. i \in Ids /\ i \in Rows
    BY <1>1, <1>3 DEF Take, Knows, Rows
  <2>2. new \in Row /\ new.status = "assigned"
    BY <1>1 DEF Request, Row
  <2>3. Write(h, i, new, Idle)
    BY <1>3 DEF Take
  <2>4. Idle.at = "idle" /\ Idle.listed = {} /\ Idle.changed = {} /\ Idle.seen.claimed = Nobody
    BY DEF Idle, NoRow
  <2> HIDE DEF i, new
  <2>5. QED
    BY <2>1, <2>2, <2>3, <2>4, IdleTyped, WriteStep
<1>4. QED
  BY <1>2, <1>3

LEMMA EndKeeps == ASSUME HandoffInv, NEW h \in Handler, End(h) PROVE HandoffInv'
BY IdleTyped, IdleKnows, LocalStep DEF End

LEMMA StepKeeps == HandoffInv /\ [Next]_vars => HandoffInv'
<1>1. ASSUME HandoffInv, UNCHANGED vars PROVE HandoffInv'
  BY <1>1 DEF vars, HandoffInv, RowsSound, Knows, Rows, Listed
<1>2. QED
  BY <1>1, AskKeeps, PatchKeeps, ReplyKeeps, UpdateKeeps, AnswerKeeps, EndKeeps DEF Next

LEMMA HandoffInvariant == Spec => []HandoffInv
BY InitHolds, StepKeeps, PTL DEF Spec

-------------------------------------------------------------------------------
(* The properties.                                                         *)

\* Types; and every request that will write has read a row that exists.
THEOREM TypeCorrect == Spec => []TypeOK
<1>1. HandoffInv => TypeOK
  BY DEF HandoffInv, RowsSound, Knows, Request, Row, TypeOK
<1>2. QED
  BY <1>1, HandoffInvariant, PTL

\* Which steps change a row, and how: an insertion, an update of a row whose
\* status is as it was read, a reply.
LEMMA WhoChanges ==
  ASSUME HandoffInv, [Next]_vars, NEW i \in Ids, handoff'[i] # handoff[i]
  PROVE  \/ handoff[i] = NoRow
         \/ \E h \in Handler :
              /\ Changes(h, i) /\ Update(h) /\ handoff[i].status = th[h].seen.status
              /\ handoff'[i] = Resolved(th[h].seen, th[h].act, th[h].user)
         \/ \E h \in Handler :
              /\ Changes(h, i) /\ Take(h)
              /\ handoff'[i].status = "assigned"
              /\ handoff'[i].claimed = IF th[h].seen.claimed = Nobody THEN th[h].user
                                       ELSE th[h].seen.claimed
<1>1. handoff \in [ Ids -> Row ] /\ th \in [ Handler -> Request ]
  BY DEF HandoffInv, RowsSound
<1>2. PICK h \in Handler : Open(h) \/ Update(h) \/ Take(h)
  BY DEF Next, vars, Ask, Note, Say, End, Reply, Patch, Reads
<1>3. ASSUME NEW j, NEW row, NEW next, Write(h, j, row, next)
      PROVE  j = i /\ handoff'[i] = row /\ th'[h] = next
  BY <1>1, <1>3 DEF Write
<1>4. CASE Open(h)
  <2>1. i = Cardinality(Rows) + 1 /\ i \notin Rows
    BY <1>3, <1>4, NextRow DEF Open
  <2>2. QED
    BY <1>1, <2>1 DEF Rows, HandoffInv, RowsSound, NoRow, Row
<1>5. CASE Update(h)
  <2>1. handoff[th[h].id].status = th[h].seen.status
        /\ Write(h, th[h].id, Resolved(th[h].seen, th[h].act, th[h].user), Idle)
    BY <1>5 DEF Update
  <2>2. th[h].id = i /\ handoff'[i] = Resolved(th[h].seen, th[h].act, th[h].user) /\ th'[h] = Idle
    BY <1>3, <2>1
  <2>3. Changes(h, i)
    BY <1>5, <2>2 DEF Changes, Update, Idle
  <2>4. QED
    BY <1>5, <2>1, <2>2, <2>3
<1>6. CASE Take(h)
  <2> DEFINE owner == IF th[h].seen.claimed = Nobody THEN th[h].user ELSE th[h].seen.claimed
             new == [ status |-> "assigned", claimed |-> owner ]
  <2>1. Write(h, th[h].id, new, Idle)
    BY <1>6 DEF Take
  <2>2. th[h].id = i /\ handoff'[i] = new /\ th'[h] = Idle
    BY <1>3, <2>1
  <2>3. Changes(h, i)
    BY <1>6, <2>2 DEF Changes, Take, Idle
  <2>4. QED
    BY <1>6, <2>2, <2>3
<1>7. QED
  BY <1>2, <1>4, <1>5, <1>6

\* A handoff that was closed is taken up again only by a user who has read that
\* it was closed, or by a reply that was under way when it was.
THEOREM ClosedHandoffsStay == Spec => CloseSticks
<1> DEFINE Kept ==
         \A i \in Ids : handoff[i].status = "resolved" /\ handoff'[i].status # "resolved" =>
            \E h \in Handler :
              /\ Changes(h, i)
              /\ \/ th[h].act \in { "claim", "assign" } /\ th[h].seen.status = "resolved"
                 \/ th[h].act = "reply" /\ i \in th[h].changed
<1>1. ASSUME HandoffInv, [Next]_vars, NEW i \in Ids, handoff[i].status = "resolved",
             handoff'[i].status # "resolved"
      PROVE  \E h \in Handler :
               /\ Changes(h, i)
               /\ \/ th[h].act \in { "claim", "assign" } /\ th[h].seen.status = "resolved"
                  \/ th[h].act = "reply" /\ i \in th[h].changed
  <2>1. CASE \E h \in Handler : /\ Changes(h, i) /\ Update(h)
                                /\ handoff[i].status = th[h].seen.status
                                /\ handoff'[i] = Resolved(th[h].seen, th[h].act, th[h].user)
    <3>1. PICK h \in Handler : /\ Changes(h, i) /\ Update(h)
                               /\ handoff[i].status = th[h].seen.status
                               /\ handoff'[i] = Resolved(th[h].seen, th[h].act, th[h].user)
      BY <2>1
    <3>2. th[h].act \in { "claim", "assign", "close" } /\ th[h].seen \in Row
      BY <1>1, <3>1 DEF HandoffInv, Knows, Update, Request
    <3>3. th[h].act # "close"
      BY <1>1, <3>1, <3>2 DEF Resolved, Row
    <3>4. QED
      BY <1>1, <3>1, <3>2, <3>3
  <2>2. CASE \E h \in Handler : Changes(h, i) /\ Take(h)
    <3>1. PICK h \in Handler : Changes(h, i) /\ Take(h)
      BY <2>2
    <3>2. Knows(th[h]) /\ th[h].id = i
      BY <1>1, <3>1 DEF HandoffInv, Changes
    <3>3. QED
      BY <1>1, <3>1, <3>2 DEF Take, Knows
  <2>3. handoff'[i] # handoff[i] /\ handoff[i] # NoRow
    BY <1>1 DEF NoRow
  <2>4. QED
    BY <1>1, <2>1, <2>2, <2>3, WhoChanges
<1>2. HandoffInv /\ [Next]_vars => [ Kept ]_vars
  BY <1>1
<1>3. QED
  BY <1>2, HandoffInvariant, PTL DEF Spec, CloseSticks

\* Nobody loses a claim but to a user who claims or assigns the handoff having
\* read that it was assigned or closed, or to a reply or a close that had read the
\* row before the claim: of two who find it open the first one keeps it.
THEOREM ClaimsStay == Spec => ClaimSticks
<1> DEFINE Kept ==
         \A i \in Ids : handoff[i].claimed # Nobody /\ handoff'[i].claimed # handoff[i].claimed =>
            \E h \in Handler :
              /\ Changes(h, i)
              /\ \/ th[h].act \in { "claim", "assign" } /\ th[h].seen.status # "open"
                 \/ th[h].act \in { "reply", "close" } /\ i \in th[h].changed
<1>1. ASSUME HandoffInv, [Next]_vars, NEW i \in Ids, handoff[i].claimed # Nobody,
             handoff'[i].claimed # handoff[i].claimed
      PROVE  \E h \in Handler :
               /\ Changes(h, i)
               /\ \/ th[h].act \in { "claim", "assign" } /\ th[h].seen.status # "open"
                  \/ th[h].act \in { "reply", "close" } /\ i \in th[h].changed
  <2>1. CASE \E h \in Handler : /\ Changes(h, i) /\ Update(h)
                                /\ handoff[i].status = th[h].seen.status
                                /\ handoff'[i] = Resolved(th[h].seen, th[h].act, th[h].user)
    <3>1. PICK h \in Handler : /\ Changes(h, i) /\ Update(h)
                               /\ handoff[i].status = th[h].seen.status
                               /\ handoff'[i] = Resolved(th[h].seen, th[h].act, th[h].user)
      BY <2>1
    <3>2. /\ th[h].act \in { "claim", "assign", "close" } /\ th[h].seen \in Row
          /\ i \notin th[h].changed => handoff[i] = th[h].seen
      BY <1>1, <3>1 DEF HandoffInv, Knows, Update, Request, Changes
    <3>3. th[h].act = "close" => handoff'[i].claimed = th[h].seen.claimed
      BY <3>1, <3>2 DEF Resolved, Row
    <3>4. th[h].seen.status # "open"
      BY <1>1, <3>1 DEF HandoffInv, RowsSound
    <3>5. QED
      BY <1>1, <3>1, <3>2, <3>3, <3>4
  <2>2. CASE \E h \in Handler : /\ Changes(h, i) /\ Take(h)
                                /\ handoff'[i].claimed = IF th[h].seen.claimed = Nobody
                                      THEN th[h].user ELSE th[h].seen.claimed
    <3>1. PICK h \in Handler : /\ Changes(h, i) /\ Take(h)
                               /\ handoff'[i].claimed = IF th[h].seen.claimed = Nobody
                                     THEN th[h].user ELSE th[h].seen.claimed
      BY <2>2
    <3>2. Knows(th[h]) /\ th[h].id = i
      BY <1>1, <3>1 DEF HandoffInv, Changes
    <3>3. QED
      BY <1>1, <3>1, <3>2 DEF Take, Knows
  <2>3. handoff'[i] # handoff[i] /\ handoff[i] # NoRow
    BY <1>1 DEF NoRow
  <2>4. QED
    BY <1>1, <2>1, <2>2, <2>3, WhoChanges
<1>2. HandoffInv /\ [Next]_vars => [ Kept ]_vars
  BY <1>1
<1>3. QED
  BY <1>2, HandoffInvariant, PTL DEF Spec, ClaimSticks

\* Which request it is that goes on without writing.
LEMMA WhoGoesOn ==
  ASSUME HandoffInv, [Next]_vars, NEW h \in Handler, th[h].at \in { "note", "say" },
         th'[h].at \in { "accepted", "take" }
  PROVE  Knows(th[h]) /\ UNCHANGED handoff
<1>1. th \in [ Handler -> Request ] /\ Knows(th[h])
  BY DEF HandoffInv
<1>2. ASSUME NEW g \in Handler, NEW i, NEW row, NEW next, Write(g, i, row, next),
             next.at \notin { "accepted", "take" }
      PROVE  FALSE
  <2>1. th'[h].at \in { next.at, th[h].at }
    BY <1>1, <1>2 DEF Write, Request
  <2>2. QED
    BY <1>2, <2>1
<1>3. ASSUME NEW g \in Handler, Open(g) PROVE FALSE
  <2>1. [ th[g] EXCEPT !.at = "note" ].at = "note"
    BY <1>1 DEF Request
  <2>2. QED
    BY <1>2, <1>3, <2>1 DEF Open
<1>4. ASSUME NEW g \in Handler, Update(g), ~UNCHANGED handoff PROVE FALSE
  BY <1>2, <1>4 DEF Update, Idle
<1>5. ASSUME NEW g \in Handler, Take(g) PROVE FALSE
  BY <1>2, <1>5 DEF Take, Idle
<1>6. QED
  BY <1>1, <1>3, <1>4, <1>5 DEF Next, vars, Ask, Note, Say, End, Reply, Patch, Reads

\* When a customer's message is accepted the conversation is in the list of the
\* support users, unless every handoff listed when the request looked, and the
\* one it opened, has been closed in between.
THEOREM AskedIsListed == Spec => AskIsListed
<1> DEFINE Kept ==
         \A h \in Handler : th[h].at = "note" /\ th'[h].at = "accepted" =>
            \/ Listed # {}
            \/ th[h].changed # {} /\ th[h].listed \subseteq th[h].changed
<1>1. ASSUME HandoffInv, [Next]_vars, NEW h \in Handler, th[h].at = "note",
             th'[h].at = "accepted"
      PROVE  \/ Listed # {}
             \/ th[h].changed # {} /\ th[h].listed \subseteq th[h].changed
  BY <1>1, WhoGoesOn DEF Knows
<1>2. HandoffInv /\ [Next]_vars => [ Kept ]_vars
  BY <1>1
<1>3. QED
  BY <1>2, HandoffInvariant, PTL DEF Spec, AskIsListed

\* Once a user has claimed the conversation nobody else answers its customer,
\* but for a reply that had read the row before the claim, and for one that
\* went by a second unresolved handoff.
THEOREM OwnerRepliesAlone == Spec => SoleOwnerReplies
<1> DEFINE Kept ==
         \A h \in Handler : th[h].at = "say" /\ th'[h].at = "take" =>
            \A i \in Listed :
              \/ handoff[i].claimed \in { Nobody, th[h].user }
              \/ i \in th[h].changed
              \/ \E j \in th[h].listed \ { i } : j = th[h].id
<1>1. ASSUME HandoffInv, [Next]_vars, NEW h \in Handler, th[h].at = "say",
             th'[h].at = "take", NEW i \in Listed
      PROVE  \/ handoff[i].claimed \in { Nobody, th[h].user }
             \/ i \in th[h].changed
             \/ \E j \in th[h].listed \ { i } : j = th[h].id
  BY <1>1, WhoGoesOn DEF Knows
<1>2. HandoffInv /\ [Next]_vars => [ Kept ]_vars
  BY <1>1
<1>3. QED
  BY <1>2, HandoffInvariant, PTL DEF Spec, SoleOwnerReplies
===============================================================================
