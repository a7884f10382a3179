-------------------------- MODULE ConversationProofs --------------------------
(***************************************************************************)
(* Proofs about Conversation, for any number of messages, deliveries,      *)
(* handlers, SOPs, rounds and faults: when a message is processed twice,   *)
(* when an SOP is triggered twice, and that no message is passed over.     *)
(***************************************************************************)
EXTENDS Conversation, SequenceTheorems, TLAPS

Turn == [ at : Webhook \cup Engine \cup { "idle" }, msg : Message \cup { None }, nr : Nat,
          round : Nat, called : BOOLEAN, done : SUBSET Sop, sop : Sop \cup { None },
          saw : SUBSET Nat, text : Text ]
Rx == [ at : { "idle", "read", "reply", "error" }, msg : Message \cup { None },
        content : SUBSET Text, err : BOOLEAN, ended : BOOLEAN ]
Exec == [ sop : Sop, msg : Message, nr : Nat, exact : BOOLEAN, saw : SUBSET Nat ]

\* A turn u and its consumer r: while the engine works the consumer listens, or
\* the message is excused; what the engine has said the consumer has read; and
\* a stream that ended without a word or an error belongs to an excused message.
Sound(u, r) ==
  /\ u \in Turn /\ r \in Rx
  /\ u.round < MaxRounds
  /\ u.at # "idle" => u.msg \in Message
  /\ u.at = "trigger" => u.sop \in Sop
  /\ u.at \in Webhook => r.at = "idle"
  /\ r.at # "idle" => r.msg \in Message
  /\ r.at = "read" /\ ~r.ended => r.msg = u.msg
  /\ r.at = "reply" => r.content # {}

Heard(u, r, ex) ==
  /\ u.at \in Engine => (r.at = "read" /\ r.msg = u.msg /\ ~r.ended) \/ u.msg \in ex
  /\ u.at \in { "check", "save" } => u.text \in r.content \/ u.msg \in ex
  /\ r.at = "read" /\ r.ended /\ ~r.err /\ r.content = {} => r.msg \in ex

\* Where the conversation has been found or opened.
Seated == Engine \cup { "enter" }

Handlers ==
  /\ turn \in [ Handler -> Turn ] /\ rx \in [ Handler -> Rx ]
  /\ \A h \in Handler : Sound(turn[h], rx[h]) /\ Heard(turn[h], rx[h], excused)
  /\ \A h \in Handler : turn[h].at \in Seated => sessions > 0

Stores ==
  /\ redis \in BOOLEAN /\ marked \subseteq Message /\ memory \subseteq Message
  /\ lapsed \subseteq Message /\ excused \subseteq Message
  /\ delivered \in [ Message -> Nat ] /\ started \in [ Message -> Nat ]
  /\ saved \in [ Message -> SUBSET Text ] /\ sent \in [ Message -> SUBSET (Text \cup { "error" }) ]
  /\ sessions \in Nat /\ execs \in Seq(Exec) /\ aged \in 0 .. Len(execs)
  /\ faults \in 0 .. MaxFaults

Types == Handlers /\ Stores

LEMMA IdlePair ==
  Sound(IdleTurn, IdleRx) /\ \A ex : Heard(IdleTurn, IdleRx, ex)
<1>1. IdleTurn \in Turn
  BY DEF IdleTurn, Turn, Text
<1>2. IdleRx \in Rx
  BY DEF IdleRx, Rx
<1>3. /\ IdleTurn.at = "idle" /\ IdleTurn.round = 0 /\ IdleTurn.msg = None
      /\ IdleRx.at = "idle"
  BY DEF IdleTurn, IdleRx
<1>4. 0 < MaxRounds
  BY NumberAssumption
<1>5. Sound(IdleTurn, IdleRx)
  BY <1>1, <1>2, <1>3, <1>4 DEF Sound, Webhook
<1>6. \A ex : Heard(IdleTurn, IdleRx, ex)
  BY <1>3 DEF Heard, Engine
<1>7. QED
  BY <1>5, <1>6

LEMMA FaultCounts == ASSUME Stores, Fault PROVE faults' \in 0 .. MaxFaults
BY NumberAssumption DEF Stores, Fault

\* What a step may rely on.
LEMMA HandlerFacts ==
  ASSUME Types, NEW h \in Handler
  PROVE  /\ Sound(turn[h], rx[h]) /\ Heard(turn[h], rx[h], excused)
         /\ turn[h] \in Turn /\ rx[h] \in Rx
         /\ turn \in [ Handler -> Turn ] /\ rx \in [ Handler -> Rx ]
         /\ turn[h].at \in Seated => sessions > 0
BY DEF Types, Handlers, Sound

LEMMA HeardMore ==
  ASSUME NEW u, NEW r, NEW ex, NEW more, ex \subseteq more, Heard(u, r, ex)
  PROVE  Heard(u, r, more)
BY DEF Heard

\* One handler goes on with turn u and consumer r.
LEMMA HandlerStep ==
  ASSUME Types, NEW h \in Handler, NEW u, NEW r, Sound(u, r), Heard(u, r, excused'),
         turn' = [ turn EXCEPT ![h] = u ], rx' = [ rx EXCEPT ![h] = r ],
         excused \subseteq excused', u.at \in Seated => sessions' > 0,
         sessions > 0 => sessions' > 0
  PROVE  Handlers'
<1>1. turn \in [ Handler -> Turn ] /\ rx \in [ Handler -> Rx ] /\ u \in Turn /\ r \in Rx
  BY HandlerFacts DEF Sound
<1>2. turn' \in [ Handler -> Turn ] /\ rx' \in [ Handler -> Rx ]
  BY <1>1
<1>3. ASSUME NEW g \in Handler
      PROVE  /\ Sound(turn'[g], rx'[g]) /\ Heard(turn'[g], rx'[g], excused')
             /\ turn'[g].at \in Seated => sessions' > 0
  <2>1. CASE g = h
    BY <1>1, <2>1
  <2>2. CASE g # h
    <3>1. turn'[g] = turn[g] /\ rx'[g] = rx[g]
      BY <1>1, <2>2
    <3>2. /\ Sound(turn[g], rx[g]) /\ Heard(turn[g], rx[g], excused)
          /\ turn[g].at \in Seated => sessions > 0
      BY HandlerFacts
    <3>3. Heard(turn[g], rx[g], excused')
      BY <3>2, HeardMore
    <3>4. turn'[g].at \in Seated => sessions' > 0
      BY <3>1, <3>2
    <3>5. Sound(turn'[g], rx'[g]) /\ Heard(turn'[g], rx'[g], excused')
      BY <3>1, <3>2, <3>3
    <3>6. QED
      BY <3>4, <3>5
  <2>3. QED
    BY <2>1, <2>2
<1>4. QED
  BY <1>2, <1>3 DEF Handlers

\* The engine works on, having said nothing new.
LEMMA TurnMoves ==
  ASSUME Types, NEW h \in Handler, turn[h].at \in Engine,
         NEW u \in Turn, u.msg = turn[h].msg, u.at \in Engine \ { "check", "save" },
         u.round < MaxRounds, u.at = "trigger" => u.sop \in Sop,
         turn' = [ turn EXCEPT ![h] = u ], UNCHANGED << rx, excused, sessions >>
  PROVE  Handlers'
<1>1. /\ Sound(turn[h], rx[h]) /\ Heard(turn[h], rx[h], excused) /\ sessions > 0
      /\ rx \in [ Handler -> Rx ]
  BY HandlerFacts DEF Seated
<1>2. u.at # "idle" /\ u.at \notin Webhook /\ turn[h].at # "idle"
  BY DEF Engine, Webhook
<1>3. Sound(u, rx[h])
  BY <1>1, <1>2 DEF Sound
<1>4. Heard(u, rx[h], excused')
  BY <1>1 DEF Heard
<1>5. rx' = [ rx EXCEPT ![h] = rx[h] ]
  BY <1>1
<1>6. QED
  BY <1>1, <1>3, <1>4, <1>5, HandlerStep

\* The turn is over: the consumer, if it still listens, is told.
LEMMA TurnEnds ==
  ASSUME Types, NEW h \in Handler, turn[h].at \in Engine, NEW r \in Rx,
         r.at = rx[h].at, r.msg = rx[h].msg, r.ended, r.content = rx[h].content,
         r.err \/ r.content # {} \/ turn[h].msg \in excused',
         turn' = [ turn EXCEPT ![h] = IdleTurn ],
         rx' = IF Reading(h) THEN [ rx EXCEPT ![h] = r ] ELSE rx,
         excused \subseteq excused', UNCHANGED sessions
  PROVE  Handlers'
<1>1. /\ Sound(turn[h], rx[h]) /\ Heard(turn[h], rx[h], excused)
      /\ rx \in [ Handler -> Rx ]
  BY HandlerFacts
<1>2. /\ IdleTurn \in Turn /\ IdleTurn.round < MaxRounds /\ IdleTurn.at = "idle"
      /\ IdleTurn.at \notin Seated /\ IdleTurn.at \notin Webhook
  BY IdlePair DEF Sound, IdleTurn, Engine, Webhook, Seated
<1>3. CASE Reading(h)
  <2>1. Sound(IdleTurn, r)
    BY <1>1, <1>2 DEF Sound
  <2>2. Heard(IdleTurn, r, excused')
    BY <1>2, <1>3 DEF Heard, Reading, Engine, Seated
  <2>3. QED
    BY <1>2, <1>3, <2>1, <2>2, HandlerStep
<1>4. CASE ~Reading(h)
  <2>1. rx' = [ rx EXCEPT ![h] = rx[h] ]
    BY <1>1, <1>4
  <2>2. ~(rx[h].at = "read" /\ ~rx[h].ended)
    BY <1>1, <1>4 DEF Sound, Reading
  <2>3. Sound(IdleTurn, rx[h])
    BY <1>1, <1>2, <2>2 DEF Sound
  <2>4. Heard(IdleTurn, rx[h], excused')
    BY <1>1, <1>2 DEF Heard, Engine
  <2>5. QED
    BY <1>2, <2>1, <2>3, <2>4, HandlerStep
<1>5. QED
  BY <1>3, <1>4

\* The consumer stops reading, or is done.
LEMMA ConsumerMoves ==
  ASSUME Types, NEW h \in Handler, rx[h].at # "idle", NEW r \in Rx, r.at # "read",
         r.at # "idle" => r.msg \in Message, r.at = "reply" => r.content # {},
         rx[h].at = "read" /\ ~rx[h].ended => rx[h].msg \in excused',
         rx' = [ rx EXCEPT ![h] = r ], UNCHANGED << turn, sessions >>, excused \subseteq excused'
  PROVE  Handlers'
<1>1. /\ Sound(turn[h], rx[h]) /\ Heard(turn[h], rx[h], excused)
      /\ turn \in [ Handler -> Turn ]
  BY HandlerFacts
<1>2. turn[h].at \notin Webhook
  BY <1>1 DEF Sound
<1>3. Sound(turn[h], r)
  BY <1>1, <1>2 DEF Sound
<1>4. turn[h].at \in Engine => turn[h].msg \in excused'
  BY <1>1 DEF Heard
<1>5. Heard(turn[h], r, excused')
  BY <1>4 DEF Heard, Engine
<1>6. turn' = [ turn EXCEPT ![h] = turn[h] ]
  BY <1>1
<1>7. turn[h].at \in Seated => sessions' > 0
  BY HandlerFacts
<1>8. QED
  BY <1>3, <1>5, <1>6, <1>7, HandlerStep

-------------------------------------------------------------------------------
(* Types, action by action.                                                *)

LEMMA DeliverTypes ==
  ASSUME Types, NEW h \in Handler, NEW m \in Message, Deliver(h, m) PROVE Types'
<1> DEFINE u == [ turn[h] EXCEPT !.at = "session", !.msg = m ]
<1>1. /\ Sound(turn[h], rx[h]) /\ Heard(turn[h], rx[h], excused) /\ turn[h] \in Turn
      /\ turn \in [ Handler -> Turn ] /\ rx \in [ Handler -> Rx ]
      /\ rx[h].at = "idle"
  BY HandlerFacts DEF Deliver, Free
<1>2. Accept(h, m) \/ Drop
  BY DEF Deliver, SetIfAbsent, Remember
<1>3. UNCHANGED << started, sessions, rx, sops, replies, redis >>
  BY <1>2 DEF Deliver, Accept, Drop
<1>4. Handlers'
  <2>1. CASE Accept(h, m)
    <3>1. u \in Turn /\ u.at = "session" /\ u.msg = m /\ u.round = turn[h].round
      BY <1>1 DEF Turn, Webhook
    <3>2. turn' = [ turn EXCEPT ![h] = u ] /\ rx' = [ rx EXCEPT ![h] = rx[h] ]
      BY <1>1, <1>3, <2>1 DEF Accept
    <3> HIDE DEF u
    <3>3. Sound(u, rx[h])
      BY <1>1, <3>1 DEF Sound
    <3>4. Heard(u, rx[h], excused') /\ u.at \notin Seated
      BY <1>1, <1>3, <3>1 DEF Heard, Engine, Seated
    <3>5. QED
      BY <1>3, <3>2, <3>3, <3>4, HandlerStep DEF replies
  <2>2. CASE Drop
    BY <2>2 DEF Drop, Types, Handlers, replies
  <2>3. QED
    BY <1>2, <2>1, <2>2
<1>5. marked' \subseteq Message /\ memory' \subseteq Message /\ lapsed' \subseteq Message
  BY DEF Deliver, SetIfAbsent, Remember, Types, Stores
<1>6. delivered' \in [ Message -> Nat ]
  BY DEF Deliver, Types, Stores
<1>7. faults' \in 0 .. MaxFaults
  BY FaultCounts DEF Deliver, Types, Stores
<1>8. QED
  BY <1>3, <1>4, <1>5, <1>6, <1>7 DEF Types, Stores, sops, replies

LEMMA FindTypes ==
  ASSUME Types, NEW h \in Handler, FindSession(h) \/ OpenSession(h) PROVE Types'
<1> DEFINE place == IF turn[h].at = "session" /\ sessions <= 0 THEN "open" ELSE "enter"
           u == [ turn[h] EXCEPT !.at = place ]
<1>1. /\ Sound(turn[h], rx[h]) /\ Heard(turn[h], rx[h], excused) /\ turn[h] \in Turn
      /\ turn \in [ Handler -> Turn ] /\ rx \in [ Handler -> Rx ]
      /\ turn[h].at \in { "session", "open" } /\ sessions \in Nat
  BY HandlerFacts DEF FindSession, OpenSession, Types, Stores
<1>2. turn' = [ turn EXCEPT ![h] = u ]
  <2>1. CASE FindSession(h)
    <3>1. sessions <= 0 <=> ~(sessions > 0)
      BY <1>1
    <3>2. place = IF sessions > 0 THEN "enter" ELSE "open"
      BY <2>1, <3>1 DEF FindSession
    <3>3. turn' = [ turn EXCEPT ![h].at = place ]
      BY <2>1, <3>2 DEF FindSession, To
    <3> HIDE DEF place
    <3>4. QED
      BY <1>1, <3>3
  <2>2. CASE OpenSession(h)
    <3>1. place = "enter"
      BY <2>2 DEF OpenSession
    <3>2. turn' = [ turn EXCEPT ![h].at = place ]
      BY <2>2, <3>1 DEF OpenSession, To
    <3> HIDE DEF place
    <3>3. QED
      BY <1>1, <3>2
  <2>3. QED
    BY <1>1, <2>1, <2>2
<1>3. /\ UNCHANGED << rx, dedup, started, sops, replies, faults >> /\ sessions' \in Nat
      /\ sessions > 0 => sessions' > 0
      /\ place = "enter" => sessions' > 0
  <2>1. CASE FindSession(h)
    <3>1. UNCHANGED << rx, dedup, started, sops, replies, faults, sessions >>
          /\ turn[h].at = "session"
      BY <2>1 DEF FindSession
    <3>2. place = "enter" => sessions > 0
      BY <1>1, <3>1
    <3>3. QED
      BY <1>1, <3>1, <3>2
  <2>2. CASE OpenSession(h)
    <3>1. UNCHANGED << rx, dedup, started, sops, replies, faults >> /\ sessions' = sessions + 1
      BY <2>2 DEF OpenSession
    <3>2. QED
      BY <1>1, <3>1
  <2>3. QED
    BY <2>1, <2>2
<1>4. place \in { "open", "enter" }
  OBVIOUS
<1> HIDE DEF place
<1>5. u \in Turn /\ u.at \in { "open", "enter" } /\ u.msg = turn[h].msg /\ u.round = turn[h].round
  BY <1>1, <1>4 DEF Turn, Webhook
<1>6. u.at \in Seated => sessions' > 0
  BY <1>3, <1>5 DEF Seated, Engine
<1> HIDE DEF u
<1>7. Sound(u, rx[h])
  BY <1>1, <1>5 DEF Sound, Webhook
<1>8. Heard(u, rx[h], excused')
  BY <1>1, <1>3, <1>5 DEF Heard, Engine, replies
<1>9. rx' = [ rx EXCEPT ![h] = rx[h] ] /\ excused' = excused
  BY <1>1, <1>3 DEF replies
<1>10. Handlers'
  BY <1>2, <1>3, <1>6, <1>7, <1>8, <1>9, HandlerStep
<1>11. QED
  BY <1>3, <1>10 DEF Types, Stores, dedup, sops, replies

LEMMA WebhookFailsTypes ==
  ASSUME Types, NEW h \in Handler, WebhookFails(h) PROVE Types'
<1>1. /\ Sound(turn[h], rx[h]) /\ Heard(turn[h], rx[h], excused) /\ rx \in [ Handler -> Rx ]
      /\ turn[h].msg \in Message /\ rx[h].at = "idle" /\ rx[h] \in Rx
  BY HandlerFacts DEF WebhookFails, Sound, Webhook
<1>2. /\ IdleTurn \in Turn /\ IdleTurn.round < MaxRounds /\ IdleTurn.at = "idle"
  BY IdlePair DEF Sound, IdleTurn
<1>3. Sound(IdleTurn, rx[h]) /\ Heard(IdleTurn, rx[h], excused') /\ IdleTurn.at \notin Seated
  BY <1>1, <1>2 DEF Sound, Heard, Engine, Seated
<1>4. excused' = excused \cup { turn[h].msg } /\ turn' = [ turn EXCEPT ![h] = IdleTurn ]
      /\ rx' = [ rx EXCEPT ![h] = rx[h] ] /\ UNCHANGED sessions
  BY <1>1 DEF WebhookFails, Excuse
<1>5. Handlers'
  BY <1>3, <1>4, HandlerStep
<1>6. faults' \in 0 .. MaxFaults
  BY FaultCounts DEF WebhookFails, Types
<1>7. QED
  BY <1>1, <1>4, <1>5, <1>6 DEF WebhookFails, Types, Stores, dedup, sops

LEMMA EnterTypes ==
  ASSUME Types, NEW h \in Handler, Enter(h) PROVE Types'
<1> DEFINE m == turn[h].msg
           n == started[m] + 1
           u == [ turn[h] EXCEPT !.at = "llm", !.nr = n ]
           r == [ IdleRx EXCEPT !.at = "read", !.msg = m ]
           e == [ IdleRx EXCEPT !.at = "error", !.msg = m ]
           Goes == turn' = [ turn EXCEPT ![h] = u ] /\ rx' = [ rx EXCEPT ![h] = r ]
           Fails == turn' = [ turn EXCEPT ![h] = IdleTurn ] /\ rx' = [ rx EXCEPT ![h] = e ]
<1>1. /\ Sound(turn[h], rx[h]) /\ Heard(turn[h], rx[h], excused) /\ rx \in [ Handler -> Rx ]
      /\ turn \in [ Handler -> Turn ] /\ turn[h] \in Turn /\ m \in Message
  BY HandlerFacts DEF Enter, Sound
<1>2. n \in Nat
  BY <1>1 DEF Types, Stores
<1>3. started' \in [ Message -> Nat ] /\ UNCHANGED << dedup, sessions, sops, replies >>
  BY <1>1 DEF Enter, Types, Stores
<1>4. faults' \in 0 .. MaxFaults
  BY FaultCounts DEF Enter, Types, Stores
<1>5. sessions > 0 /\ sessions' = sessions /\ excused' = excused
  BY <1>3, HandlerFacts DEF Enter, Seated, replies
<1>6. Goes \/ Fails
  BY <1>1 DEF Enter
<1>7. u \in Turn /\ u.at = "llm" /\ u.msg = m /\ u.round = turn[h].round
  <2> HIDE DEF n
  <2>1. QED
    BY <1>1, <1>2 DEF Turn, Engine
<1>8. /\ r \in Rx /\ r.at = "read" /\ r.msg = m /\ r.ended = FALSE
      /\ e \in Rx /\ e.at = "error" /\ e.msg = m
  BY <1>1 DEF IdleRx, Rx
<1>9. /\ IdleTurn \in Turn /\ IdleTurn.at = "idle" /\ IdleTurn.round < MaxRounds
      /\ IdleTurn.at \notin Seated
  BY IdlePair DEF Sound, IdleTurn, Seated, Engine
<1> HIDE DEF n, u, r, e, m
<1>10. Sound(u, r) /\ Heard(u, r, excused')
  BY <1>1, <1>7, <1>8 DEF Sound, Heard, Webhook
<1>11. Sound(IdleTurn, e) /\ Heard(IdleTurn, e, excused')
  BY <1>1, <1>8, <1>9 DEF Sound, Heard, Webhook, Engine
<1>12. Handlers'
  <2>1. CASE Goes
    BY <1>5, <1>10, <2>1, HandlerStep
  <2>2. CASE Fails
    BY <1>5, <1>9, <1>11, <2>2, HandlerStep
  <2>3. QED
    BY <1>6, <2>1, <2>2
<1>13. QED
  BY <1>3, <1>4, <1>12 DEF Types, Stores, dedup, sops, replies

LEMMA AnswerTypes ==
  ASSUME Types, NEW h \in Handler, NEW text \in Text, Answer(h, text) PROVE Types'
<1> DEFINE place == IF text = "bogus" THEN "check" ELSE "save"
           u == [ turn[h] EXCEPT !.at = place, !.text = text ]
           said == rx[h].content \cup { text }
           r == [ rx[h] EXCEPT !.content = said ]
<1>1. /\ Sound(turn[h], rx[h]) /\ Heard(turn[h], rx[h], excused) /\ rx \in [ Handler -> Rx ]
      /\ turn \in [ Handler -> Turn ] /\ turn[h] \in Turn /\ rx[h] \in Rx /\ sessions > 0
  BY HandlerFacts DEF Answer, Engine, Seated
<1>2. /\ UNCHANGED << dedup, started, sessions, sops, replies, faults >> /\ turn[h].at = "llm"
      /\ turn' = [ turn EXCEPT ![h] = u ]
      /\ rx' = IF Reading(h) THEN [ rx EXCEPT ![h] = r ] ELSE rx
  BY <1>1 DEF Answer
<1>3. u \in Turn /\ u.at \in { "check", "save" } /\ u.msg = turn[h].msg /\ u.round = turn[h].round
      /\ u.text = text
  BY <1>1 DEF Turn, Engine
<1>4. /\ r \in Rx /\ r.at = rx[h].at /\ r.msg = rx[h].msg /\ r.content = said
      /\ r.err = rx[h].err /\ r.ended = rx[h].ended /\ text \in said
  BY <1>1 DEF Rx
<1>5. excused' = excused /\ sessions' = sessions
  BY <1>2 DEF replies
<1> HIDE DEF u, r, said, place
<1>6. Handlers'
  <2>1. CASE Reading(h)
    <3>1. Sound(u, r)
      BY <1>1, <1>2, <1>3, <1>4 DEF Sound, Webhook
    <3>2. Heard(u, r, excused')
      BY <1>1, <1>2, <1>3, <1>4, <1>5 DEF Heard, Engine
    <3>3. rx' = [ rx EXCEPT ![h] = r ]
      BY <1>2, <2>1
    <3>4. QED
      BY <1>1, <1>2, <1>5, <3>1, <3>2, <3>3, HandlerStep
  <2>2. CASE ~Reading(h)
    <3>1. turn[h].msg \in excused
      BY <1>1, <1>2, <2>2 DEF Heard, Reading, Engine
    <3>2. Sound(u, rx[h])
      BY <1>1, <1>2, <1>3 DEF Sound, Webhook
    <3>3. Heard(u, rx[h], excused')
      BY <1>1, <1>2, <1>3, <1>5, <3>1 DEF Heard
    <3>4. rx' = [ rx EXCEPT ![h] = rx[h] ]
      BY <1>1, <1>2, <2>2
    <3>5. QED
      BY <1>1, <1>2, <1>5, <3>2, <3>3, <3>4, HandlerStep
  <2>3. QED
    BY <2>1, <2>2
<1>7. QED
  BY <1>2, <1>6 DEF Types, Stores, dedup, sops, replies

\* The engine's turn of h is over, for any of its reasons.
LEMMA EndTypes ==
  ASSUME Types, NEW h \in Handler, AnswerNothing(h) \/ Save(h) \/ CloseWithError(h)
  PROVE  Types'
<1> DEFINE r == [ rx[h] EXCEPT !.ended = TRUE ]
           e == [ rx[h] EXCEPT !.err = TRUE, !.ended = TRUE ]
<1>1. /\ Sound(turn[h], rx[h]) /\ Heard(turn[h], rx[h], excused) /\ rx \in [ Handler -> Rx ]
      /\ rx[h] \in Rx /\ turn[h].at \in Engine /\ turn[h].msg \in Message /\ turn[h] \in Turn
  BY HandlerFacts DEF AnswerNothing, Save, CloseWithError, Engine, Sound
<1>2. r \in Rx /\ r.at = rx[h].at /\ r.msg = rx[h].msg /\ r.ended /\ r.content = rx[h].content
  BY <1>1 DEF Rx
<1>3. e \in Rx /\ e.at = rx[h].at /\ e.msg = rx[h].msg /\ e.ended /\ e.content = rx[h].content
      /\ e.err
  BY <1>1 DEF Rx
<1>4. /\ UNCHANGED << dedup, started, sessions, sops, sent, faults >>
      /\ turn' = [ turn EXCEPT ![h] = IdleTurn ]
  BY DEF AnswerNothing, Save, CloseWithError, replies
<1>5. excused' \subseteq Message /\ saved' \in [ Message -> SUBSET Text ] /\ excused \subseteq excused'
  <2>1. /\ excused \subseteq Message /\ saved \in [ Message -> SUBSET Text ]
        /\ turn[h].text \in Text
    BY <1>1 DEF Types, Stores, Turn
  <2>2. excused' \in { excused, excused \cup { turn[h].msg } }
    BY DEF AnswerNothing, Save, CloseWithError, Excuse, replies
  <2>3. saved' = saved
        \/ saved' = [ saved EXCEPT ![turn[h].msg] = @ \cup { turn[h].text } ]
    BY DEF AnswerNothing, Save, CloseWithError, replies
  <2>4. saved' \in [ Message -> SUBSET Text ]
    BY <1>1, <2>1, <2>3
  <2>5. QED
    BY <1>1, <2>1, <2>2, <2>4
<1>6. Handlers'
  <2>1. CASE AnswerNothing(h)
    <3>1. turn[h].msg \in excused' /\ rx' = IF Reading(h) THEN [ rx EXCEPT ![h] = r ] ELSE rx
      BY <1>1, <2>1 DEF AnswerNothing, Excuse
    <3> HIDE DEF r
    <3>2. QED
      BY <1>1, <1>2, <1>4, <1>5, <3>1, TurnEnds
  <2>2. CASE Save(h)
    <3>1. rx[h].content # {} \/ turn[h].msg \in excused'
      BY <1>1, <2>2 DEF Save, Heard
    <3>2. rx' = IF Reading(h) THEN [ rx EXCEPT ![h] = r ] ELSE rx
      BY <1>1, <2>2 DEF Save
    <3> HIDE DEF r
    <3>3. QED
      BY <1>1, <1>2, <1>4, <1>5, <3>1, <3>2, TurnEnds
  <2>3. CASE CloseWithError(h)
    <3>1. rx' = IF Reading(h) THEN [ rx EXCEPT ![h] = e ] ELSE rx
      BY <1>1, <2>3 DEF CloseWithError
    <3> HIDE DEF e
    <3>2. QED
      BY <1>1, <1>3, <1>4, <1>5, <3>1, TurnEnds
  <2>4. QED
    BY <2>1, <2>2, <2>3
<1>7. QED
  BY <1>4, <1>5, <1>6 DEF Types, Stores, dedup, sops

\* The engine's turn of h goes on in silence.
LEMMA MoveTypes ==
  ASSUME Types, NEW h \in Handler, Block(h) \/ EndRound(h) \/ AskForTools(h) \/ Throw(h)
  PROVE  Types'
<1> DEFINE later == turn[h].round + 1
           next == [ turn[h] EXCEPT !.at = "llm", !.round = later,
                                    !.called = FALSE, !.text = "plain" ]
           fail == [ turn[h] EXCEPT !.at = "fail" ]
           tools == [ turn[h] EXCEPT !.at = "tools" ]
           Goes(u) == turn' = [ turn EXCEPT ![h] = u ]
<1>1. /\ turn \in [ Handler -> Turn ] /\ turn[h] \in Turn /\ turn[h].round < MaxRounds
      /\ turn[h].at \in Engine
  BY HandlerFacts DEF Block, EndRound, AskForTools, Throw, Engine, Sound
<1>2. UNCHANGED << dedup, started, sessions, rx, sops, replies >>
  BY DEF Block, EndRound, AskForTools, Throw
<1>3. faults' \in 0 .. MaxFaults
  BY FaultCounts DEF Block, EndRound, AskForTools, Throw, Types, Stores
<1>4. /\ next \in Turn /\ next.msg = turn[h].msg /\ next.at = "llm"
      /\ next.round = later
  <2>1. later \in Nat
    BY <1>1 DEF Turn
  <2> HIDE DEF later
  <2>2. QED
    BY <1>1, <2>1 DEF Turn, Engine, Text
<1>5. /\ fail \in Turn /\ fail.msg = turn[h].msg /\ fail.at = "fail"
      /\ fail.round = turn[h].round
  BY <1>1 DEF Turn, Engine
<1>6. /\ tools \in Turn /\ tools.msg = turn[h].msg /\ tools.at = "tools"
      /\ tools.round = turn[h].round
  BY <1>1 DEF Turn, Engine
<1>7. (later < MaxRounds /\ Goes(next)) \/ Goes(fail) \/ Goes(tools)
  BY <1>1 DEF Block, EndRound, AskForTools, Throw, NextRound, To
<1> HIDE DEF next, fail, tools, later
<1>8. UNCHANGED << rx, excused, sessions >>
  BY <1>2 DEF replies
<1>9. { "llm", "fail", "tools" } \subseteq Engine \ { "check", "save" }
  BY DEF Engine
<1>10. Handlers'
  <2>1. CASE later < MaxRounds /\ Goes(next)
    BY <1>1, <1>4, <1>8, <1>9, <2>1, TurnMoves
  <2>2. CASE Goes(fail)
    BY <1>1, <1>5, <1>8, <1>9, <2>2, TurnMoves
  <2>3. CASE Goes(tools)
    BY <1>1, <1>6, <1>8, <1>9, <2>3, TurnMoves
  <2>4. QED
    BY <1>7, <2>1, <2>2, <2>3
<1>11. QED
  BY <1>2, <1>3, <1>10 DEF Types, Stores, dedup, sops, replies

LEMMA CallTypes ==
  ASSUME Types, NEW h \in Handler, NEW s \in Sop, CallSop(h, s) PROVE Types'
<1>1. PICK old \in aged .. Len(execs) :
        /\ aged' = old
        /\ turn' = [ turn EXCEPT ![h].at = "trigger", ![h].sop = s,
                                 ![h].saw = old + 1 .. Len(execs),
                                 ![h].done = @ \cup { s }, ![h].called = TRUE ]
  BY DEF CallSop
<1> DEFINE seen == old + 1 .. Len(execs)
           given == turn[h].done \cup { s }
           u == [ turn[h] EXCEPT !.at = "trigger", !.sop = s, !.saw = seen,
                                 !.done = given, !.called = TRUE ]
<1>2. /\ turn \in [ Handler -> Turn ] /\ turn[h] \in Turn /\ turn[h].round < MaxRounds
      /\ turn[h].at = "tools" /\ turn[h].at \in Engine
  BY HandlerFacts DEF CallSop, Engine, Sound
<1>3. UNCHANGED << dedup, started, sessions, rx, execs, replies, faults >>
  BY DEF CallSop
<1>4. old \in 0 .. Len(execs) /\ Len(execs) \in Nat
  BY DEF Types, Stores
<1>5. seen \in SUBSET Nat /\ given \in SUBSET Sop
  BY <1>2, <1>4 DEF Turn
<1>6. turn' = [ turn EXCEPT ![h] = u ]
  BY <1>1, <1>2
<1> HIDE DEF seen, given
<1>7. /\ u \in Turn /\ u.msg = turn[h].msg /\ u.at = "trigger" /\ u.sop = s
      /\ u.round = turn[h].round
  BY <1>2, <1>5 DEF Turn, Engine
<1> HIDE DEF u
<1>8. Handlers'
  BY <1>2, <1>3, <1>6, <1>7, TurnMoves DEF replies, Engine
<1>9. aged' \in 0 .. Len(execs')
  BY <1>1, <1>3, <1>4
<1>10. QED
  BY <1>3, <1>8, <1>9 DEF Types, Stores, dedup, replies

LEMMA TriggerTypes ==
  ASSUME Types, NEW h \in Handler, TriggerSop(h) PROVE Types'
<1> DEFINE u == [ turn[h] EXCEPT !.at = "tools", !.sop = None, !.saw = {} ]
<1>1. /\ turn \in [ Handler -> Turn ] /\ turn[h] \in Turn /\ turn[h].round < MaxRounds
      /\ turn[h].at \in Engine /\ turn[h].sop \in Sop /\ turn[h].msg \in Message
  BY HandlerFacts DEF TriggerSop, Engine, Sound
<1>2. UNCHANGED << dedup, started, sessions, rx, aged, replies, faults >>
      /\ turn' = [ turn EXCEPT ![h] = u ]
  BY <1>1 DEF TriggerSop
<1>3. u \in Turn /\ u.msg = turn[h].msg /\ u.at = "tools" /\ u.round = turn[h].round
  BY <1>1 DEF Turn, Engine
<1> HIDE DEF u
<1>4. Handlers'
  BY <1>1, <1>2, <1>3, TurnMoves DEF replies, Engine
<1>5. execs' \in Seq(Exec) /\ Len(execs) <= Len(execs')
  <2>1. execs \in Seq(Exec) /\ turn[h].nr \in Nat /\ turn[h].saw \in SUBSET Nat
    BY <1>1 DEF Types, Stores, Turn
  <2>2. CASE execs' = execs
    BY <2>1, <2>2
  <2>3. ASSUME NEW exact \in BOOLEAN,
               execs' = Append(execs, [ sop |-> turn[h].sop, msg |-> turn[h].msg,
                                        nr |-> turn[h].nr, exact |-> exact,
                                        saw |-> turn[h].saw ])
        PROVE  execs' \in Seq(Exec) /\ Len(execs) <= Len(execs')
    <3> DEFINE x == [ sop |-> turn[h].sop, msg |-> turn[h].msg, nr |-> turn[h].nr,
                      exact |-> exact, saw |-> turn[h].saw ]
    <3>1. x \in Exec
      BY <1>1, <2>1 DEF Exec
    <3>2. execs' = Append(execs, x)
      BY <2>3
    <3> HIDE DEF x
    <3>3. QED
      BY <2>1, <3>1, <3>2, AppendProperties
  <2>4. QED
    BY <2>2, <2>3 DEF TriggerSop
<1>6. aged' \in 0 .. Len(execs')
  <2>1. aged \in 0 .. Len(execs) /\ Len(execs) \in Nat /\ Len(execs') \in Nat
    BY <1>5, LenProperties DEF Types, Stores
  <2>2. QED
    BY <1>2, <1>5, <2>1
<1>7. QED
  BY <1>2, <1>4, <1>5, <1>6 DEF Types, Stores, dedup, replies

LEMMA ReplyTypes == ASSUME Types, NEW h \in Handler, Replying(h) PROVE Types'
<1> DEFINE quiet == IdleRx
           reply == [ rx[h] EXCEPT !.at = "reply" ]
           error == [ rx[h] EXCEPT !.at = "error" ]
           Goes(r) == rx' = [ rx EXCEPT ![h] = r ]
<1>1. /\ Sound(turn[h], rx[h]) /\ Heard(turn[h], rx[h], excused) /\ rx \in [ Handler -> Rx ]
      /\ rx[h] \in Rx /\ rx[h].at # "idle" /\ rx[h].msg \in Message
  BY HandlerFacts DEF Replying, Consume, GiveUp, Send, SendError, Sound
<1>2. UNCHANGED << dedup, started, sessions, turn, sops, saved >>
  BY DEF Replying, Consume, GiveUp, Send, SendError, replies
<1>3. faults' \in 0 .. MaxFaults
  BY FaultCounts DEF Replying, Consume, GiveUp, Send, SendError, Types, Stores
<1>4. excused' \subseteq Message /\ excused \subseteq excused'
      /\ (rx[h].at = "read" /\ ~rx[h].ended => rx[h].msg \in excused')
  <2>1. excused' \in { excused, excused \cup { rx[h].msg } }
    BY DEF Replying, Consume, GiveUp, Send, SendError, Excuse, replies
  <2>2. rx[h].at = "read" /\ ~rx[h].ended => rx[h].msg \in excused'
    BY DEF Replying, Consume, GiveUp, Send, SendError, Excuse
  <2>3. QED
    BY <1>1, <2>1, <2>2 DEF Types, Stores
<1>5. sent' \in [ Message -> SUBSET (Text \cup { "error" }) ]
  <2>1. sent \in [ Message -> SUBSET (Text \cup { "error" }) ] /\ rx[h].content \subseteq Text
    BY <1>1 DEF Types, Stores, Rx
  <2>2. \/ sent' = sent
        \/ sent' = [ sent EXCEPT ![rx[h].msg] = @ \cup rx[h].content ]
        \/ sent' = [ sent EXCEPT ![rx[h].msg] = @ \cup { "error" } ]
    BY DEF Replying, Consume, GiveUp, Send, SendError, replies
  <2>3. QED
    BY <1>1, <2>1, <2>2
<1>6. (rx[h].content # {} /\ Goes(reply)) \/ Goes(error) \/ Goes(quiet)
  BY <1>1 DEF Replying, Consume, GiveUp, Send, SendError, ToRx, RxDone
<1>7. /\ quiet \in Rx /\ quiet.at = "idle"
      /\ reply \in Rx /\ reply.at = "reply" /\ reply.msg = rx[h].msg
      /\ reply.content = rx[h].content
      /\ error \in Rx /\ error.at = "error" /\ error.msg = rx[h].msg
  BY <1>1 DEF IdleRx, Rx
<1> HIDE DEF quiet, reply, error
<1>8. Handlers'
  <2>1. CASE rx[h].content # {} /\ Goes(reply)
    BY <1>1, <1>2, <1>4, <1>7, <2>1, ConsumerMoves
  <2>2. CASE Goes(error)
    BY <1>1, <1>2, <1>4, <1>7, <2>2, ConsumerMoves
  <2>3. CASE Goes(quiet)
    BY <1>1, <1>2, <1>4, <1>7, <2>3, ConsumerMoves
  <2>4. QED
    BY <1>6, <2>1, <2>2, <2>3
<1>9. QED
  BY <1>2, <1>3, <1>4, <1>5, <1>8 DEF Types, Stores, dedup, sops

LEMMA CrashTypes == ASSUME Types, Crash PROVE Types'
<1>1. /\ Sound(IdleTurn, IdleRx) /\ \A ex : Heard(IdleTurn, IdleRx, ex)
      /\ IdleTurn \in Turn /\ IdleRx \in Rx /\ IdleTurn.at \notin Seated
  BY IdlePair DEF Sound, IdleTurn, Engine, Seated
<1>2. Handlers'
  BY <1>1 DEF Crash, Handlers
<1>3. InFlight \subseteq Message \cup { None }
  BY DEF InFlight, Types, Handlers, Turn, Rx
<1>4. faults' \in 0 .. MaxFaults
  BY FaultCounts DEF Crash, Types
<1>5. excused' \subseteq Message /\ lapsed' \subseteq Message /\ memory' \subseteq Message
  BY <1>3 DEF Crash, Types, Stores
<1>6. QED
  BY <1>2, <1>4, <1>5 DEF Crash, Types, Stores, sops

LEMMA TypesInit == Init => Types
<1> SUFFICES ASSUME Init PROVE Types
  OBVIOUS
<1>1. /\ Sound(IdleTurn, IdleRx) /\ \A ex : Heard(IdleTurn, IdleRx, ex)
      /\ IdleTurn \in Turn /\ IdleRx \in Rx /\ IdleTurn.at \notin Seated
  BY IdlePair DEF Sound, IdleTurn, Engine, Seated
<1>2. Handlers
  BY <1>1 DEF Init, Handlers
<1>3. execs \in Seq(Exec) /\ Len(execs) = 0
  BY EmptySeq DEF Init
<1>4. aged \in 0 .. Len(execs) /\ faults \in 0 .. MaxFaults
  BY <1>3, NumberAssumption DEF Init
<1>5. Stores
  BY <1>3, <1>4 DEF Init, Stores
<1>6. QED
  BY <1>2, <1>5 DEF Types

LEMMA TypesStep == Types /\ [Next]_vars => Types'
<1> SUFFICES ASSUME Types, [Next]_vars PROVE Types'
  OBVIOUS
<1>1. CASE Crash
  BY <1>1, CrashTypes
<1>2. ASSUME NEW h \in Handler, NEW m \in Message, Deliver(h, m) PROVE Types'
  BY <1>2, DeliverTypes
<1>3. ASSUME NEW h \in Handler, Receiving(h) PROVE Types'
  BY <1>3, FindTypes, EnterTypes, WebhookFailsTypes DEF Receiving
<1>4. ASSUME NEW h \in Handler, Modelling(h) PROVE Types'
  BY <1>4, MoveTypes, EndTypes, AnswerTypes, CallTypes DEF Modelling
<1>5. ASSUME NEW h \in Handler, Turning(h) PROVE Types'
  BY <1>5, MoveTypes, EndTypes, TriggerTypes DEF Turning
<1>6. ASSUME NEW h \in Handler, Replying(h) PROVE Types'
  BY <1>6, ReplyTypes
<1>7. CASE UNCHANGED vars
  BY <1>7 DEF vars, dedup, sops, replies, Types, Handlers, Stores
<1>8. QED
  BY <1>1, <1>2, <1>3, <1>4, <1>5, <1>6, <1>7 DEF Next

LEMMA TypesHold == Spec => []Types
BY TypesInit, TypesStep, PTL DEF Spec

\* Whatever is delivered, fails, is late or dies: every store and every turn is
\* of its type, a turn stays within its rounds, one at work has a conversation,
\* and a consumer that reads has the turn's message (webhook-handler.ts).
THEOREM TypeCorrect == Spec => []TypeOK
<1>1. Types => TypeOK
  <2> SUFFICES ASSUME Types PROVE TypeOK
    OBVIOUS
  <2>1. ASSUME NEW h \in Handler
        PROVE  /\ turn[h].at \in Webhook \cup Engine \cup { "idle" }
               /\ turn[h].round < MaxRounds
               /\ turn[h].at # "idle" => turn[h].msg \in Message
               /\ turn[h].at \in Engine => sessions > 0
               /\ rx[h].at \in { "idle", "read", "reply", "error" }
               /\ rx[h].at = "read" /\ ~rx[h].ended => Reading(h)
    BY HandlerFacts DEF Sound, Turn, Rx, Reading, Seated
  <2>2. QED
    BY <2>1 DEF TypeOK, Types, Stores
<1>2. QED
  BY <1>1, TypesHold, PTL

-------------------------------------------------------------------------------
(* A message whose mark was never lost: its key is set before its turn     *)
(* starts, one handler brings it there, and it starts one turn.            *)

Waits(h, m) == turn[h].at \in Webhook /\ turn[h].msg = m
Known == IF redis THEN marked ELSE memory

OnceFor(m) ==
  /\ started[m] <= 1
  /\ started[m] > 0 => m \in Known
  /\ \A h \in Handler : Waits(h, m) => started[m] = 0 /\ m \in Known
  /\ \A g, h \in Handler : Waits(g, m) /\ Waits(h, m) => g = h

Once == \A m \in Message \ lapsed : OnceFor(m)

LEMMA OnceKept ==
  ASSUME Once, started' = started,
         \A h \in Handler : \A m \in Message : Waits(h, m)' => Waits(h, m),
         \A m \in Message \ lapsed' : m \notin lapsed /\ (m \in Known => m \in Known')
  PROVE  Once'
<1>1. SUFFICES ASSUME NEW m \in Message, m \notin lapsed' PROVE OnceFor(m)'
  BY DEF Once
<1>2. OnceFor(m)
  BY <1>1 DEF Once
<1>3. QED
  BY <1>1, <1>2 DEF OnceFor

\* A turn that is not started goes nowhere but ahead.
LEMMA WaitsLess ==
  ASSUME Types, NEW h \in Handler, NEW u, turn' = [ turn EXCEPT ![h] = u ],
         u.at \in Webhook => turn[h].at \in Webhook /\ u.msg = turn[h].msg
  PROVE  \A g \in Handler : \A m \in Message : Waits(g, m)' => Waits(g, m)
<1>1. turn \in [ Handler -> Turn ]
  BY HandlerFacts
<1>2. QED
  BY <1>1 DEF Waits

LEMMA PlaceLess ==
  ASSUME Types, NEW h \in Handler, NEW place, To(h, place),
         place \in Webhook => turn[h].at \in Webhook
  PROVE  \A g \in Handler : \A m \in Message : Waits(g, m)' => Waits(g, m)
<1> DEFINE u == [ turn[h] EXCEPT !.at = place ]
<1>1. turn \in [ Handler -> Turn ] /\ turn[h] \in Turn
  BY HandlerFacts
<1>2. u.at = place /\ u.msg = turn[h].msg /\ turn' = [ turn EXCEPT ![h] = u ]
  BY <1>1 DEF To, Turn
<1> HIDE DEF u
<1>3. QED
  BY <1>2, WaitsLess

LEMMA OnceDeliver ==
  ASSUME Types, Once, NEW h \in Handler, NEW k \in Message, Deliver(h, k) PROVE Once'
<1>1. turn \in [ Handler -> Turn ] /\ turn[h] \in Turn /\ turn[h].at = "idle"
  BY HandlerFacts DEF Deliver, Free
<1>2. started' = started /\ redis' = redis
  BY DEF Deliver, SetIfAbsent, Remember, Accept, Drop
<1>3. Known \subseteq Known' /\ lapsed \subseteq lapsed'
  BY <1>2 DEF Deliver, SetIfAbsent, Remember, Known
<1>4. CASE UNCHANGED turn
  BY <1>2, <1>3, <1>4, OnceKept DEF Waits
<1>5. CASE Accept(h, k)
  <2>1. k \notin lapsed' => k \notin Known /\ k \in Known'
    <3>1. SUFFICES ASSUME k \notin lapsed' PROVE k \notin Known /\ k \in Known'
      OBVIOUS
    <3>2. (redis /\ SetIfAbsent(h, k)) \/ (~redis /\ Remember(h, k))
      BY <3>1 DEF Deliver
    <3>3. turn' # turn
      <4>1. turn'[h].at = "session"
        BY <1>1, <1>5 DEF Accept, Turn
      <4>2. QED
        BY <1>1, <4>1
    <3>4. CASE redis /\ SetIfAbsent(h, k)
      BY <1>2, <3>3, <3>4 DEF SetIfAbsent, Drop, Known
    <3>5. CASE ~redis /\ Remember(h, k)
      BY <1>2, <3>3, <3>5 DEF Remember, Drop, Known
    <3>6. QED
      BY <3>2, <3>4, <3>5
  <2>2. /\ turn'[h].msg = k
        /\ \A g \in Handler \ { h } : turn'[g] = turn[g]
    BY <1>1, <1>5 DEF Accept, Turn
  <2>3. SUFFICES ASSUME NEW m \in Message, m \notin lapsed' PROVE OnceFor(m)'
    BY DEF Once
  <2>4. OnceFor(m) /\ started[m] \in Nat
    BY <1>3, <2>3 DEF Once, Types, Stores
  <2>5. CASE m = k
    <3>1. started[m] = 0
      BY <2>1, <2>3, <2>4, <2>5 DEF OnceFor
    <3>2. \A g \in Handler : Waits(g, m)' => g = h
      BY <2>1, <2>2, <2>3, <2>4, <2>5 DEF OnceFor, Waits
    <3>3. QED
      BY <1>2, <2>1, <2>3, <2>5, <3>1, <3>2 DEF OnceFor
  <2>6. CASE m # k
    <3>1. \A g \in Handler : Waits(g, m)' => Waits(g, m)
      BY <2>2, <2>6 DEF Waits
    <3>2. QED
      BY <1>2, <1>3, <2>4, <3>1 DEF OnceFor
  <2>7. QED
    BY <2>5, <2>6
<1>6. QED
  BY <1>4, <1>5 DEF Deliver, SetIfAbsent, Remember, Drop

LEMMA OnceEnter == ASSUME Types, Once, NEW h \in Handler, Enter(h) PROVE Once'
<1> DEFINE k == turn[h].msg
<1>1. /\ turn \in [ Handler -> Turn ] /\ turn[h] \in Turn /\ turn[h].at = "enter"
      /\ k \in Message /\ started \in [ Message -> Nat ]
  BY HandlerFacts DEF Enter, Sound, Types, Stores
<1>2. started' = [ started EXCEPT ![k] = @ + 1 ] /\ UNCHANGED << redis, marked, memory, lapsed >>
  BY DEF Enter, dedup
<1>3. ~(turn'[h].at \in Webhook) /\ \A g \in Handler \ { h } : turn'[g] = turn[g]
  <2>1. turn' = [ turn EXCEPT ![h] = IdleTurn ]
        \/ turn' = [ turn EXCEPT ![h].at = "llm", ![h].nr = started[turn[h].msg] + 1 ]
    BY DEF Enter
  <2>2. IdleTurn.at = "idle"
    BY DEF IdleTurn
  <2>3. QED
    BY <1>1, <2>1, <2>2 DEF Webhook, Turn
<1>4. Waits(h, k)
  BY <1>1 DEF Waits, Webhook
<1>5. \A g \in Handler : \A m \in Message : Waits(g, m)' => g # h /\ Waits(g, m)
  BY <1>3 DEF Waits
<1> HIDE DEF k
<1>6. SUFFICES ASSUME NEW m \in Message, m \notin lapsed' PROVE OnceFor(m)'
  BY DEF Once
<1>7. OnceFor(m) /\ Known' = Known
  BY <1>2, <1>6 DEF Once, Known
<1>8. CASE m = k
  <2>1. started[m] = 0 /\ m \in Known /\ \A g \in Handler : Waits(g, m) => g = h
    BY <1>4, <1>7, <1>8 DEF OnceFor
  <2>2. started'[m] = 1
    BY <1>1, <1>2, <1>8, <2>1
  <2>3. \A g \in Handler : ~Waits(g, m)'
    BY <1>5, <2>1
  <2>4. QED
    BY <1>7, <2>1, <2>2, <2>3 DEF OnceFor
<1>9. CASE m # k
  <2>1. started'[m] = started[m]
    BY <1>1, <1>2, <1>9
  <2>2. QED
    BY <1>5, <1>7, <2>1 DEF OnceFor
<1>10. QED
  BY <1>8, <1>9

\* What no other action does: start a turn, or bring a message to the webhook.
LEMMA OnceElse ==
  ASSUME Types, NEW h \in Handler,
         FindSession(h) \/ OpenSession(h) \/ WebhookFails(h) \/ Modelling(h) \/ Turning(h)
           \/ Replying(h)
  PROVE  /\ UNCHANGED << started, dedup >>
         /\ \A g \in Handler : \A m \in Message : Waits(g, m)' => Waits(g, m)
<1>1. UNCHANGED << started, dedup >>
  BY DEF FindSession, OpenSession, WebhookFails, Modelling, Turning, Replying, AskForTools,
         AnswerNothing, Answer, CallSop, Block, Save, TriggerSop, EndRound, Throw,
         CloseWithError, Consume, GiveUp, Send, SendError
<1>2. turn \in [ Handler -> Turn ] /\ turn[h] \in Turn
  BY HandlerFacts
<1> DEFINE Less == \A g \in Handler : \A m \in Message : Waits(g, m)' => Waits(g, m)
<1>3. ASSUME Replying(h) PROVE Less
  BY <1>3 DEF Replying, Consume, GiveUp, Send, SendError, Waits
<1>4. ASSUME WebhookFails(h) \/ AnswerNothing(h) \/ Save(h) \/ CloseWithError(h) PROVE Less
  <2>1. turn' = [ turn EXCEPT ![h] = IdleTurn ]
    BY <1>4 DEF WebhookFails, AnswerNothing, Save, CloseWithError
  <2>2. IdleTurn.at \notin Webhook
    BY DEF IdleTurn, Webhook
  <2>3. QED
    BY <2>1, <2>2, WaitsLess
<1>5. ASSUME AskForTools(h) \/ Throw(h) \/ Block(h) \/ EndRound(h)
             \/ (\E text \in Text : Answer(h, text)) \/ (\E s \in Sop : CallSop(h, s))
             \/ TriggerSop(h)
      PROVE  Less
  <2>1. turn'[h].at \in Engine
    <3>1. ASSUME AskForTools(h) \/ Throw(h) \/ TriggerSop(h) PROVE turn'[h].at \in Engine
      BY <1>2, <3>1 DEF AskForTools, Throw, TriggerSop, To, Turn, Engine
    <3>2. ASSUME Block(h) \/ EndRound(h) PROVE turn'[h].at \in Engine
      BY <1>2, <3>2 DEF Block, EndRound, NextRound, To, Turn, Engine
    <3>3. ASSUME NEW text \in Text, Answer(h, text) PROVE turn'[h].at \in Engine
      BY <1>2, <3>3 DEF Answer, Turn, Engine
    <3>4. ASSUME NEW s \in Sop, CallSop(h, s) PROVE turn'[h].at \in Engine
      BY <1>2, <3>4 DEF CallSop, Turn, Engine
    <3>5. QED
      BY <1>5, <3>1, <3>2, <3>3, <3>4
  <2>2. \A g \in Handler \ { h } : turn'[g] = turn[g]
    BY <1>2, <1>5 DEF AskForTools, Throw, Block, EndRound, Answer, CallSop, TriggerSop,
                      NextRound, To
  <2>3. turn'[h].at \notin Webhook
    BY <2>1 DEF Engine, Webhook
  <2>4. QED
    BY <2>2, <2>3 DEF Waits
<1>6. ASSUME FindSession(h) \/ OpenSession(h) PROVE Less
  BY <1>6, PlaceLess DEF FindSession, OpenSession, Webhook
<1> HIDE DEF Less
<1>7. Less
  BY <1>3, <1>4, <1>5, <1>6 DEF Modelling, Turning
<1>8. QED
  BY <1>1, <1>7 DEF Less

LEMMA OnceCrash == ASSUME Types, Once, Crash PROVE Once'
<1>1. \A h \in Handler : \A m \in Message : ~Waits(h, m)'
  BY DEF Crash, Waits, IdleTurn, Webhook
<1>2. \A m \in Message \ lapsed' : m \notin lapsed /\ (m \in Known => m \in Known')
  BY DEF Crash, Known
<1>3. started' = started
  BY DEF Crash
<1>4. QED
  BY <1>1, <1>2, <1>3, OnceKept

LEMMA OnceHolds == Spec => []Once
<1>1. Init => Once
  BY DEF Init, Once, OnceFor, Waits, IdleTurn, Webhook
<1>2. Types /\ Once /\ [Next]_vars => Once'
  <2>1. SUFFICES ASSUME Types, Once, [Next]_vars PROVE Once'
    OBVIOUS
  <2>2. CASE Crash
    BY <2>1, <2>2, OnceCrash
  <2>3. ASSUME NEW h \in Handler, NEW m \in Message, Deliver(h, m) PROVE Once'
    BY <2>1, <2>3, OnceDeliver
  <2>4. ASSUME NEW h \in Handler, Enter(h) PROVE Once'
    BY <2>1, <2>4, OnceEnter
  <2>5. ASSUME NEW h \in Handler,
               FindSession(h) \/ OpenSession(h) \/ WebhookFails(h) \/ Modelling(h)
                 \/ Turning(h) \/ Replying(h)
        PROVE  Once'
    <3>1. /\ UNCHANGED << started, dedup >>
          /\ \A g \in Handler : \A m \in Message : Waits(g, m)' => Waits(g, m)
      BY <2>1, <2>5, OnceElse
    <3>2. QED
      BY <2>1, <3>1, OnceKept DEF dedup, Known
  <2>6. CASE UNCHANGED vars
    <3>1. UNCHANGED << started, turn, redis, marked, memory, lapsed >>
      BY <2>6 DEF vars, dedup
    <3>2. QED
      BY <2>1, <3>1, OnceKept DEF Known, Waits
  <2>7. QED
    BY <2>1, <2>2, <2>3, <2>4, <2>5, <2>6 DEF Next, Receiving
<1>3. QED
  BY <1>1, <1>2, TypesHold, PTL DEF Spec

\* A channel that delivers a message again starts a second turn for it only
\* if the mark of the first delivery was lost (dedup.ts).
THEOREM MessagesRunOnce == Spec => []ProcessedOnce
<1>1. Types /\ Once => ProcessedOnce
  BY DEF Types, Stores, Once, OnceFor, ProcessedOnce
<1>2. QED
  BY <1>1, TypesHold, OnceHolds, PTL

-------------------------------------------------------------------------------
(* A message that was delivered is answered, excused, or some handler is   *)
(* still to answer it; what is stored for it was sent, or is excused, or   *)
(* some consumer has it to send.                                           *)

Working(h, m) == Waits(h, m) \/ (rx[h].at # "idle" /\ rx[h].msg = m)
Carries(h, m, x) == rx[h].at \in { "read", "reply" } /\ rx[h].msg = m /\ x \in rx[h].content

Dealt(m) == sent[m] # {} \/ m \in excused
Passed(m, x) == x \in sent[m] \/ m \in excused

Answered ==
  /\ marked \cup memory \subseteq { m \in Message : delivered[m] > 0 }
  /\ \A m \in Message : delivered[m] > 0 => Dealt(m) \/ \E h \in Handler : Working(h, m)

Stored ==
  \A m \in Message : \A x \in saved[m] : Passed(m, x) \/ \E h \in Handler : Carries(h, m, x)

Grows == excused \subseteq excused' /\ \A m \in Message : sent[m] \subseteq sent'[m]

LEMMA AnsweredKept ==
  ASSUME Answered, Grows, delivered' = delivered, marked' = marked, memory' \subseteq memory,
         \A h \in Handler : \A m \in Message : Working(h, m) => Working(h, m)' \/ Dealt(m)'
  PROVE  Answered'
<1>1. \A m \in Message : Dealt(m) => Dealt(m)'
  BY DEF Grows, Dealt
<1>2. QED
  BY <1>1 DEF Answered

LEMMA StoredKept ==
  ASSUME Stored, Grows,
         \A m \in Message : \A x \in saved'[m] :
           x \in saved[m] \/ Passed(m, x)' \/ \E h \in Handler : Carries(h, m, x)',
         \A h \in Handler : \A m \in Message : \A x :
           Carries(h, m, x) => Carries(h, m, x)' \/ Passed(m, x)'
  PROVE  Stored'
<1>1. \A m \in Message : \A x : Passed(m, x) => Passed(m, x)'
  BY DEF Grows, Passed
<1>2. QED
  BY <1>1 DEF Stored

\* What the engine does to the stream and the stores.
LEMMA EngineFacts ==
  ASSUME Types, NEW h \in Handler, Modelling(h) \/ Turning(h)
  PROVE  /\ UNCHANGED << delivered, marked, memory, sent >> /\ excused \subseteq excused'
         /\ turn[h].at \in Engine /\ \A g \in Handler \ { h } : turn'[g] = turn[g]
         /\ \A g \in Handler : /\ rx'[g].at = rx[g].at /\ rx'[g].msg = rx[g].msg
                               /\ rx[g].content \subseteq rx'[g].content
         /\ \A m \in Message : \A x \in saved'[m] :
              x \in saved[m] \/ m \in excused \/ Carries(h, m, x)
<1>1. /\ turn \in [ Handler -> Turn ] /\ rx \in [ Handler -> Rx ]
      /\ turn[h] \in Turn /\ rx[h] \in Rx
      /\ Sound(turn[h], rx[h]) /\ Heard(turn[h], rx[h], excused)
  BY HandlerFacts
<1>2. UNCHANGED << delivered, marked, memory, sent >> /\ excused \subseteq excused'
  BY DEF Modelling, Turning, AskForTools, AnswerNothing, Answer, CallSop, Block, Save,
         TriggerSop, EndRound, Throw, CloseWithError, dedup, replies, Excuse
<1>3. turn[h].at \in Engine
  BY DEF Modelling, Turning, AskForTools, AnswerNothing, Answer, CallSop, Block, Save,
         TriggerSop, EndRound, Throw, CloseWithError, Engine
<1>4. \A g \in Handler \ { h } : turn'[g] = turn[g]
  BY <1>1 DEF Modelling, Turning, AskForTools, AnswerNothing, Answer, CallSop, Block, Save,
         TriggerSop, EndRound, Throw, CloseWithError, NextRound, To
<1>5. \/ rx' = rx
      \/ \E text \in Text : rx' = [ rx EXCEPT ![h].content = @ \cup { text } ]
      \/ rx' = [ rx EXCEPT ![h].ended = TRUE ]
      \/ rx' = [ rx EXCEPT ![h].err = TRUE, ![h].ended = TRUE ]
  BY DEF Modelling, Turning, AskForTools, AnswerNothing, Answer, CallSop, Block, Save,
         TriggerSop, EndRound, Throw, CloseWithError
<1>6. ASSUME NEW g \in Handler
      PROVE  /\ rx'[g].at = rx[g].at /\ rx'[g].msg = rx[g].msg
             /\ rx[g].content \subseteq rx'[g].content
  BY <1>1, <1>5 DEF Rx
<1>7. \/ saved' = saved
      \/ Save(h) /\ saved' = [ saved EXCEPT ![turn[h].msg] = @ \cup { turn[h].text } ]
  BY DEF Modelling, Turning, AskForTools, AnswerNothing, Answer, CallSop, Block, Save,
         TriggerSop, EndRound, Throw, CloseWithError, replies
<1>8. ASSUME NEW m \in Message, NEW x \in saved'[m], x \notin saved[m], m \notin excused
      PROVE  Carries(h, m, x)
  <2>1. Save(h) /\ saved' = [ saved EXCEPT ![turn[h].msg] = @ \cup { turn[h].text } ]
    BY <1>7, <1>8
  <2>2. saved \in [ Message -> SUBSET Text ]
    BY DEF Types, Stores
  <2>3. m = turn[h].msg /\ x = turn[h].text
    BY <1>8, <2>1, <2>2
  <2>4. turn[h].at = "save"
    BY <2>1 DEF Save
  <2>5. QED
    BY <1>1, <1>8, <2>3, <2>4 DEF Heard, Carries, Engine
<1>9. QED
  BY <1>2, <1>3, <1>4, <1>6, <1>8

LEMMA AnsweredEngine ==
  ASSUME Types, Answered, Stored, NEW h \in Handler, Modelling(h) \/ Turning(h)
  PROVE  Answered' /\ Stored'
<1>1. /\ UNCHANGED << delivered, marked, memory, sent >> /\ excused \subseteq excused'
      /\ turn[h].at \notin Webhook /\ \A g \in Handler \ { h } : turn'[g] = turn[g]
  BY EngineFacts DEF Engine, Webhook
<1>2. \A g \in Handler : /\ rx'[g].at = rx[g].at /\ rx'[g].msg = rx[g].msg
                         /\ rx[g].content \subseteq rx'[g].content
  BY EngineFacts
<1>3. \A g \in Handler : \A m \in Message : Working(g, m) => Working(g, m)'
  BY <1>1, <1>2 DEF Working, Waits
<1>4. \A g \in Handler : \A m \in Message : \A x : Carries(g, m, x) => Carries(g, m, x)'
  BY <1>2 DEF Carries
<1>5. Grows
  BY <1>1 DEF Grows
<1>6. Answered'
  BY <1>1, <1>3, <1>5, AnsweredKept
<1>7. \A m \in Message : \A x \in saved'[m] :
        x \in saved[m] \/ Passed(m, x)' \/ \E g \in Handler : Carries(g, m, x)'
  BY <1>1, <1>4, EngineFacts DEF Passed
<1>8. Stored'
  BY <1>4, <1>5, <1>7, StoredKept
<1>9. QED
  BY <1>6, <1>8

LEMMA AnsweredDeliver ==
  ASSUME Types, Answered, Stored, NEW h \in Handler, NEW k \in Message, Deliver(h, k)
  PROVE  Answered' /\ Stored'
<1>1. /\ turn \in [ Handler -> Turn ] /\ turn[h].at = "idle" /\ turn[h] \in Turn
      /\ rx[h].at = "idle" /\ delivered \in [ Message -> Nat ]
  BY HandlerFacts DEF Deliver, Free, Types, Stores
<1>2. /\ delivered' = [ delivered EXCEPT ![k] = @ + 1 ]
      /\ UNCHANGED << rx, sent, excused, saved >>
      /\ marked' \cup memory' \subseteq marked \cup memory \cup { k }
  BY DEF Deliver, SetIfAbsent, Remember, Accept, Drop, replies
<1>3. Accept(h, k) \/ (k \in marked \cup memory /\ UNCHANGED turn)
  BY DEF Deliver, SetIfAbsent, Remember, Drop
<1>4. Grows /\ \A m \in Message : Dealt(m)' <=> Dealt(m)
  BY <1>2 DEF Grows, Dealt
<1>5. Stored'
  BY <1>2 DEF Stored, Passed, Carries
<1>6. /\ delivered' \in [ Message -> Nat ] /\ delivered'[k] > 0
      /\ \A m \in Message : delivered[m] > 0 => delivered'[m] > 0
      /\ \A m \in Message \ { k } : delivered'[m] = delivered[m]
  BY <1>1, <1>2
<1>7. \A g \in Handler : \A m \in Message : Working(g, m) => Working(g, m)'
  BY <1>1, <1>2, <1>3 DEF Accept, Working, Waits, Webhook
<1>8. Dealt(k)' \/ \E g \in Handler : Working(g, k)'
  <2>1. CASE Accept(h, k)
    <3>1. turn'[h].at = "session" /\ turn'[h].msg = k
      BY <1>1, <2>1 DEF Accept, Turn
    <3>2. QED
      BY <3>1 DEF Working, Waits, Webhook
  <2>2. CASE k \in marked \cup memory
    <3>1. Dealt(k) \/ \E g \in Handler : Working(g, k)
      BY <2>2 DEF Answered
    <3>2. QED
      BY <1>4, <1>7, <3>1
  <2>3. QED
    BY <1>3, <2>1, <2>2
<1>9. Answered'
  <2>1. marked' \cup memory' \subseteq { m \in Message : delivered'[m] > 0 }
    BY <1>2, <1>6 DEF Answered
  <2>2. ASSUME NEW m \in Message, delivered'[m] > 0
        PROVE  Dealt(m)' \/ \E g \in Handler : Working(g, m)'
    BY <1>4, <1>6, <1>7, <1>8, <2>2 DEF Answered
  <2>3. QED
    BY <2>1, <2>2 DEF Answered
<1>10. QED
  BY <1>5, <1>9

LEMMA AnsweredReceive ==
  ASSUME Types, Answered, Stored, NEW h \in Handler, Receiving(h)
  PROVE  Answered' /\ Stored'
<1>1. /\ turn \in [ Handler -> Turn ] /\ rx \in [ Handler -> Rx ] /\ turn[h] \in Turn
      /\ turn[h].at \in Webhook /\ turn[h].msg \in Message /\ rx[h].at = "idle"
  BY HandlerFacts DEF Receiving, FindSession, OpenSession, WebhookFails, Enter, Webhook, Sound
<1>2. UNCHANGED << delivered, marked, memory, sent, saved >> /\ excused \subseteq excused'
  BY DEF Receiving, FindSession, OpenSession, WebhookFails, Enter, dedup, replies, Excuse
<1>3. \A g \in Handler \ { h } : turn'[g] = turn[g] /\ rx'[g] = rx[g]
  <2>1. turn' = [ turn EXCEPT ![h] = turn'[h] ] /\ rx' = [ rx EXCEPT ![h] = rx'[h] ]
    BY <1>1 DEF Receiving, FindSession, OpenSession, WebhookFails, Enter, To
  <2>2. QED
    BY <1>1, <2>1
<1> PICK k \in Message : k = turn[h].msg
  BY <1>1
<1>4. Working(h, k)' \/ k \in excused'
  <2>1. CASE FindSession(h) \/ OpenSession(h)
    BY <1>1, <2>1 DEF FindSession, OpenSession, To, Turn, Working, Waits, Webhook
  <2>2. CASE WebhookFails(h)
    BY <2>2 DEF WebhookFails, Excuse
  <2>3. CASE Enter(h)
    BY <1>1, <2>3 DEF Enter, IdleRx, Rx, Working
  <2>4. QED
    BY <2>1, <2>2, <2>3 DEF Receiving
<1>5. Grows
  BY <1>2 DEF Grows
<1>6. \A g \in Handler : \A m \in Message : Working(g, m) => Working(g, m)' \/ Dealt(m)'
  <2>1. ASSUME NEW g \in Handler, NEW m \in Message, Working(g, m)
        PROVE  Working(g, m)' \/ Dealt(m)'
    <3>1. CASE g = h
      BY <1>1, <1>4, <2>1, <3>1 DEF Working, Waits, Dealt
    <3>2. CASE g # h
      BY <1>3, <2>1, <3>2 DEF Working, Waits
    <3>3. QED
      BY <3>1, <3>2
  <2>2. QED
    BY <2>1
<1>7. \A g \in Handler : \A m \in Message : \A x : Carries(g, m, x) => Carries(g, m, x)'
  BY <1>1, <1>3 DEF Carries
<1>8. Answered'
  BY <1>2, <1>5, <1>6, AnsweredKept
<1>9. Stored'
  BY <1>2, <1>5, <1>7, StoredKept
<1>10. QED
  BY <1>8, <1>9

LEMMA AnsweredReply ==
  ASSUME Types, Answered, Stored, NEW h \in Handler, Replying(h)
  PROVE  Answered' /\ Stored'
<1>1. /\ rx \in [ Handler -> Rx ] /\ rx[h] \in Rx /\ rx[h].at # "idle" /\ rx[h].msg \in Message
      /\ Sound(turn[h], rx[h]) /\ Heard(turn[h], rx[h], excused)
      /\ sent \in [ Message -> SUBSET (Text \cup { "error" }) ]
  BY HandlerFacts DEF Replying, Consume, GiveUp, Send, SendError, Sound, Types, Stores
<1>2. UNCHANGED << delivered, marked, memory, saved, turn >> /\ excused \subseteq excused'
  BY DEF Replying, Consume, GiveUp, Send, SendError, dedup, replies, Excuse
<1>3. \A g \in Handler \ { h } : rx'[g] = rx[g]
  BY <1>1 DEF Replying, Consume, GiveUp, Send, SendError, ToRx, RxDone
<1>4. \A m \in Message : sent[m] \subseteq sent'[m]
  <2>1. \/ sent' = sent
        \/ sent' = [ sent EXCEPT ![rx[h].msg] = @ \cup rx[h].content ]
        \/ sent' = [ sent EXCEPT ![rx[h].msg] = @ \cup { "error" } ]
    BY DEF Replying, Consume, GiveUp, Send, SendError, replies
  <2>2. QED
    BY <1>1, <2>1
<1>5. Grows
  BY <1>2, <1>4 DEF Grows
<1> PICK k \in Message : k = rx[h].msg
  BY <1>1
<1> DEFINE Hands == rx'[h].at \in { "reply", "error" } /\ rx'[h].msg = k
<1>6. Hands \/ Dealt(k)'
  <2>1. CASE Consume(h)
    BY <1>1, <1>2, <2>1 DEF Consume, ToRx, RxDone, Heard, Dealt, Rx
  <2>2. CASE GiveUp(h)
    BY <1>1, <2>2 DEF GiveUp, Excuse, Dealt
  <2>3. CASE Send(h)
    <3>1. rx[h].content # {}
      BY <1>1, <2>3 DEF Send, Sound
    <3>2. QED
      BY <1>1, <2>3, <3>1 DEF Send, Excuse, Dealt
  <2>4. CASE SendError(h)
    BY <1>1, <2>4 DEF SendError, Excuse, Dealt
  <2>5. QED
    BY <2>1, <2>2, <2>3, <2>4 DEF Replying
<1>7. ASSUME NEW x, Carries(h, k, x) PROVE Carries(h, k, x)' \/ Passed(k, x)'
  <2>1. CASE Consume(h)
    BY <1>1, <1>7, <2>1 DEF Consume, ToRx, Carries, Rx
  <2>2. CASE GiveUp(h)
    BY <1>1, <2>2 DEF GiveUp, Excuse, Passed
  <2>3. CASE Send(h)
    BY <1>1, <1>7, <2>3 DEF Send, Excuse, Passed, Carries
  <2>4. CASE SendError(h)
    BY <1>7, <2>4 DEF SendError, Carries
  <2>5. QED
    BY <2>1, <2>2, <2>3, <2>4 DEF Replying
<1>8. \A g \in Handler : \A m \in Message : Working(g, m) => Working(g, m)' \/ Dealt(m)'
  <2>1. ASSUME NEW g \in Handler, NEW m \in Message, Working(g, m)
        PROVE  Working(g, m)' \/ Dealt(m)'
    <3>1. CASE g # h \/ Waits(g, m)
      BY <1>2, <1>3, <2>1, <3>1 DEF Working, Waits
    <3>2. CASE g = h /\ m = k
      BY <1>6, <3>2 DEF Working
    <3>3. QED
      BY <2>1, <3>1, <3>2 DEF Working
  <2>2. QED
    BY <2>1
<1>9. \A g \in Handler : \A m \in Message : \A x :
        Carries(g, m, x) => Carries(g, m, x)' \/ Passed(m, x)'
  <2>1. ASSUME NEW g \in Handler, NEW m \in Message, NEW x, Carries(g, m, x)
        PROVE  Carries(g, m, x)' \/ Passed(m, x)'
    <3>1. CASE g # h
      BY <1>3, <2>1, <3>1 DEF Carries
    <3>2. CASE g = h /\ m = k
      BY <1>7, <2>1, <3>2
    <3>3. QED
      BY <2>1, <3>1, <3>2 DEF Carries
  <2>2. QED
    BY <2>1
<1>10. Answered'
  BY <1>2, <1>5, <1>8, AnsweredKept
<1>11. Stored'
  BY <1>2, <1>5, <1>9, StoredKept
<1>12. QED
  BY <1>10, <1>11

LEMMA AnsweredCrash == ASSUME Types, Answered, Stored, Crash PROVE Answered' /\ Stored'
<1>1. UNCHANGED << delivered, marked, sent, saved >> /\ memory' = {}
  BY DEF Crash
<1>2. excused \subseteq excused'
  BY DEF Crash
<1>3. Grows
  BY <1>1, <1>2 DEF Grows
<1>4. \A h \in Handler : { turn[h].msg, rx[h].msg } \ { None } \subseteq excused'
  BY DEF Crash, InFlight
<1>5. \A h \in Handler : \A m \in Message :
        (Working(h, m) \/ \E x : Carries(h, m, x)) => m \in excused'
  BY <1>4, NoneAssumption DEF Working, Waits, Carries
<1>6. Answered'
  BY <1>1, <1>3, <1>5, AnsweredKept DEF Dealt
<1>7. Stored'
  BY <1>1, <1>3, <1>5, StoredKept DEF Passed
<1>8. QED
  BY <1>6, <1>7

LEMMA AnsweredHolds == Spec => [](Answered /\ Stored)
<1>1. Init => Answered /\ Stored
  BY DEF Init, Answered, Stored
<1>2. Types /\ Answered /\ Stored /\ [Next]_vars => (Answered /\ Stored)'
  <2>1. SUFFICES ASSUME Types, Answered, Stored, [Next]_vars PROVE Answered' /\ Stored'
    OBVIOUS
  <2>2. CASE UNCHANGED vars
    BY <2>1, <2>2 DEF vars, dedup, sops, replies, Answered, Stored, Working, Waits, Carries,
                      Dealt, Passed
  <2>3. QED
    BY <2>1, <2>2, AnsweredCrash, AnsweredDeliver, AnsweredReceive, AnsweredEngine,
       AnsweredReply DEF Next
<1>3. QED
  BY <1>1, <1>2, TypesHold, PTL DEF Spec

\* A delivered message for which nothing is done any more has been answered, in
\* words or by an error, unless the webhook, the sending or the process failed, the
\* consumer's time was up or the model answered with nothing.  An exception within
\* the turn and a turn out of rounds are no excuse: the error they end in is sent,
\* or the words that a blocked round had streamed.
THEOREM MessagesAreAnswered == Spec => []AnsweredOrExcused
<1>1. Answered => AnsweredOrExcused
  BY DEF Answered, AnsweredOrExcused, Dealt, Working, Waits, Over, InFlight
<1>2. QED
  BY <1>1, AnsweredHolds, PTL

\* What the conversation shows as the reply to a message was sent to its user,
\* under the same excuses.
THEOREM StoredRepliesAreSent == Spec => []SavedIsSent
<1>1. Stored => SavedIsSent
  BY DEF Stored, SavedIsSent, Passed, Carries, Over, InFlight
<1>2. QED
  BY <1>1, AnsweredHolds, PTL

-------------------------------------------------------------------------------
(* A turn is known by its message and its number; it knows the SOPs it has *)
(* triggered, and what it saw was no reason to refuse.                     *)

Same(h, e) == execs[e].msg = turn[h].msg /\ execs[e].nr = turn[h].nr
Alike(d, s, m) == execs[d].sop = s /\ execs[d].exact /\ TextOf[execs[d].msg] = TextOf[m]

Triggering(h) ==
  /\ turn[h].sop \in turn[h].done /\ turn[h].saw \subseteq DOMAIN execs
  /\ \A e \in DOMAIN execs : Same(h, e) => execs[e].sop # turn[h].sop
  /\ \A d \in turn[h].saw : ~Alike(d, turn[h].sop, turn[h].msg)

TurnKnown(h) ==
  /\ turn[h].nr \in 1 .. started[turn[h].msg]
  /\ \A e \in DOMAIN execs : Same(h, e) => execs[e].sop \in turn[h].done
  /\ turn[h].at = "trigger" => Triggering(h)

TurnsKnown ==
  /\ \A h \in Handler : turn[h].at \in Engine => TurnKnown(h)
  /\ \A g, h \in Handler :
       /\ turn[g].at \in Engine /\ turn[h].at \in Engine
       /\ turn[g].msg = turn[h].msg /\ turn[g].nr = turn[h].nr
       => g = h

ExecsKnown ==
  /\ \A e \in DOMAIN execs : execs[e].nr \in 1 .. started[execs[e].msg]
  /\ \A e \in DOMAIN execs : \A d \in execs[e].saw :
       d \in DOMAIN execs /\ ~Alike(d, execs[e].sop, execs[e].msg)
  /\ \A d, e \in DOMAIN execs : d # e /\ SameTurn(d, e) => execs[d].sop # execs[e].sop

\* A turn of the engine that was there before, and still triggers what it did.
StillThere(h) ==
  /\ turn[h].at \in Engine
  /\ turn'[h].msg = turn[h].msg /\ turn'[h].nr = turn[h].nr /\ turn'[h].done = turn[h].done
  /\ turn'[h].at = "trigger" => turn'[h] = turn[h]

LEMMA KnownKept ==
  ASSUME TurnsKnown, ExecsKnown, UNCHANGED << execs, started >>,
         \A h \in Handler : turn'[h].at \in Engine => StillThere(h)
  PROVE  TurnsKnown' /\ ExecsKnown'
<1>1. ExecsKnown'
  BY DEF ExecsKnown, Alike, SameTurn
<1>2. ASSUME NEW h \in Handler, turn'[h].at \in Engine PROVE TurnKnown(h)'
  <2>1. StillThere(h) /\ TurnKnown(h)
    BY <1>2 DEF TurnsKnown, StillThere
  <2>2. turn'[h].at = "trigger" => Triggering(h)'
    BY <2>1 DEF StillThere, TurnKnown, Triggering, Same, Alike
  <2>3. QED
    BY <2>1, <2>2 DEF StillThere, TurnKnown, Same
<1>3. QED
  BY <1>1, <1>2 DEF TurnsKnown, StillThere

\* All that start no turn and trigger nothing.
LEMMA KnownElse ==
  ASSUME Types, NEW h \in Handler,
         \/ \E m \in Message : Deliver(h, m)
         \/ FindSession(h) \/ OpenSession(h) \/ WebhookFails(h)
         \/ AskForTools(h) \/ AnswerNothing(h) \/ (\E text \in Text : Answer(h, text))
         \/ Block(h) \/ Save(h) \/ EndRound(h) \/ Throw(h) \/ CloseWithError(h)
         \/ Replying(h)
  PROVE  /\ UNCHANGED << execs, started >>
         /\ \A g \in Handler : turn'[g].at \in Engine => StillThere(g)
<1>1. turn \in [ Handler -> Turn ] /\ turn[h] \in Turn
  BY HandlerFacts
<1>2. UNCHANGED << execs, started >>
  BY DEF Deliver, SetIfAbsent, Remember, Accept, Drop, FindSession, OpenSession, WebhookFails,
         AskForTools, AnswerNothing, Answer, Block, Save, EndRound, Throw, CloseWithError,
         Replying, Consume, GiveUp, Send, SendError, sops
<1>3. \A g \in Handler \ { h } : turn'[g] = turn[g]
  BY <1>1 DEF Deliver, SetIfAbsent, Remember, Accept, Drop, FindSession, OpenSession,
         WebhookFails, AskForTools, AnswerNothing, Answer, Block, Save, EndRound, Throw,
         CloseWithError, Replying, Consume, GiveUp, Send, SendError, To, NextRound
<1>4. turn'[h].at \in Engine => StillThere(h)
  <2>1. ASSUME NEW m \in Message, Deliver(h, m)
        PROVE  turn'[h] = turn[h] \/ turn'[h].at \notin Engine
    BY <1>1, <2>1 DEF Deliver, SetIfAbsent, Remember, Accept, Drop, Turn, Engine
  <2>2. ASSUME FindSession(h) \/ OpenSession(h)
        PROVE  turn'[h].at \notin Engine
    BY <1>1, <2>2 DEF FindSession, OpenSession, To, Turn, Engine
  <2>3. ASSUME WebhookFails(h) \/ AnswerNothing(h) \/ Save(h) \/ CloseWithError(h)
        PROVE  turn'[h].at \notin Engine
    BY <1>1, <2>3 DEF WebhookFails, AnswerNothing, Save, CloseWithError, IdleTurn, Engine
  <2>4. ASSUME Replying(h) PROVE turn'[h] = turn[h]
    BY <2>4 DEF Replying, Consume, GiveUp, Send, SendError
  <2>5. ASSUME AskForTools(h) \/ Throw(h) PROVE StillThere(h)
    BY <1>1, <2>5 DEF AskForTools, Throw, To, StillThere, Turn, Engine
  <2>6. ASSUME Block(h) \/ EndRound(h) PROVE StillThere(h)
    BY <1>1, <2>6 DEF Block, EndRound, NextRound, To, StillThere, Turn, Engine
  <2>7. ASSUME NEW text \in Text, Answer(h, text) PROVE StillThere(h)
    BY <1>1, <2>7 DEF Answer, StillThere, Turn, Engine
  <2>8. QED
    BY <2>1, <2>2, <2>3, <2>4, <2>5, <2>6, <2>7 DEF StillThere
<1>5. QED
  BY <1>2, <1>3, <1>4 DEF StillThere

LEMMA KnownEnter ==
  ASSUME Types, TurnsKnown, ExecsKnown, NEW h \in Handler, Enter(h)
  PROVE  TurnsKnown' /\ ExecsKnown'
<1>1. /\ turn \in [ Handler -> Turn ] /\ turn[h] \in Turn /\ turn[h].at = "enter"
      /\ turn[h].msg \in Message /\ started \in [ Message -> Nat ]
  BY HandlerFacts DEF Enter, Sound, Types, Stores
<1> PICK k \in Message : k = turn[h].msg
  BY <1>1
<1>2. started' = [ started EXCEPT ![k] = @ + 1 ] /\ UNCHANGED execs
  BY DEF Enter, sops
<1>3. \A m \in Message : started[m] \in Nat /\ started'[m] \in { started[m], started[m] + 1 }
  BY <1>1, <1>2
<1>4. \A m \in Message : \A n : n \in 1 .. started[m] => n \in 1 .. started'[m]
  BY <1>3
<1>5. execs \in Seq(Exec) /\ \A e \in DOMAIN execs : execs[e] \in Exec
  BY DEF Types, Stores
<1>6. \A e \in DOMAIN execs : execs[e].msg \in Message
  BY <1>5 DEF Exec
<1>7. ExecsKnown'
  <2>1. \A e \in DOMAIN execs : execs'[e].nr \in 1 .. started'[execs'[e].msg]
    BY <1>2, <1>4, <1>6 DEF ExecsKnown
  <2>2. QED
    BY <1>2, <2>1 DEF ExecsKnown, Alike, SameTurn
<1>8. \A g \in Handler \ { h } : turn'[g] = turn[g]
  BY <1>1 DEF Enter
<1>9. turn'[h].at \in Engine =>
        turn'[h].at = "llm" /\ turn'[h].msg = k /\ turn'[h].nr = started[k] + 1
  <2>1. turn' = [ turn EXCEPT ![h] = IdleTurn ]
        \/ turn' = [ turn EXCEPT ![h].at = "llm", ![h].nr = started[k] + 1 ]
    BY DEF Enter
  <2>2. IdleTurn.at \notin Engine
    BY DEF IdleTurn, Engine
  <2>3. QED
    BY <1>1, <2>1, <2>2 DEF Turn
<1>10. started[k] + 1 \in 1 .. started'[k] /\ \A n \in 1 .. started[k] : n # started[k] + 1
  BY <1>1, <1>2, <1>3
<1>11. ASSUME NEW g \in Handler, turn'[g].at \in Engine PROVE TurnKnown(g)'
  <2>1. CASE g = h
    <3>1. turn'[g].nr \in 1 .. started'[turn'[g].msg] /\ turn'[g].at # "trigger"
      BY <1>9, <1>10, <1>11, <2>1
    <3>2. \A e \in DOMAIN execs' : ~Same(g, e)'
      BY <1>2, <1>9, <1>10, <1>11, <2>1 DEF ExecsKnown, Same
    <3>3. QED
      BY <3>1, <3>2 DEF TurnKnown
  <2>2. CASE g # h
    <3>1. TurnKnown(g) /\ turn'[g] = turn[g] /\ turn[g].msg \in Message
      BY <1>8, <1>11, <2>2, HandlerFacts DEF TurnsKnown, Sound, Engine
    <3>2. turn'[g].nr \in 1 .. started'[turn'[g].msg]
      BY <1>4, <3>1 DEF TurnKnown
    <3>3. turn'[g].at = "trigger" => Triggering(g)'
      BY <1>2, <3>1 DEF TurnKnown, Triggering, Same, Alike
    <3>4. QED
      BY <1>2, <3>1, <3>2, <3>3 DEF TurnKnown, Same
  <2>3. QED
    BY <2>1, <2>2
<1>12. ASSUME NEW f \in Handler, NEW g \in Handler, turn'[f].at \in Engine, turn'[g].at \in Engine,
              turn'[f].msg = turn'[g].msg, turn'[f].nr = turn'[g].nr
       PROVE  f = g
  <2>1. \A i \in Handler \ { h } : turn'[i].at \in Engine /\ turn'[i].msg = k =>
           turn'[i].nr \in 1 .. started[k]
    BY <1>8 DEF TurnsKnown, TurnKnown
  <2>2. CASE f = h \/ g = h
    BY <1>9, <1>10, <1>12, <2>1, <2>2
  <2>3. CASE f # h /\ g # h
    BY <1>8, <1>12, <2>3 DEF TurnsKnown
  <2>4. QED
    BY <2>2, <2>3
<1>13. TurnsKnown'
  BY <1>11, <1>12 DEF TurnsKnown
<1>14. QED
  BY <1>7, <1>13

LEMMA KnownCall ==
  ASSUME Types, TurnsKnown, ExecsKnown, NEW h \in Handler, NEW s \in Sop, CallSop(h, s)
  PROVE  TurnsKnown' /\ ExecsKnown'
<1>1. PICK old \in aged .. Len(execs) :
        /\ ~Refused(h, s, old + 1 .. Len(execs))
        /\ turn' = [ turn EXCEPT ![h].at = "trigger", ![h].sop = s,
                                 ![h].saw = old + 1 .. Len(execs),
                                 ![h].done = @ \cup { s }, ![h].called = TRUE ]
  BY DEF CallSop
<1> DEFINE recent == old + 1 .. Len(execs)
<1>2. /\ turn \in [ Handler -> Turn ] /\ turn[h] \in Turn /\ turn[h].at \in Engine
      /\ execs \in Seq(Exec) /\ old \in 0 .. Len(execs)
  BY HandlerFacts DEF CallSop, Engine, Types, Stores
<1>3. recent \subseteq DOMAIN execs
  BY <1>2
<1>4. UNCHANGED << execs, started >>
  BY DEF CallSop
<1>5. s \notin turn[h].done /\ \A d \in recent : ~Alike(d, s, turn[h].msg)
  BY <1>1 DEF Refused, Repeats, Alike
<1>6. /\ turn'[h].msg = turn[h].msg /\ turn'[h].nr = turn[h].nr /\ turn'[h].sop = s
      /\ turn'[h].saw = recent /\ turn'[h].done = turn[h].done \cup { s }
      /\ turn'[h].at = "trigger"
  BY <1>1, <1>2 DEF Turn
<1>7. \A g \in Handler \ { h } : turn'[g] = turn[g]
  BY <1>1, <1>2
<1> HIDE DEF recent
<1>8. ExecsKnown'
  BY <1>4 DEF ExecsKnown, Alike, SameTurn
<1>9. TurnKnown(h) /\ TurnKnown(h)'
  <2>1. TurnKnown(h)
    BY <1>2 DEF TurnsKnown
  <2>2. \A e \in DOMAIN execs : Same(h, e)' <=> Same(h, e)
    BY <1>4, <1>6 DEF Same
  <2>3. Triggering(h)'
    BY <1>3, <1>4, <1>5, <1>6, <2>1, <2>2 DEF Triggering, TurnKnown, Alike
  <2>4. QED
    BY <1>4, <1>6, <2>1, <2>2, <2>3 DEF TurnKnown
<1>10. ASSUME NEW g \in Handler \ { h }, turn'[g].at \in Engine PROVE TurnKnown(g)'
  BY <1>4, <1>7, <1>10 DEF TurnsKnown, TurnKnown, Triggering, Same, Alike
<1>11. TurnsKnown'
  BY <1>2, <1>6, <1>7, <1>9, <1>10 DEF TurnsKnown
<1>12. QED
  BY <1>8, <1>11

LEMMA KnownTrigger ==
  ASSUME Types, TurnsKnown, ExecsKnown, NEW h \in Handler, TriggerSop(h)
  PROVE  TurnsKnown' /\ ExecsKnown'
<1>1. /\ turn \in [ Handler -> Turn ] /\ turn[h] \in Turn /\ turn[h].at = "trigger"
      /\ turn[h].at \in Engine /\ execs \in Seq(Exec) /\ Len(execs) \in Nat
      /\ DOMAIN execs = 1 .. Len(execs)
  BY HandlerFacts DEF TriggerSop, Engine, Types, Stores
<1>2. /\ turn' = [ turn EXCEPT ![h].at = "tools", ![h].sop = None, ![h].saw = {} ]
      /\ UNCHANGED started
  BY DEF TriggerSop
<1>3. /\ turn'[h].msg = turn[h].msg /\ turn'[h].nr = turn[h].nr
      /\ turn'[h].done = turn[h].done /\ turn'[h].at = "tools"
      /\ \A g \in Handler \ { h } : turn'[g] = turn[g]
  BY <1>1, <1>2 DEF Turn
<1>4. CASE UNCHANGED execs
  BY <1>1, <1>2, <1>3, <1>4, KnownKept DEF StillThere
<1>5. ASSUME NEW exact \in BOOLEAN,
             execs' = Append(execs, [ sop |-> turn[h].sop, msg |-> turn[h].msg,
                                      nr |-> turn[h].nr, exact |-> exact,
                                      saw |-> turn[h].saw ])
      PROVE  TurnsKnown' /\ ExecsKnown'
  <2> DEFINE x == [ sop |-> turn[h].sop, msg |-> turn[h].msg, nr |-> turn[h].nr,
                    exact |-> exact, saw |-> turn[h].saw ]
  <2> PICK n \in Nat : n = Len(execs) + 1
    BY <1>1
  <2>1. /\ x.sop = turn[h].sop /\ x.msg = turn[h].msg /\ x.nr = turn[h].nr
        /\ x.saw = turn[h].saw /\ execs' = Append(execs, x)
    BY <1>5
  <2> HIDE DEF x
  <2>2. /\ DOMAIN execs' = DOMAIN execs \cup { n } /\ n \notin DOMAIN execs
        /\ execs'[n] = x /\ \A e \in DOMAIN execs : execs'[e] = execs[e]
    BY <1>1, <2>1
  <2>3. TurnKnown(h) /\ Triggering(h)
    BY <1>1 DEF TurnsKnown, TurnKnown
  <2>4. ExecsKnown'
    <3>1. \A e \in DOMAIN execs' : execs'[e].nr \in 1 .. started'[execs'[e].msg]
      BY <1>2, <2>1, <2>2, <2>3 DEF ExecsKnown, TurnKnown
    <3>2. \A e \in DOMAIN execs' : \A d \in execs'[e].saw :
            d \in DOMAIN execs' /\ ~Alike(d, execs[e].sop, execs[e].msg)'
      <4>1. ASSUME NEW e \in DOMAIN execs, NEW d \in execs[e].saw
            PROVE  d \in DOMAIN execs' /\ ~Alike(d, execs[e].sop, execs[e].msg)'
        BY <2>2, <4>1 DEF ExecsKnown, Alike
      <4>2. ASSUME NEW d \in x.saw
            PROVE  d \in DOMAIN execs' /\ ~Alike(d, execs[n].sop, execs[n].msg)'
        BY <2>1, <2>2, <2>3, <4>2 DEF Triggering, Alike
      <4>3. QED
        BY <2>2, <4>1, <4>2
    <3>3. \A e \in DOMAIN execs : Same(h, e) => execs[e].sop # x.sop
      BY <2>1, <2>3 DEF Triggering
    <3>4. \A d, e \in DOMAIN execs' :
            d # e /\ SameTurn(d, e)' => execs'[d].sop # execs'[e].sop
      BY <2>1, <2>2, <3>3 DEF ExecsKnown, SameTurn, Same
    <3>5. QED
      BY <3>1, <3>2, <3>4 DEF ExecsKnown
  <2>5. ASSUME NEW g \in Handler, turn'[g].at \in Engine PROVE TurnKnown(g)'
    <3>1. CASE g = h
      <4>1. \A e \in DOMAIN execs' : Same(h, e)' => execs'[e].sop \in turn[h].done
        BY <1>3, <2>1, <2>2, <2>3 DEF TurnKnown, Triggering, Same
      <4>2. QED
        BY <1>2, <1>3, <2>3, <3>1, <4>1 DEF TurnKnown
    <3>2. CASE g # h
      <4>1. turn'[g] = turn[g] /\ TurnKnown(g)
        BY <1>3, <2>5, <3>2 DEF TurnsKnown
      <4>2. ~Same(g, n)'
        BY <1>1, <2>1, <2>2, <2>5, <3>2, <4>1 DEF TurnsKnown, Same
      <4>3. \A e \in DOMAIN execs' : Same(g, e)' => e \in DOMAIN execs /\ Same(g, e)
        BY <2>2, <4>1, <4>2 DEF Same
      <4>4. turn'[g].at = "trigger" => Triggering(g)'
        BY <2>2, <4>1, <4>3 DEF TurnKnown, Triggering, Alike
      <4>5. QED
        BY <1>2, <2>2, <4>1, <4>3, <4>4 DEF TurnKnown
    <3>3. QED
      BY <3>1, <3>2
  <2>6. TurnsKnown'
    BY <1>1, <1>3, <2>5 DEF TurnsKnown
  <2>7. QED
    BY <2>4, <2>6
<1>6. QED
  BY <1>4, <1>5 DEF TriggerSop

LEMMA KnownHolds == Spec => [](TurnsKnown /\ ExecsKnown)
<1>1. Init => TurnsKnown /\ ExecsKnown
  <2> SUFFICES ASSUME Init PROVE TurnsKnown /\ ExecsKnown
    OBVIOUS
  <2>1. DOMAIN execs = {}
    BY DEF Init
  <2>2. \A h \in Handler : turn[h].at \notin Engine
    BY DEF Init, IdleTurn, Engine
  <2>3. QED
    BY <2>1, <2>2 DEF TurnsKnown, ExecsKnown
<1>2. Types /\ TurnsKnown /\ ExecsKnown /\ [Next]_vars => (TurnsKnown /\ ExecsKnown)'
  <2> DEFINE Kept == TurnsKnown' /\ ExecsKnown'
  <2>1. SUFFICES ASSUME Types, TurnsKnown, ExecsKnown, [Next]_vars PROVE Kept
    OBVIOUS
  <2>2. ASSUME NEW h \in Handler, Enter(h) PROVE Kept
    BY <2>1, <2>2, KnownEnter
  <2>3. ASSUME NEW h \in Handler, NEW s \in Sop, CallSop(h, s) PROVE Kept
    BY <2>1, <2>3, KnownCall
  <2>4. ASSUME NEW h \in Handler, TriggerSop(h) PROVE Kept
    BY <2>1, <2>4, KnownTrigger
  <2>5. CASE Crash
    <3>1. UNCHANGED << execs, started >> /\ \A h \in Handler : turn'[h].at \notin Engine
      BY <2>5 DEF Crash, sops, IdleTurn, Engine
    <3>2. QED
      BY <2>1, <3>1, KnownKept
  <2>6. CASE UNCHANGED vars
    <3>1. UNCHANGED << execs, started, turn >>
      BY <2>6 DEF vars, sops
    <3>2. QED
      BY <2>1, <3>1, KnownKept DEF StillThere
  <2>7. ASSUME NEW h \in Handler,
               \/ \E m \in Message : Deliver(h, m)
               \/ FindSession(h) \/ OpenSession(h) \/ WebhookFails(h)
               \/ AskForTools(h) \/ AnswerNothing(h) \/ (\E text \in Text : Answer(h, text))
               \/ Block(h) \/ Save(h) \/ EndRound(h) \/ Throw(h) \/ CloseWithError(h)
               \/ Replying(h)
        PROVE  Kept
    <3>1. /\ UNCHANGED << execs, started >>
          /\ \A g \in Handler : turn'[g].at \in Engine => StillThere(g)
      BY <2>1, <2>7, KnownElse
    <3>2. QED
      BY <2>1, <3>1, KnownKept
  <2> HIDE DEF Kept
  <2>8. QED
    BY <2>1, <2>2, <2>3, <2>4, <2>5, <2>6, <2>7 DEF Next, Receiving, Modelling, Turning
<1>3. QED
  BY <1>1, <1>2, TypesHold, PTL DEF Spec

\* A turn triggers no SOP twice; that one SOP is triggered twice for the same
\* words takes a second turn of the message, and so a lost mark, or a turn that
\* did not see the first execution, or one stored in other words (engine.ts).
THEOREM SopsRepeatForAReason == Spec => []RepeatsExplained
<1>1. Types /\ Once /\ TurnsKnown /\ ExecsKnown => RepeatsExplained
  <2> SUFFICES ASSUME Types, Once, ExecsKnown, NEW d \in DOMAIN execs, NEW e \in DOMAIN execs
               PROVE  /\ d # e /\ SameTurn(d, e) => execs[d].sop # execs[e].sop
                      /\ Again(d, e) =>
                           /\ execs[d].msg = execs[e].msg => execs[d].msg \in lapsed
                           /\ d \in execs[e].saw => ~execs[d].exact
    BY DEF RepeatsExplained
  <2>1. d # e /\ SameTurn(d, e) => execs[d].sop # execs[e].sop
    BY DEF ExecsKnown
  <2>2. ASSUME Again(d, e), execs[d].msg = execs[e].msg PROVE execs[d].msg \in lapsed
    <3>1. execs \in Seq(Exec) /\ execs[d] \in Exec /\ execs[e] \in Exec /\ d \in Nat /\ e \in Nat
      BY DEF Types, Stores
    <3>2. d # e /\ execs[d].sop = execs[e].sop
      BY <2>2, <3>1 DEF Again
    <3>3. execs[d].nr # execs[e].nr
      BY <2>1, <2>2, <3>2 DEF SameTurn
    <3>4. /\ execs[d].msg \in Message /\ execs[d].nr \in Nat /\ execs[e].nr \in Nat
          /\ started[execs[d].msg] \in Nat
      BY <3>1 DEF Exec, Types, Stores
    <3>5. execs[d].nr \in 1 .. started[execs[d].msg] /\ execs[e].nr \in 1 .. started[execs[d].msg]
      BY <2>2 DEF ExecsKnown
    <3>6. ~(started[execs[d].msg] <= 1)
      BY <3>3, <3>4, <3>5
    <3>7. QED
      BY <3>4, <3>6 DEF Once, OnceFor
  <2>3. ASSUME Again(d, e), d \in execs[e].saw PROVE ~execs[d].exact
    BY <2>3 DEF ExecsKnown, Alike, Again
  <2>4. QED
    BY <2>1, <2>2, <2>3
<1>2. QED
  BY <1>1, TypesHold, OnceHolds, KnownHolds, PTL
===============================================================================
