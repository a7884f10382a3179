------------------------------ MODULE Conversation ------------------------------
(***************************************************************************)
(* A message of a channel user on its way through the platform: the        *)
(* webhook pipeline (lib/channels/webhook-handler.ts) drops duplicates,    *)
(* finds the user's conversation and starts a turn of the conversation     *)
(* engine (lib/conversation/engine.ts), which calls the language model and *)
(* the tools it asks for, round by round, and streams what it says to the  *)
(* consumer (lib/channels/sse-consumer.ts) that answers the user.          *)
(*                                                                         *)
(* One user writes to one digital employee, over a channel that is         *)
(* answered in the background.  A handler is one delivery of a message.    *)
(* What becomes of a triggered SOP, and who delivers its result, is in     *)
(* ResultDelivery.                                                         *)
(***************************************************************************)
EXTENDS Naturals, Sequences, FiniteSetsExt

CONSTANTS
  Handler,        \* deliveries that are handled at one time
  Message,        \* messages of the user, by their id in the channel
  TextOf,         \* what each of them says
  Sop,            \* the SOPs the employee may run
  None,           \* no message or SOP
  MaxRounds,      \* rounds of one turn; 5 in the code
  MaxDeliveries,  \* bound: deliveries of all messages
  MaxExecs,       \* bound: executions
  MaxFaults       \* bound: exceptions, crashes, failing requests

ASSUME NoneAssumption == None \notin Message \cup Sop
ASSUME NumberAssumption ==
  /\ MaxRounds \in Nat \ {0}
  /\ MaxDeliveries \in Nat \ {0} /\ MaxExecs \in Nat /\ MaxFaults \in Nat

VARIABLES
  redis,      \* whether Redis is configured
  delivered,  \* how often the channel has delivered each message
  marked,     \* the dedup keys in Redis
  memory,     \* the dedup cache of the process
  lapsed,     \* messages whose mark was lost, or looked for in the other store
  started,    \* how many turns each message has started
  sessions,   \* rows of channel_sessions for the user: conversations he has
  turn,       \* each handler's turn of the engine
  rx,         \* each handler's consumer of that turn's stream
  execs,      \* the SOP executions triggered, in their order
  aged,       \* how many of them are known to be older than five minutes
  saved,      \* texts of the assistant stored as replies to each message
  sent,       \* texts the user has been sent as replies to each message
  excused,    \* messages that met with a fault, a timeout or an empty answer
  faults

dedup == << redis, delivered, marked, memory, lapsed >>
sops == << execs, aged >>
replies == << saved, sent, excused >>
vars == << dedup, started, sessions, turn, rx, sops, replies, faults >>

\* What the model writes: words the platform lets pass, or the claim that an
\* execution is under way whose id does not exist.
Text == { "plain", "bogus" }

\* Where a turn is, its message, which of the message's turns it is, its round,
\* whether that has called a SOP, the SOPs of the turn, the one it triggers and
\* the executions it has seen, what it answers.
IdleTurn == [ at |-> "idle", msg |-> None, nr |-> 0, round |-> 0, called |-> FALSE,
              done |-> {}, sop |-> None, saw |-> {}, text |-> "plain" ]
\* The consumer: what it has read, whether an error came, whether the stream ended.
IdleRx == [ at |-> "idle", msg |-> None, content |-> {}, err |-> FALSE, ended |-> FALSE ]

Webhook == { "session", "open", "enter" }
Engine == { "llm", "check", "save", "tools", "trigger", "fail" }

InFlight == { turn[h].msg : h \in Handler } \cup { rx[h].msg : h \in Handler }
Free(h) == turn[h].at = "idle" /\ rx[h].at = "idle"

Init ==
  /\ redis \in BOOLEAN
  /\ delivered = [ m \in Message |-> 0 ] /\ started = delivered
  /\ marked = {} /\ memory = {} /\ lapsed = {} /\ sessions = 0
  /\ turn = [ h \in Handler |-> IdleTurn ] /\ rx = [ h \in Handler |-> IdleRx ]
  /\ execs = << >> /\ aged = 0
  /\ saved = [ m \in Message |-> {} ] /\ sent = saved /\ excused = {}
  /\ faults = 0

Fault == faults < MaxFaults /\ faults' = faults + 1
Excuse(m) == excused' = excused \cup { m }
To(h, place) == turn' = [ turn EXCEPT ![h].at = place ]

-------------------------------------------------------------------------------
(* The webhook: deduplication and the session.                             *)

\* A delivery gets past the deduplication.
Accept(h, m) ==
  /\ turn' = [ turn EXCEPT ![h].at = "session", ![h].msg = m ]
  /\ UNCHANGED << started, sessions, rx, sops, replies >>

Drop == UNCHANGED << started, sessions, turn, rx, sops, replies >>

\* Mutant: the key is only looked up.
LookUp(h, m) ==
  IF m \in marked THEN Drop /\ UNCHANGED marked ELSE Accept(h, m) /\ UNCHANGED marked

\* SET key 1 EX 300 NX
SetIfAbsent(h, m) ==
  IF m \in marked THEN Drop /\ UNCHANGED marked
  ELSE marked' = marked \cup { m } /\ Accept(h, m)

\* The Map of the process, without Redis or when Redis fails.
Remember(h, m) ==
  IF m \in memory THEN Drop /\ UNCHANGED memory
  ELSE memory' = memory \cup { m } /\ Accept(h, m)

\* The channel delivers a message, for the first time, or again: at once, or
\* when the mark of the first time is older than five minutes.
Deliver(h, m) ==
  /\ Free(h) /\ MapThenSumSet(LAMBDA n : delivered[n], Message) < MaxDeliveries
  /\ delivered' = [ delivered EXCEPT ![m] = @ + 1 ]
  /\ UNCHANGED redis
  /\ \/ redis /\ SetIfAbsent(h, m) /\ UNCHANGED << memory, lapsed, faults >>
     \/ ~redis /\ Remember(h, m) /\ UNCHANGED << marked, lapsed, faults >>
     \/ /\ redis /\ Fault /\ Remember(h, m) /\ lapsed' = lapsed \cup { m }
        /\ UNCHANGED marked
     \/ /\ m \in IF redis THEN marked ELSE memory
        /\ Accept(h, m) /\ lapsed' = lapsed \cup { m }
        /\ UNCHANGED << marked, memory, faults >>

\* findOrCreateSession: some row of the user, or none yet.
FindSession(h) ==
  /\ turn[h].at = "session"
  /\ To(h, IF sessions > 0 THEN "enter" ELSE "open")
  /\ UNCHANGED << dedup, started, sessions, rx, sops, replies, faults >>

\* The conversation and its session are inserted; nothing forbids a second one.
OpenSession(h) ==
  /\ turn[h].at = "open"
  /\ sessions' = sessions + 1 /\ To(h, "enter")
  /\ UNCHANGED << dedup, started, rx, sops, replies, faults >>

\* The route answers 200 whatever it catches; the mark stays.
WebhookFails(h) ==
  /\ turn[h].at \in { "session", "open" }
  /\ Fault
  /\ turn' = [ turn EXCEPT ![h] = IdleTurn ] /\ Excuse(turn[h].msg)
  /\ UNCHANGED << dedup, started, sessions, rx, sops, saved, sent >>

\* processMessage stores the message, reads the history and returns a stream;
\* what it throws before that is reported to the user.
Enter(h) ==
  /\ turn[h].at = "enter"
  /\ started' = [ started EXCEPT ![turn[h].msg] = @ + 1 ]
  /\ \/ /\ turn' = [ turn EXCEPT ![h].at = "llm", ![h].nr = started[turn[h].msg] + 1 ]
        /\ UNCHANGED faults
        /\ rx' = [ rx EXCEPT ![h] = [ IdleRx EXCEPT !.at = "read", !.msg = turn[h].msg ] ]
     \/ Fault /\ turn' = [ turn EXCEPT ![h] = IdleTurn ]
        /\ rx' = [ rx EXCEPT ![h] = [ IdleRx EXCEPT !.at = "error", !.msg = turn[h].msg ] ]
  /\ UNCHANGED << dedup, sessions, sops, replies >>

-------------------------------------------------------------------------------
(* The engine: runMessageLoop.                                             *)

Reading(h) == rx[h].at = "read" /\ rx[h].msg = turn[h].msg

\* The model answers in words.  They are streamed to the consumer, if it is
\* still there, as soon as they are complete, before anything is checked.
Answer(h, text) ==
  /\ turn[h].at = "llm"
  /\ turn' = [ turn EXCEPT ![h].at = IF text = "bogus" THEN "check" ELSE "save",
                           ![h].text = text ]
  /\ rx' = IF Reading(h) THEN [ rx EXCEPT ![h].content = @ \cup { text } ] ELSE rx
  /\ UNCHANGED << dedup, started, sessions, sops, replies, faults >>

\* The model answers with no words at all; an empty reply is stored.
AnswerNothing(h) ==
  /\ turn[h].at = "llm"
  /\ turn' = [ turn EXCEPT ![h] = IdleTurn ]
  /\ rx' = IF Reading(h) THEN [ rx EXCEPT ![h].ended = TRUE ] ELSE rx
  /\ Excuse(turn[h].msg)
  /\ UNCHANGED << dedup, started, sessions, sops, saved, sent, faults >>

\* Mutant: one round too many.
NextRoundLate(h) ==
  IF turn[h].round < MaxRounds
  THEN turn' = [ turn EXCEPT ![h].at = "llm", ![h].round = @ + 1,
                             ![h].called = FALSE, ![h].text = "plain" ]
  ELSE To(h, "fail")

NextRound(h) ==
  IF turn[h].round + 1 < MaxRounds
  THEN turn' = [ turn EXCEPT ![h].at = "llm", ![h].round = @ + 1,
                             ![h].called = FALSE, ![h].text = "plain" ]
  ELSE To(h, "fail")

\* None of the ids is in sop_executions: the model is told so and asked again.
Block(h) ==
  /\ turn[h].at = "check"
  /\ NextRound(h)
  /\ UNCHANGED << dedup, started, sessions, rx, sops, replies, faults >>

\* The reply is stored and the stream closed.
Save(h) ==
  /\ turn[h].at = "save"
  /\ saved' = [ saved EXCEPT ![turn[h].msg] = @ \cup { turn[h].text } ]
  /\ turn' = [ turn EXCEPT ![h] = IdleTurn ]
  /\ rx' = IF Reading(h) THEN [ rx EXCEPT ![h].ended = TRUE ] ELSE rx
  /\ UNCHANGED << dedup, started, sessions, sops, sent, excused, faults >>

\* The model asks for tools.  Most leave no trace here: workflows, skills,
\* queries, SOPs the user may not run, unknown names.
AskForTools(h) ==
  /\ turn[h].at = "llm" /\ To(h, "tools")
  /\ UNCHANGED << dedup, started, sessions, rx, sops, replies, faults >>

\* An execution the user has triggered with the very words of the message.
Repeats(e, h, s) ==
  execs[e].sop = s /\ execs[e].exact /\ TextOf[execs[e].msg] = TextOf[turn[h].msg]

\* Mutant: what the turn has triggered is looked up in the table only.
RefusedByTable(h, s, recent) == turn[h].called \/ \E e \in recent : Repeats(e, h, s)

Refused(h, s, recent) ==
  turn[h].called \/ s \in turn[h].done \/ \E e \in recent : Repeats(e, h, s)

\* One SOP in a round, no SOP twice in a turn, none again for the same words
\* within five minutes; otherwise the SOP is on its way.
CallSop(h, s) ==
  /\ turn[h].at = "tools"
  /\ \E old \in aged .. Len(execs) :
       LET recent == old + 1 .. Len(execs) IN
         /\ ~Refused(h, s, recent)
         /\ aged' = old
         /\ turn' = [ turn EXCEPT ![h].at = "trigger", ![h].sop = s, ![h].saw = recent,
                                  ![h].done = @ \cup { s }, ![h].called = TRUE ]
  /\ UNCHANGED << dedup, started, sessions, rx, execs, replies, faults >>

\* The execution is inserted, after several awaits; or the SOP cannot start.
\* What is stored as its input is the message only if no attachment was
\* annotated to it and the model named no input of its own.
TriggerSop(h) ==
  /\ turn[h].at = "trigger"
  /\ turn' = [ turn EXCEPT ![h].at = "tools", ![h].sop = None, ![h].saw = {} ]
  /\ \/ /\ Len(execs) < MaxExecs
        /\ \E exact \in BOOLEAN :
             execs' = Append(execs, [ sop |-> turn[h].sop, msg |-> turn[h].msg, nr |-> turn[h].nr,
                                      exact |-> exact, saw |-> turn[h].saw ])
     \/ UNCHANGED execs
  /\ UNCHANGED << dedup, started, sessions, rx, aged, replies, faults >>

EndRound(h) ==
  /\ turn[h].at = "tools"
  /\ NextRound(h)
  /\ UNCHANGED << dedup, started, sessions, rx, sops, replies, faults >>

\* The last round ends without an answer, or something throws: an error event.
CloseWithError(h) ==
  /\ turn[h].at = "fail"
  /\ turn' = [ turn EXCEPT ![h] = IdleTurn ]
  /\ rx' = IF Reading(h) THEN [ rx EXCEPT ![h].err = TRUE, ![h].ended = TRUE ] ELSE rx
  /\ UNCHANGED << dedup, started, sessions, sops, replies, faults >>

Throw(h) ==
  /\ turn[h].at \in Engine \ { "fail" }
  /\ Fault /\ To(h, "fail")
  /\ UNCHANGED << dedup, started, sessions, rx, sops, replies >>

-------------------------------------------------------------------------------
(* The consumer: consumeSSEStream and the rest of handleAsyncResponse.     *)

ToRx(h, place) == rx' = [ rx EXCEPT ![h].at = place ]
RxDone(h) == rx' = [ rx EXCEPT ![h] = IdleRx ]

\* Mutant: an error event is logged.
ConsumeQuietly(h) ==
  /\ rx[h].at = "read" /\ rx[h].ended
  /\ IF rx[h].content # {} THEN ToRx(h, "reply") ELSE RxDone(h)
  /\ UNCHANGED << dedup, started, sessions, turn, sops, replies, faults >>

\* The stream has ended: what it said is the reply; an error counts only if
\* it said nothing; without either nothing is sent.
Consume(h) ==
  /\ rx[h].at = "read" /\ rx[h].ended
  /\ IF rx[h].content # {} THEN ToRx(h, "reply")
     ELSE IF rx[h].err THEN ToRx(h, "error") ELSE RxDone(h)
  /\ UNCHANGED << dedup, started, sessions, turn, sops, replies, faults >>

\* After 300 seconds the stream is cancelled; the engine goes on unheard.
GiveUp(h) ==
  /\ rx[h].at = "read" /\ ~rx[h].ended
  /\ IF rx[h].content # {} THEN ToRx(h, "reply") ELSE RxDone(h)
  /\ Excuse(rx[h].msg)
  /\ UNCHANGED << dedup, started, sessions, turn, sops, saved, sent, faults >>

\* Mutant: of the rounds only the last is sent.
SendLast(h) ==
  /\ rx[h].at = "reply"
  /\ sent' = [ sent EXCEPT ![rx[h].msg] = @ \cup
                 IF "bogus" \in rx[h].content THEN { "bogus" } ELSE rx[h].content ]
  /\ RxDone(h)
  /\ UNCHANGED << dedup, started, sessions, turn, sops, saved, excused, faults >>

\* All that was read goes to the user; each send is tried three times.
Send(h) ==
  /\ rx[h].at = "reply"
  /\ \/ /\ sent' = [ sent EXCEPT ![rx[h].msg] = @ \cup rx[h].content ]
        /\ UNCHANGED << excused, faults >>
     \/ Fault /\ Excuse(rx[h].msg) /\ UNCHANGED sent
  /\ RxDone(h)
  /\ UNCHANGED << dedup, started, sessions, turn, sops, saved >>

SendError(h) ==
  /\ rx[h].at = "error"
  /\ \/ /\ sent' = [ sent EXCEPT ![rx[h].msg] = @ \cup { "error" } ]
        /\ UNCHANGED << excused, faults >>
     \/ Fault /\ Excuse(rx[h].msg) /\ UNCHANGED sent
  /\ RxDone(h)
  /\ UNCHANGED << dedup, started, sessions, turn, sops, saved >>

\* The process dies, with its memory and all it was handling.
Crash ==
  /\ InFlight # { None } /\ Fault
  /\ turn' = [ h \in Handler |-> IdleTurn ] /\ rx' = [ h \in Handler |-> IdleRx ]
  /\ excused' = excused \cup (InFlight \ { None })
  /\ lapsed' = lapsed \cup memory /\ memory' = {}
  /\ UNCHANGED << redis, delivered, marked, started, sessions, sops, saved, sent >>

-------------------------------------------------------------------------------
Turning(h) ==
  \/ Block(h) \/ Save(h) \/ TriggerSop(h) \/ EndRound(h) \/ Throw(h) \/ CloseWithError(h)

Modelling(h) ==
  \/ AskForTools(h) \/ AnswerNothing(h)
  \/ \E text \in Text : Answer(h, text)
  \/ \E s \in Sop : CallSop(h, s)

Receiving(h) == FindSession(h) \/ OpenSession(h) \/ Enter(h) \/ WebhookFails(h)
Replying(h) == Consume(h) \/ GiveUp(h) \/ Send(h) \/ SendError(h)

Next ==
  \/ \E h \in Handler :
       \/ \E m \in Message : Deliver(h, m)
       \/ Receiving(h) \/ Modelling(h) \/ Turning(h) \/ Replying(h)
  \/ Crash

Spec == Init /\ [][Next]_vars

-------------------------------------------------------------------------------
(* Properties.                                                             *)

TypeOK ==
  /\ redis \in BOOLEAN
  /\ delivered \in [ Message -> Nat ] /\ started \in [ Message -> Nat ]
  /\ marked \subseteq Message /\ memory \subseteq Message /\ lapsed \subseteq Message
  /\ sessions \in Nat /\ aged \in 0 .. Len(execs)
  /\ saved \in [ Message -> SUBSET Text ]
  /\ sent \in [ Message -> SUBSET (Text \cup { "error" }) ]
  /\ excused \subseteq Message /\ faults \in 0 .. MaxFaults
  /\ \A h \in Handler :
       /\ turn[h].at \in Webhook \cup Engine \cup { "idle" }
       /\ turn[h].round < MaxRounds
       /\ turn[h].at # "idle" => turn[h].msg \in Message
       /\ turn[h].at \in Engine => sessions > 0
       /\ rx[h].at \in { "idle", "read", "reply", "error" }
       /\ rx[h].at = "read" /\ ~rx[h].ended => Reading(h)

\* Channels deliver a message again when the first delivery is not answered in
\* time: it starts a second turn only if the mark of the first was lost, by
\* age, by a restart without Redis, or because Redis failed in between.
ProcessedOnce == \A m \in Message : started[m] > 1 => m \in lapsed

Again(d, e) ==
  d < e /\ execs[d].sop = execs[e].sop /\ TextOf[execs[d].msg] = TextOf[execs[e].msg]

SameTurn(d, e) == execs[d].msg = execs[e].msg /\ execs[d].nr = execs[e].nr

\* A turn triggers no SOP twice.  That two turns trigger one
\* SOP for the same words within five minutes, be it for two messages or for
\* one delivered twice, takes a second turn that looked before the first had
\* inserted its execution, or a first execution whose input was stored in
\* other words; and for one message, a lost mark besides.
RepeatsExplained ==
  \A d, e \in DOMAIN execs :
    /\ d # e /\ SameTurn(d, e) => execs[d].sop # execs[e].sop
    /\ Again(d, e) =>
         /\ execs[d].msg = execs[e].msg => execs[d].msg \in lapsed
         /\ d \in execs[e].saw => ~execs[d].exact

Over(m) == m \notin InFlight

\* When nothing is done for a message any more its user has been sent a reply
\* or an error, unless the webhook failed or the process died over it, the
\* sending failed, the consumer's time was up, or the model answered with
\* nothing.  What throws within a turn and a last round without an answer are no
\* such excuse: the error they end in is sent or, in its place, the words that a
\* blocked round of the turn had streamed before.
AnsweredOrExcused ==
  \A m \in Message :
    delivered[m] > 0 /\ Over(m) => sent[m] # {} \/ m \in excused

\* The conversation does not show replies that the channel has not: what was
\* stored for a message has been sent, unless the message is excused as above.
SavedIsSent ==
  \A m \in Message : Over(m) => saved[m] \subseteq sent[m] \/ m \in excused

\* sop-claim-guard.ts: a reply that claims an execution that does not exist
\* never reaches the user.
FlaggedNeverSent == \A m \in Message : "bogus" \notin sent[m]
===============================================================================
