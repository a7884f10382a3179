-------------------------------- MODULE Handoff --------------------------------
(***************************************************************************)
(* A conversation in the hands of people: the customer asks for a human    *)
(* (messages/send and the public messages route), support users claim,     *)
(* assign and close the handoff (human-service/handoffs/[handoffId]) and   *)
(* reply to the customer (human-reply).  Every route reads a handoff,      *)
(* decides, and writes, in statements of their own.                        *)
(*                                                                         *)
(* Support users are those that canSupportEmployee lets pass.  The         *)
(* collaborator a handoff is assigned to decides nothing and is left out.  *)
(***************************************************************************)
EXTENDS Naturals, FiniteSets

CONSTANTS
  Handler,  \* requests handled at one time
  User,     \* support users
  Nobody,
  MaxRows   \* bound: handoffs of the conversation

ASSUME NobodyAssumption == Nobody \notin User
ASSUME NumberAssumption == MaxRows \in Nat

VARIABLES
  handoff,  \* the rows of human_handoffs, by the order of their insertion
  th        \* the requests

vars == << handoff, th >>

Ids == 1 .. MaxRows
NoRow == [ status |-> "none", claimed |-> Nobody ]
Rows == { i \in Ids : handoff[i].status # "none" }
Listed == { i \in Ids : handoff[i].status \in { "open", "assigned" } }

\* A request: its user and action, the handoff it has read and what it read;
\* the unresolved handoffs at that time, and the handoffs changed since.
Idle == [ at |-> "idle", user |-> Nobody, act |-> "none", id |-> 0, seen |-> NoRow,
          listed |-> {}, changed |-> {} ]

\* A request writes a row; every other one that is under way has read before.
Write(h, i, row, next) ==
  /\ handoff' = [ handoff EXCEPT ![i] = row ]
  /\ th' = [ g \in Handler |->
       IF g = h THEN next
       ELSE IF th[g].at = "idle" \/ row = handoff[i] THEN th[g]
       ELSE [ th[g] EXCEPT !.changed = @ \cup { i } ] ]

Reads(h, request) ==
  /\ th[h].at = "idle"
  /\ th' = [ th EXCEPT ![h] = [ request EXCEPT !.listed = Listed, !.changed = {} ] ]
  /\ UNCHANGED handoff

Init ==
  /\ handoff = [ i \in Ids |-> NoRow ]
  /\ th = [ h \in Handler |-> Idle ]

-------------------------------------------------------------------------------
(* The customer asks for a human.                                          *)

\* Mutant: any handoff the conversation has had will do.
AskOnce(h) ==
  Reads(h, [ Idle EXCEPT !.at = IF Rows # {} THEN "note" ELSE "open", !.act = "ask" ])

\* Is there an open handoff?
Ask(h) ==
  Reads(h, [ Idle EXCEPT !.act = "ask",
               !.at = IF \E i \in Rows : handoff[i].status = "open" THEN "note" ELSE "open" ])

Open(h) ==
  /\ th[h].at = "open" /\ Cardinality(Rows) < MaxRows
  /\ Write(h, Cardinality(Rows) + 1, [ NoRow EXCEPT !.status = "open" ],
           [ th[h] EXCEPT !.at = "note" ])

\* The message is stored and the customer told that it was accepted.
Note(h) ==
  /\ th[h].at = "note"
  /\ th' = [ th EXCEPT ![h].at = "accepted" ]
  /\ UNCHANGED handoff

-------------------------------------------------------------------------------
(* Support users.                                                          *)

Patch(h, u, i, act) ==
  /\ i \in Rows
  /\ Reads(h, [ Idle EXCEPT !.at = "patch", !.user = u, !.act = act, !.id = i,
                            !.seen = handoff[i] ])

\* resolveHandoffAction, of the row as it was read
Resolved(seen, act, user) ==
  CASE act = "claim"  -> [ status |-> "assigned", claimed |-> user ]
    [] act = "assign" -> [ status |-> "assigned", claimed |-> Nobody ]
    [] act = "close"  -> [ seen EXCEPT !.status = "resolved" ]

\* Mutant: the row is updated whatever its status is by now.
UpdateAnyway(h) ==
  /\ th[h].at = "patch"
  /\ Write(h, th[h].id, Resolved(th[h].seen, th[h].act, th[h].user), Idle)

\* The row is updated only if it still has the status that was read.
Update(h) ==
  /\ th[h].at = "patch"
  /\ IF handoff[th[h].id].status = th[h].seen.status
     THEN Write(h, th[h].id, Resolved(th[h].seen, th[h].act, th[h].user), Idle)
     ELSE th' = [ th EXCEPT ![h] = Idle ] /\ UNCHANGED handoff

\* Mutant: anybody may reply.
MayReply(row, user) == TRUE

CanReplyToHandoff(row, user) == row.claimed \in { Nobody, user }

\* The reply goes by whichever unresolved handoff the query returns first.
Reply(h, u) ==
  \E i \in Listed :
    /\ CanReplyToHandoff(handoff[i], u)
    /\ Reads(h, [ Idle EXCEPT !.at = "say", !.user = u, !.act = "reply", !.id = i,
                              !.seen = handoff[i] ])

\* The message to the customer is stored.
Say(h) ==
  /\ th[h].at = "say"
  /\ th' = [ th EXCEPT ![h].at = "take" ]
  /\ UNCHANGED handoff

\* The replier has the handoff unless it was claimed when he read it.
Take(h) ==
  /\ th[h].at = "take"
  /\ LET owner == IF th[h].seen.claimed = Nobody THEN th[h].user ELSE th[h].seen.claimed IN
       Write(h, th[h].id, [ status |-> "assigned", claimed |-> owner ], Idle)

-------------------------------------------------------------------------------
\* A request ends, or one of its statements fails, or the process dies: what
\* was written stays written.
End(h) ==
  /\ th[h].at # "idle"
  /\ th' = [ th EXCEPT ![h] = Idle ]
  /\ UNCHANGED handoff

Next ==
  \E h \in Handler :
    \/ Ask(h) \/ Open(h) \/ Note(h) \/ Update(h) \/ Say(h) \/ Take(h) \/ End(h)
    \/ \E u \in User :
         \/ Reply(h, u)
         \/ \E i \in Ids, act \in { "claim", "assign", "close" } : Patch(h, u, i, act)

Spec == Init /\ [][Next]_vars

-------------------------------------------------------------------------------
(* Properties.                                                             *)

TypeOK ==
  /\ handoff \in [ Ids -> [ status : { "none", "open", "assigned", "resolved" },
                            claimed : User \cup { Nobody } ] ]
  /\ \A h \in Handler :
       /\ th[h].at \in { "idle", "open", "note", "accepted", "patch", "say", "take" }
       /\ th[h].at \in { "patch", "say", "take" } => th[h].id \in Rows /\ th[h].user \in User
       /\ th[h].changed \subseteq Rows /\ th[h].listed \subseteq Rows
  /\ \A i \in Ids : handoff[i].status \in { "none", "open" } => handoff[i].claimed = Nobody

\* Request h changes row i in this step.
Changes(h, i) == th[h].at # th'[h].at /\ th[h].id = i /\ handoff'[i] # handoff[i]

\* A customer's message does not go unseen: when it is accepted the
\* conversation is in the list of support users, unless since the request
\* looked for a handoff all those listed then have been closed, and the one it
\* opened, if it did, as well.
AskIsListed ==
  [][ \A h \in Handler : th[h].at = "note" /\ th'[h].at = "accepted" =>
        \/ Listed # {}
        \/ th[h].changed # {} /\ th[h].listed \subseteq th[h].changed ]_vars

\* A handoff that was closed is taken up again only by a user who has read that
\* it was closed, or by a reply that was under way when it was.
CloseSticks ==
  [][ \A i \in Ids : handoff[i].status = "resolved" /\ handoff'[i].status # "resolved" =>
        \E h \in Handler :
          /\ Changes(h, i)
          /\ \/ th[h].act \in { "claim", "assign" } /\ th[h].seen.status = "resolved"
             \/ th[h].act = "reply" /\ i \in th[h].changed ]_vars

\* Nobody loses a claim to who found the handoff open at the same time: it goes
\* only to a user who claims or assigns the handoff having read that it was
\* assigned or closed (which the routes allow anybody), or to a reply or a
\* close that had read the row before the claim.
ClaimSticks ==
  [][ \A i \in Ids : handoff[i].claimed # Nobody /\ handoff'[i].claimed # handoff[i].claimed =>
        \E h \in Handler :
          /\ Changes(h, i)
          /\ \/ th[h].act \in { "claim", "assign" } /\ th[h].seen.status # "open"
             \/ th[h].act \in { "reply", "close" } /\ i \in th[h].changed ]_vars

\* Once a user has claimed the conversation nobody else answers its customer,
\* but for a reply that had read the row before the claim, and for one that
\* went by a second unresolved handoff of the same conversation.
SoleOwnerReplies ==
  [][ \A h \in Handler : th[h].at = "say" /\ th'[h].at = "take" =>
        \A i \in Listed :
          \/ handoff[i].claimed \in { Nobody, th[h].user }
          \/ i \in th[h].changed
          \/ \E j \in th[h].listed \ { i } : j = th[h].id ]_vars
===============================================================================
