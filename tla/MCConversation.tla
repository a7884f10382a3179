---------------------------- MODULE MCConversation ----------------------------
(* Two messages with the same words, or one delivered twice.                *)
EXTENDS Conversation, TLC

CONSTANTS first, second, m1, m2, leave

TwoHandlers == { first, second }
TwoMessages == { m1, m2 }
SameWords == [ m \in TwoMessages |-> "again" ]
OneSop == { leave }

Symmetry == Permutations(TwoHandlers) \cup Permutations(TwoMessages)
===============================================================================
