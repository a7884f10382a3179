----------------------------- MODULE ExitResolver -----------------------------
(***************************************************************************)
(* How a finished node chooses the node to run next                        *)
(* (apps/crewmeld/lib/sop/exit-resolver.ts).  An exit is a record          *)
(*   [error : BOOLEAN, cond : a condition or Always, target : a target]    *)
(* and a node's exits are a sequence, in definition order.  Whether a      *)
(* condition holds of a node's result is decided elsewhere: the operators  *)
(* below take the set of positions whose condition evaluates to true.      *)
(***************************************************************************)
EXTENDS Naturals, Sequences

\* A missing condition and one of type 'always' are the same to the resolver.
Always == "always"

\* targetNodeId: null is an exit nobody connected, undefined is one whose
\* definition has no such field.
NullTarget == "null"
UndefinedTarget == "undefined"

FalsyTarget(target) == target \in { NullTarget, UndefinedTarget }

LeastOf(S) == CHOOSE i \in S : \A j \in S : i <= j

NormalExits(exits) == { i \in DOMAIN exits : ~exits[i].error }

\* evaluateExits: the first conditional exit that holds, else the first
\* unconditional one, else none (0).  Error exits take no part.
EvaluateExits(exits, holds) ==
  LET normal  == NormalExits(exits)
      matched == { i \in normal : exits[i].cond # Always /\ i \in holds }
      default == { i \in normal : exits[i].cond = Always }
  IN  IF matched # {} THEN LeastOf(matched)
      ELSE IF default # {} THEN LeastOf(default)
      ELSE 0

\* resolveErrorExit: the first error exit, provided it is connected.
ResolveErrorExit(exits) ==
  LET errors == { i \in DOMAIN exits : exits[i].error }
  IN  IF errors = {} THEN 0
      ELSE IF FalsyTarget(exits[LeastOf(errors)].target) THEN 0
      ELSE LeastOf(errors)
===============================================================================
