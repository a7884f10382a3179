------------------------------- MODULE MCHandoff -------------------------------
(* Two support users and two requests at one time.                          *)
EXTENDS Handoff, TLC

CONSTANTS ann, bob, r1, r2

TwoUsers == { ann, bob }
TwoRequests == { r1, r2 }

Symmetry == Permutations(TwoUsers) \cup Permutations(TwoRequests)
===============================================================================
