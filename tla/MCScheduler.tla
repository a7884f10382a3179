------------------------------ MODULE MCScheduler ------------------------------
(* Two requests at one time and two patterns.                               *)
EXTENDS Scheduler, TLC

CONSTANTS r1, r2, daily, weekly

TwoRequests == { r1, r2 }
TwoCrons == { daily, weekly }

Symmetry == Permutations(TwoRequests) \cup Permutations(TwoCrons)
===============================================================================
