------------------------------- MODULE RedisLock -------------------------------
(***************************************************************************)
(* The lock of lib/core/config/redis.ts: one key that holds the value of   *)
(* its owner and expires.  Without Redis everybody gets it.                *)
(***************************************************************************)
CONSTANTS
  Redis,    \* whether Redis is configured
  NoOwner   \* the key does not exist

VARIABLE key

\* SET key value EX seconds NX
Acquires == Redis => key = NoOwner
AcquireLock(owner) ==
  Acquires /\ key' = IF Redis THEN owner ELSE key

\* Mutant: DEL without the comparison.
DeleteLock(owner) == key' = NoOwner

\* The script deletes the key only if it holds the caller's value.
ReleaseLock(owner) == key' = IF key = owner THEN NoOwner ELSE key

\* The key expires, whatever its owner is doing.
Expire == key # NoOwner /\ key' = NoOwner
===============================================================================
