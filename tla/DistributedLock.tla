--------------------------- MODULE DistributedLock ---------------------------
(***************************************************************************)
(* The Redis lock around the scheduled jobs, backend/src/services/         *)
(* distributedLock.service.ts, for one key.  A call of withLock draws a    *)
(* token of its own, so the key's value is told by the call that drew it.  *)
(***************************************************************************)
EXTENDS Integers

CONSTANTS
  Holder,   \* calls of withLock, of any instance
  LockTtl   \* ttlMs

ASSUME LockAssumption == LockTtl \in Nat \ {0}

VARIABLES
  key,      \* of: the call its token is of, if that call still runs; left: PX, 0 when unset
  running,  \* calls inside fn
  age       \* time since a call's SET or last successful pexpire, up to LockTtl

lockVars == <<key, running, age>>

Unset == [of |-> {}, left |-> 0]

LockInit == key = Unset /\ running = {} /\ age = [h \in Holder |-> 0]

Stamped(h) == key' = [of |-> {h}, left |-> LockTtl] /\ age' = [age EXCEPT ![h] = 0]

\* SET NX PX; withLock returns null where the key is set.
AcquireLock(h) == h \notin running /\ key = Unset /\ Stamped(h) /\ running' = running \cup {h}

ExtendLock(h) == h \in running /\ key.of = {h} /\ Stamped(h) /\ UNCHANGED running

\* BUG: del whatever the token.
Freed_AnyToken(h) == Unset

\* RELEASE_SCRIPT: delete the key if it has the call's token.
Freed(h) == IF key.of = {h} THEN Unset ELSE key

Abandoned(h) == [key EXCEPT !.of = @ \ {h}]

\* withLock's finally; an error of release is logged, and a process that dies
\* releases nothing: either way the key outlives its call.
LeaveLock(h) ==
  /\ h \in running /\ running' = running \ {h}
  /\ key' \in {Freed(h), Abandoned(h)}
  /\ UNCHANGED age

LockTick ==
  /\ key' = IF key.left > 1 THEN [key EXCEPT !.left = @ - 1] ELSE Unset
  /\ age' = [h \in Holder |-> IF h \in running /\ age[h] < LockTtl THEN age[h] + 1 ELSE age[h]]
  /\ UNCHANGED running

LockNext ==
  \/ \E h \in Holder : AcquireLock(h) \/ ExtendLock(h) \/ LeaveLock(h)
  \/ LockTick

LockSpec == LockInit /\ [][LockNext]_lockVars

-----------------------------------------------------------------------------
(* Properties.                                                             *)

LockTypeOK ==
  /\ key \in [of : SUBSET Holder, left : 0 .. LockTtl]
  /\ running \subseteq Holder /\ age \in [Holder -> 0 .. LockTtl]

\* Two calls are inside together only when one of them has outrun its ttl: a
\* late release never frees the lock of the call that came after it.
LockExclusive == \A g, h \in running : g # h => LockTtl \in {age[g], age[h]}
=============================================================================
