---------------------------- MODULE WorkerLease ----------------------------
(***************************************************************************)
(* Worker leases, backend/src/services/workerLease.service.ts, for one     *)
(* lease key: acquisition, heartbeats, release, eviction of holders that   *)
(* went silent, and the fencing token checked at the point of the write.   *)
(*                                                                         *)
(* Every call is one transaction that locks the row, except the eviction,  *)
(* which reads first and locks later.  A row never written and a row with  *)
(* token 0 are alike.                                                      *)
(***************************************************************************)
EXTENDS Integers, Sequences, FiniteSets

CONSTANTS
  Worker,     \* owner ids
  Work,       \* what a lease's metadata names
  None,       \* no owner
  Ttl,        \* ttlMs
  Threshold,  \* LEASE_ZOMBIE_THRESHOLD_MS
  MaxClock,   \* bound: the last instant
  MaxToken    \* bound: acquisitions

ASSUME LeaseAssumption ==
  /\ None \notin Worker
  /\ Ttl \in Nat \ {0} /\ {Threshold, MaxClock, MaxToken} \subseteq Nat

VARIABLES
  clock,     \* wall clock, shared by the processes and the database
  lease,     \* row of worker_leases
  turn,      \* the token each worker goes on working under, 0 when it stopped
  beating,   \* workers whose heartbeat timer runs
  accepted,  \* lastAcceptedToken of the receiving side
  zombie,    \* the row findZombieLeases returned, with the cycle's `now'
  turns      \* history: the worker each token was issued to

leaseVars == <<clock, lease, turn, beating, accepted, zombie, turns>>

NoZombie == [owner |-> None, meta |-> None, at |-> 0]

LeaseInit ==
  /\ clock = 0
  /\ lease = [owner |-> None, token |-> 0, renewed |-> 0, expires |-> 0, lost |-> 0, meta |-> None]
  /\ turn = [w \in Worker |-> 0] /\ beating = {}
  /\ accepted = 0 /\ zombie = NoZombie /\ turns = <<>>

IsExpired == lease.expires <= clock

HeldByOther(w) == lease.owner \notin {None, w} /\ ~ IsExpired

\* The row as its holder leaves it, and as whoever ends the lease does.
Held(w, token, lost, meta) ==
  [owner |-> w, token |-> token, renewed |-> clock, expires |-> clock + Ttl, lost |-> lost,
   meta |-> meta]
Vacated(at, token, lost) ==
  [owner |-> None, token |-> token, renewed |-> lease.renewed, expires |-> at, lost |-> lost,
   meta |-> lease.meta]

\* acquire, then startHeartbeat; the holder may acquire again and gets a new token.
Acquire(w, meta) ==
  LET token == lease.token + 1 IN
  /\ token <= MaxToken
  /\ ~ HeldByOther(w)
  /\ lease' = Held(w, token, IF lease.owner \in {None, w} THEN lease.lost ELSE lease.lost + 1, meta)
  /\ turn' = [turn EXCEPT ![w] = token]
  /\ beating' = beating \cup {w}
  /\ turns' = IF token = Len(turns) + 1 THEN Append(turns, w) ELSE [turns EXCEPT ![token] = w]
  /\ UNCHANGED <<clock, accepted, zombie>>

\* One beat.  A lost lease stops the timer, not the work.
Renew(w) ==
  /\ w \in beating
  /\ IF lease.owner = w /\ ~ IsExpired
     THEN lease' = Held(w, lease.token, lease.lost, lease.meta) /\ UNCHANGED beating
     ELSE beating' = beating \ {w} /\ UNCHANGED lease
  /\ UNCHANGED <<clock, turn, accepted, zombie, turns>>

\* BUG: the row goes with its owner, and the next token is 1 again.
Release_Deleted(w) ==
  /\ turn[w] > 0
  /\ lease' = IF lease.owner = w THEN Vacated(clock, 0, lease.lost) ELSE lease
  /\ turn' = [turn EXCEPT ![w] = 0] /\ beating' = beating \ {w}
  /\ UNCHANGED <<clock, accepted, zombie, turns>>

\* A worker done with its work: release, lapsed or not, and stopHeartbeat.
Release(w) ==
  /\ turn[w] > 0
  /\ lease' = IF lease.owner = w THEN Vacated(clock, lease.token, lease.lost) ELSE lease
  /\ turn' = [turn EXCEPT ![w] = 0] /\ beating' = beating \ {w}
  /\ UNCHANGED <<clock, accepted, zombie, turns>>

\* The process dies: neither release nor heartbeat.
WorkerCrash(w) ==
  /\ turn[w] > 0
  /\ turn' = [turn EXCEPT ![w] = 0] /\ beating' = beating \ {w}
  /\ UNCHANGED <<clock, lease, accepted, zombie, turns>>

IsFencedOut(presented) == presented <= accepted

\* A worker writes under the token it was issued, however late it wakes up.
Write(w) ==
  /\ turn[w] > 0 /\ ~ IsFencedOut(turn[w])
  /\ accepted' = turn[w]
  /\ UNCHANGED <<clock, lease, turn, beating, zombie, turns>>

FindZombieLeases ==
  /\ zombie = NoZombie
  /\ lease.owner # None /\ lease.renewed <= clock - Threshold
  /\ zombie' = [owner |-> lease.owner, meta |-> lease.meta, at |-> clock]
  /\ UNCHANGED <<clock, lease, turn, beating, accepted, turns>>

\* Silence is measured at the time the cycle began, strictly.
IsZombieLease == lease.owner # None /\ zombie.at - lease.renewed > Threshold

\* Under the row's lock: evict, or leave alone a holder that was heard of.
EvictZombie ==
  /\ zombie # NoZombie
  /\ lease' = IF IsZombieLease THEN Vacated(zombie.at, lease.token, lease.lost + 1) ELSE lease
  /\ zombie' = NoZombie
  /\ UNCHANGED <<clock, turn, beating, accepted, turns>>

Tick == clock < MaxClock /\ clock' = clock + 1
        /\ UNCHANGED <<lease, turn, beating, accepted, zombie, turns>>

\* The workers' and the clock's steps; a reaper is one of EvictZombie's users.
WorkerStep ==
  \/ \E w \in Worker : \/ \E m \in Work : Acquire(w, m)
                       \/ Renew(w) \/ Release(w) \/ WorkerCrash(w) \/ Write(w)
  \/ FindZombieLeases
  \/ Tick

LeaseNext == WorkerStep \/ EvictZombie

LeaseSpec == LeaseInit /\ [][LeaseNext]_leaseVars

-----------------------------------------------------------------------------
(* Properties.                                                             *)

LeaseTypeOK ==
  /\ clock \in 0 .. MaxClock
  /\ lease \in [owner : Worker \cup {None}, token : Nat, renewed : Nat, expires : Nat,
                lost : Nat, meta : Work \cup {None}]
  /\ turn \in [Worker -> Nat] /\ beating \subseteq Worker /\ accepted \in Nat
  /\ zombie \in [owner : Worker \cup {None}, meta : Work \cup {None}, at : Nat]
  /\ turns \in Seq(Worker)

Turns == INSTANCE FencedTurns WITH Worker <- Worker, turns <- turns, accepted <- accepted

\* Whoever stalls, crashes, is evicted, taken over or acquires again: the
\* leases are turns as FencedTurns promises them.  A token is issued once, so
\* a worker that slept through its expiry writes under a number that nobody
\* else has, and not at all once a later holder has written.
LeaseFenced == Turns!Spec
=============================================================================
