---------------------------- MODULE QueueProofs -----------------------------
(***************************************************************************)
(* Worker leases and the ingestion queue that uses them.                   *)
(***************************************************************************)
EXTENDS IngestionQueue, TLAPS

-----------------------------------------------------------------------------
(* Worker leases implement fenced turns, for any workers, times and        *)
(* bounds: the row's token is the number of turns granted, and no worker   *)
(* holds, nor has the receiver accepted, a number beyond it.               *)

TokensIssued ==
  /\ turns \in Seq(Worker) /\ Len(turns) = lease.token
  /\ turn \in [Worker -> 0 .. lease.token] /\ accepted \in 0 .. lease.token

\* The row as far as the tokens need it.
LeaseRows == [owner : Worker \cup {None}, token : Nat, renewed : Nat, expires : Nat,
              lost : Nat, meta : Work \cup {None}]

LeaseRow == lease \in LeaseRows

LeaseInv ==
  /\ LeaseRow /\ TokensIssued /\ clock \in Nat
  /\ zombie \in [owner : Worker \cup {None}, meta : Work \cup {None}, at : Nat]

LEMMA LeaseInvInit == LeaseInit => LeaseInv /\ Turns!Init
<1> SUFFICES ASSUME LeaseInit PROVE LeaseInv /\ Turns!Init
  OBVIOUS
<1>1. LeaseRow /\ clock \in Nat
  BY DEF LeaseInit, LeaseRow, LeaseRows
<1>2. TokensIssued
  BY DEF LeaseInit, TokensIssued
<1>3. zombie \in [owner : Worker \cup {None}, meta : Work \cup {None}, at : Nat]
  BY DEF LeaseInit, NoZombie
<1>4. Turns!Init
  BY DEF LeaseInit, Turns!Init
<1> QED BY <1>1, <1>2, <1>3, <1>4 DEF LeaseInv

TurnStep == [Turns!Grant \/ Turns!Accept]_<<turns, accepted>>

\* A row written over, or vacated, keeps the type and the token written.
LEMMA HeldKept ==
  ASSUME LeaseInv, NEW token \in Nat, NEW lost \in Nat, NEW w \in Worker, NEW m \in Work \cup {None}
  PROVE  Held(w, token, lost, m) \in LeaseRows /\ Held(w, token, lost, m).token = token
<1>1. Ttl \in Nat /\ clock \in Nat /\ clock + Ttl \in Nat
  BY LeaseAssumption DEF LeaseInv, LeaseAssumption
<1> QED BY <1>1 DEF Held, LeaseRows

LEMMA VacatedKept ==
  ASSUME LeaseInv, NEW token \in Nat, NEW lost \in Nat, NEW at \in Nat
  PROVE  Vacated(at, token, lost) \in LeaseRows /\ Vacated(at, token, lost).token = token
<1>1. lease.renewed \in Nat /\ lease.meta \in Work \cup {None}
  BY DEF LeaseInv, LeaseRow, LeaseRows
<1> QED BY <1>1 DEF Vacated, LeaseRows

LEMMA LeaseInvStep == LeaseInv /\ [LeaseNext]_leaseVars => LeaseInv' /\ TurnStep
<1> SUFFICES ASSUME LeaseInv, [LeaseNext]_leaseVars PROVE LeaseInv' /\ TurnStep
  OBVIOUS
<1>1. lease.token \in Nat /\ lease.lost \in Nat /\ lease.meta \in Work \cup {None}
  BY DEF LeaseInv, LeaseRow, LeaseRows
<1>2. ASSUME NEW w \in Worker, NEW m \in Work, Acquire(w, m) PROVE LeaseInv' /\ TurnStep
  <2>1. PICK lost \in Nat : lease' = Held(w, lease.token + 1, lost, m)
    <3>1. lease.lost \in Nat /\ lease.lost + 1 \in Nat
      BY <1>1
    <3> QED BY <1>2, <3>1 DEF Acquire
  <2>2. LeaseRow' /\ lease'.token = lease.token + 1
    <3>1. /\ Held(w, lease.token + 1, lost, m) \in LeaseRows
          /\ Held(w, lease.token + 1, lost, m).token = lease.token + 1
      BY <1>1, HeldKept
    <3> QED BY <2>1, <3>1 DEF LeaseRow
  <2>3. turns' = Append(turns, w)
    BY <1>2 DEF Acquire, LeaseInv, TokensIssued
  <2>4. TokensIssued'
    BY <1>1, <1>2, <2>2, <2>3 DEF Acquire, LeaseInv, TokensIssued
  <2> QED BY <1>2, <2>2, <2>3, <2>4 DEF Acquire, LeaseInv, TurnStep, Turns!Grant
<1>3. ASSUME NEW w \in Worker, Write(w) PROVE LeaseInv' /\ TurnStep
  <2>1. turn[w] \in 0 .. lease.token /\ accepted \in 0 .. lease.token /\ Len(turns) = lease.token
    BY DEF LeaseInv, TokensIssued
  <2>2. accepted' \in accepted + 1 .. Len(turns) /\ accepted' \in 0 .. lease.token
    BY <1>1, <1>3, <2>1 DEF Write, IsFencedOut
  <2> QED BY <1>3, <2>2 DEF Write, LeaseInv, LeaseRow, TokensIssued, TurnStep, Turns!Accept
\* Every other step leaves the turns alone, and the row a row with its token.
<1>4. ASSUME UNCHANGED <<turns, accepted>>, clock' \in Nat,
             turn' \in [Worker -> 0 .. lease.token],
             zombie' \in [owner : Worker \cup {None}, meta : Work \cup {None}, at : Nat],
             LeaseRow', lease'.token = lease.token
      PROVE  LeaseInv' /\ TurnStep
  BY <1>4 DEF LeaseInv, TokensIssued, TurnStep
<1>5. ASSUME NEW w \in Worker, Renew(w) PROVE LeaseInv' /\ TurnStep
  <2>1. lease' \in {lease, Held(w, lease.token, lease.lost, lease.meta)}
    BY <1>5 DEF Renew
  <2>2. LeaseRow' /\ lease'.token = lease.token
    <3>1. /\ Held(w, lease.token, lease.lost, lease.meta) \in LeaseRows
          /\ Held(w, lease.token, lease.lost, lease.meta).token = lease.token
      BY <1>1, HeldKept
    <3> QED BY <2>1, <3>1 DEF LeaseRow, LeaseInv
  <2> QED BY <1>4, <1>5, <2>2 DEF Renew, LeaseInv, TokensIssued
<1>6. ASSUME NEW w \in Worker, Release(w) PROVE LeaseInv' /\ TurnStep
  <2>1. lease' \in {lease, Vacated(clock, lease.token, lease.lost)} /\ clock \in Nat
    BY <1>6 DEF Release, LeaseInv
  <2>2. LeaseRow' /\ lease'.token = lease.token
    <3>1. /\ Vacated(clock, lease.token, lease.lost) \in LeaseRows
          /\ Vacated(clock, lease.token, lease.lost).token = lease.token
      BY <1>1, <2>1, VacatedKept
    <3> QED BY <2>1, <3>1 DEF LeaseRow, LeaseInv
  <2>3. turn' \in [Worker -> 0 .. lease.token]
    BY <1>1, <1>6 DEF Release, LeaseInv, TokensIssued
  <2> QED BY <1>4, <1>6, <2>2, <2>3 DEF Release, LeaseInv
<1>7. ASSUME NEW w \in Worker, WorkerCrash(w) PROVE LeaseInv' /\ TurnStep
  <2>1. turn' \in [Worker -> 0 .. lease.token]
    BY <1>1, <1>7 DEF WorkerCrash, LeaseInv, TokensIssued
  <2> QED BY <1>4, <1>7, <2>1 DEF WorkerCrash, LeaseInv, LeaseRow
<1>8. ASSUME FindZombieLeases PROVE LeaseInv' /\ TurnStep
  <2>1. zombie' \in [owner : Worker \cup {None}, meta : Work \cup {None}, at : Nat]
    BY <1>8 DEF FindZombieLeases, LeaseInv, LeaseRow, LeaseRows
  <2> QED BY <1>4, <1>8, <2>1 DEF FindZombieLeases, LeaseInv, LeaseRow, TokensIssued
<1>9. ASSUME EvictZombie PROVE LeaseInv' /\ TurnStep
  <2>1. lease' \in {lease, Vacated(zombie.at, lease.token, lease.lost + 1)}
    BY <1>9 DEF EvictZombie
  <2>2. zombie.at \in Nat /\ lease.lost + 1 \in Nat
    BY <1>1 DEF LeaseInv
  <2>3. LeaseRow' /\ lease'.token = lease.token
    <3>1. /\ Vacated(zombie.at, lease.token, lease.lost + 1) \in LeaseRows
          /\ Vacated(zombie.at, lease.token, lease.lost + 1).token = lease.token
      BY <1>1, <2>2, VacatedKept
    <3> QED BY <2>1, <3>1 DEF LeaseRow, LeaseInv
  <2>4. zombie' \in [owner : Worker \cup {None}, meta : Work \cup {None}, at : Nat]
    BY <1>9 DEF EvictZombie, NoZombie
  <2> QED BY <1>4, <1>9, <2>3, <2>4 DEF EvictZombie, LeaseInv, TokensIssued
<1>10. ASSUME Tick PROVE LeaseInv' /\ TurnStep
  BY <1>4, <1>10 DEF Tick, LeaseInv, LeaseRow, TokensIssued
<1>11. ASSUME UNCHANGED leaseVars PROVE LeaseInv' /\ TurnStep
  BY <1>4, <1>11 DEF leaseVars, LeaseInv, LeaseRow, TokensIssued
<1> QED BY <1>2, <1>3, <1>5, <1>6, <1>7, <1>8, <1>9, <1>10, <1>11 DEF LeaseNext, WorkerStep

\* acquire, renew, release, the eviction and the fencing check: the leases are
\* fenced turns, whatever stalls, crashes or is taken over.
THEOREM LeasesAreFenced == LeaseSpec => LeaseFenced
<1>1. LeaseInit => Turns!Init
  BY LeaseInvInit
<1>2. LeaseInv /\ [LeaseNext]_leaseVars => TurnStep
  BY LeaseInvStep
<1> QED BY LeaseInvInit, LeaseInvStep, <1>1, <1>2, PTL DEF LeaseSpec, LeaseFenced, Turns!Spec, TurnStep

-----------------------------------------------------------------------------
(* No ingestion job is lost, for any number of jobs, managers and calls.   *)
(* A move between the two tables is two statements, and at both of them    *)
(* the row stands in both tables with one call alone moving it: the        *)
(* insert of the other direction would throw.  Deleting either row then    *)
(* leaves the other.                                                       *)

Rows == [status : JobStatus, attempts : Nat]

Calls == [id : Job \cup {None}, attempts : Nat,
          next : {"idle", "start", "finish", "bury", "remove", "insert", "clear"}]

QueueTables == /\ job \in [Job -> Rows] /\ call \in [Call -> Calls]
               /\ drawn \subseteq Job /\ dead \subseteq drawn
               /\ \A j \in Job : Present(j) => j \in drawn

\* Every call is about a job that was drawn.
CallsDrawn == \A c \in Call : call[c].next # "idle" => call[c].id \in drawn

Moving(c) == call[c].next \in {"remove", "clear"}

\* Between the statements of a move the job is in both tables.
MovesHoldBoth == \A c \in Call : Moving(c) => Present(call[c].id) /\ call[c].id \in dead

\* Two calls never move the same job.
OneMover == \A c, d \in Call : Moving(c) /\ Moving(d) /\ call[c].id = call[d].id => c = d

QueueInv == QueueTables /\ CallsDrawn /\ MovesHoldBoth /\ OneMover /\ NoJobLost

LEMMA QueueInvInit == QueueInit => QueueInv
<1> SUFFICES ASSUME QueueInit PROVE QueueInv
  OBVIOUS
<1>1. [Fresh EXCEPT !.status = "absent"] = [status |-> "absent", attempts |-> 0]
  BY DEF Fresh
<1>2. \A j \in Job : job[j] = [status |-> "absent", attempts |-> 0]
  BY <1>1 DEF QueueInit
<1>3. QueueTables
  BY <1>1, <1>2 DEF QueueInit, QueueTables, Rows, Calls, JobStatus, Idle, Present
<1>4. \A c \in Call : call[c].next = "idle"
  BY DEF QueueInit, Idle
<1> QED BY <1>3, <1>4 DEF QueueInit, QueueInv, CallsDrawn, MovesHoldBoth, OneMover, Moving, NoJobLost

\* Steps that neither create nor end a row, and leave no call moving that was not.
LEMMA RowsStay ==
  ASSUME QueueInv, job' \in [Job -> Rows], UNCHANGED <<dead, drawn>>,
         \A k \in Job : Present(k)' <=> Present(k),
         \/ UNCHANGED call
         \/ \E c \in Call, x \in Calls :
              /\ call' = [call EXCEPT ![c] = x] /\ x.next \notin {"remove", "clear"}
              /\ x.next # "idle" => x.id \in drawn
  PROVE  QueueInv'
<1>1. CASE UNCHANGED call
  BY <1>1 DEF QueueInv, QueueTables, CallsDrawn, MovesHoldBoth, OneMover, Moving, NoJobLost
<1>2. CASE \E c \in Call, x \in Calls :
             /\ call' = [call EXCEPT ![c] = x] /\ x.next \notin {"remove", "clear"}
             /\ x.next # "idle" => x.id \in drawn
  <2>1. PICK c \in Call, x \in Calls :
          /\ call' = [call EXCEPT ![c] = x] /\ x.next \notin {"remove", "clear"}
          /\ x.next # "idle" => x.id \in drawn
    BY <1>2
  <2>2. QueueTables' /\ NoJobLost'
    BY <2>1 DEF QueueInv, QueueTables, NoJobLost
  <2>3. \A d \in Call : call'[d] = IF d = c THEN x ELSE call[d]
    BY <2>1 DEF QueueInv, QueueTables
  <2>4. CallsDrawn'
    BY <2>1, <2>3 DEF QueueInv, CallsDrawn
  <2>5. \A d \in Call : Moving(d)' => d # c /\ Moving(d) /\ call'[d] = call[d]
    BY <2>1, <2>3 DEF Moving
  <2>6. MovesHoldBoth' /\ OneMover'
    BY <2>5 DEF QueueInv, QueueTables, CallsDrawn, MovesHoldBoth, OneMover, Moving
  <2> QED BY <2>2, <2>4, <2>6 DEF QueueInv
<1> QED BY <1>1, <1>2

LEMMA CallGoes ==
  ASSUME QueueInv, NEW c \in Call, NEW next, Goes(c, next),
         next \in {"idle", "start", "finish", "bury", "remove", "insert", "clear"}
  PROVE  \E x \in Calls : /\ call' = [call EXCEPT ![c] = x] /\ x.next = next
                          /\ next # "idle" => x.id = call[c].id
<1>1. call[c] \in Calls
  BY DEF QueueInv, QueueTables
<1>2. [call[c] EXCEPT !.next = next] \in Calls
  BY <1>1 DEF Calls
<1>3. [call[c] EXCEPT !.next = next].next = next /\ [call[c] EXCEPT !.next = next].id = call[c].id
  BY <1>1 DEF Calls
<1>4. Idle \in Calls /\ Idle.next = "idle"
  BY DEF Idle, Calls
<1>5. CASE next = "idle"
  BY <1>4, <1>5 DEF Goes
<1>6. CASE next # "idle"
  BY <1>2, <1>3, <1>6 DEF Goes
<1> QED BY <1>5, <1>6

\* A statement that writes a row it may not find leaves every row where it is.
LEMMA UpdateKeepsRows ==
  ASSUME QueueInv, NEW j, NEW new \in Rows, new.status # "absent", Update(j, new), j \in Job
  PROVE  job' \in [Job -> Rows] /\ \A k \in Job : Present(k)' <=> Present(k)
<1>1. CASE Present(j)
  <2>1. \A k \in Job : job'[k] = IF k = j THEN new ELSE job[k]
    BY <1>1 DEF Update, QueueInv, QueueTables
  <2> QED BY <1>1, <2>1 DEF Update, QueueInv, QueueTables, Present
<1>2. CASE ~ Present(j)
  BY <1>2 DEF Update, QueueInv, QueueTables, Present
<1> QED BY <1>1, <1>2

\* A row that is written goes on under a status of the table.
LEMMA Restated ==
  ASSUME QueueInv, NEW j \in Job, NEW st \in JobStatus
  PROVE  [job[j] EXCEPT !.status = st] \in Rows /\ [job[j] EXCEPT !.status = st].status = st
<1>1. job[j] \in Rows
  BY DEF QueueInv, QueueTables
<1> QED BY <1>1 DEF Rows

\* The calls under way are about jobs of the queue.
LEMMA CallsAreJobs == ASSUME QueueInv, NEW c \in Call, call[c].next # "idle"
                      PROVE  call[c].id \in Job /\ call[c].id \in drawn
  BY DEF QueueInv, QueueTables, CallsDrawn

LEMMA EnqueueKeeps == ASSUME QueueInv, NEW j \in Job, Enqueue(j), UNCHANGED <<dead, call>>
                      PROVE  QueueInv'
<1>1. job' \in [Job -> Rows] /\ \A k \in Job : Present(k)' <=> k = j \/ Present(k)
  <2>1. Fresh \in Rows /\ Fresh.status = "pending"
    BY DEF Fresh, Rows, JobStatus
  <2>2. \A k \in Job : job'[k] = IF k = j THEN Fresh ELSE job[k]
    BY DEF Enqueue, QueueInv, QueueTables
  <2> QED BY <2>1, <2>2 DEF Enqueue, QueueInv, QueueTables, Present
<1>2. drawn' = drawn \cup {j}
  BY DEF Enqueue
<1> QED BY <1>1, <1>2 DEF QueueInv, QueueTables, CallsDrawn, MovesHoldBoth, OneMover, Moving, NoJobLost
\* A call's first statement of a move: it becomes the job's only mover.
LEMMA MoveBegins ==
  ASSUME QueueInv, NEW c \in Call, call[c].next # "idle", NEW next \in {"remove", "clear"},
         Goes(c, next), UNCHANGED drawn, job' \in [Job -> Rows], dead' \subseteq drawn,
         \A k \in Job : Present(k)' <=> k = call[c].id \/ Present(k),
         dead' = dead \cup {call[c].id},
         \A d \in Call : Moving(d) => call[d].id # call[c].id
  PROVE  QueueInv'
<1>1. PICK x \in Calls : call' = [call EXCEPT ![c] = x] /\ x.next = next /\ x.id = call[c].id
  BY CallGoes
<1>2. \A d \in Call : call'[d] = IF d = c THEN x ELSE call[d]
  BY <1>1 DEF QueueInv, QueueTables
<1>3. call[c].id \in Job /\ call[c].id \in drawn
  BY CallsAreJobs
<1>4. QueueTables' /\ NoJobLost'
  BY <1>1, <1>3 DEF QueueInv, QueueTables, NoJobLost
<1>5. CallsDrawn'
  BY <1>1, <1>2, <1>3 DEF QueueInv, CallsDrawn
<1>6. \A d \in Call : Moving(d)' <=> d = c \/ Moving(d)
  BY <1>1, <1>2 DEF Moving
<1>7. MovesHoldBoth'
  <2> SUFFICES ASSUME NEW d \in Call, Moving(d)'
               PROVE  Present(call[d].id)' /\ call'[d].id \in dead'
    BY DEF MovesHoldBoth
  <2>1. call'[d].id \in Job
    <3>1. CASE d = c
      BY <1>1, <1>2, <1>3, <3>1
    <3>2. CASE d # c
      BY <1>2, <1>6, <3>2, CallsAreJobs DEF Moving
    <3> QED BY <3>1, <3>2
  <2>2. call'[d].id = call[c].id \/ (Present(call'[d].id) /\ call'[d].id \in dead)
    BY <1>1, <1>2, <1>6 DEF QueueInv, MovesHoldBoth
  <2>3. job'[call'[d].id].status # "absent"
    BY <2>1, <2>2 DEF Present
  <2> QED BY <2>2, <2>3 DEF Present
<1>8. OneMover'
  BY <1>1, <1>2, <1>6 DEF QueueInv, OneMover
<1> QED BY <1>4, <1>5, <1>7, <1>8 DEF QueueInv

\* Its last: the row left behind is the other table's, and no other call is moving it.
LEMMA MoveEnds ==
  ASSUME QueueInv, NEW c \in Call, Moving(c), Goes(c, "idle"), UNCHANGED drawn,
         job' \in [Job -> Rows], dead' \subseteq dead,
         \A k \in Job : /\ Present(k)' => Present(k)
                        /\ k # call[c].id => (Present(k) => Present(k)') /\ (k \in dead => k \in dead'),
         \A k \in Job : k = call[c].id => Present(k)' \/ k \in dead'
  PROVE  QueueInv'
<1>1. PICK x \in Calls : call' = [call EXCEPT ![c] = x] /\ x.next = "idle"
  BY CallGoes
<1>2. \A d \in Call : call'[d] = IF d = c THEN x ELSE call[d]
  BY <1>1 DEF QueueInv, QueueTables
<1>3. call[c].id \in Job /\ call[c].id \in drawn
  BY CallsAreJobs DEF Moving
<1>4. QueueTables'
  BY <1>1 DEF QueueInv, QueueTables
<1>5. NoJobLost'
  <2>1. ASSUME NEW j \in drawn PROVE Present(j)' \/ j \in dead'
    <3>1. j \in Job /\ (Present(j) \/ j \in dead)
      BY DEF QueueInv, QueueTables, NoJobLost
    <3>2. CASE j = call[c].id
      BY <3>1, <3>2
    <3>3. CASE j # call[c].id
      BY <3>1, <3>3
    <3> QED BY <3>2, <3>3
  <2> QED BY <2>1 DEF NoJobLost
<1>6. CallsDrawn'
  BY <1>1, <1>2 DEF QueueInv, CallsDrawn
<1>7. \A d \in Call : Moving(d)' => d # c /\ Moving(d) /\ call'[d] = call[d] /\ call[d].id # call[c].id
  BY <1>1, <1>2 DEF Moving, QueueInv, OneMover
<1>8. MovesHoldBoth'
  <2> SUFFICES ASSUME NEW d \in Call, Moving(d)'
               PROVE  Present(call[d].id)' /\ call'[d].id \in dead'
    BY DEF MovesHoldBoth
  <2>1. call[d].id \in Job /\ Present(call[d].id) /\ call[d].id \in dead
    BY <1>7, CallsAreJobs DEF QueueInv, MovesHoldBoth, Moving
  <2>2. job'[call[d].id].status # "absent" /\ call[d].id \in dead'
    BY <1>7, <2>1 DEF Present
  <2> QED BY <1>7, <2>2 DEF Present
<1>9. OneMover'
  BY <1>7 DEF QueueInv, OneMover
<1> QED BY <1>4, <1>5, <1>6, <1>8, <1>9 DEF QueueInv

LEMMA MoveKeeps == ASSUME QueueInv, NEW c \in Call, MoveToDeadLetter(c) PROVE QueueInv'
<1>1. call[c].next # "idle" /\ call[c].id \in Job /\ call[c].id \in drawn
  BY CallsAreJobs DEF MoveToDeadLetter
<1>2. CASE call[c].next = "bury"
  <2>1. UNCHANGED <<job, drawn>> /\ dead' = dead \cup {call[c].id}
    BY <1>2 DEF MoveToDeadLetter
  <2>2. job' \in [Job -> Rows] /\ (\A k \in Job : Present(k)' <=> Present(k))
    BY <2>1 DEF QueueInv, QueueTables, Present
  <2>3. CASE call[c].id \in dead
    <3>1. Goes(c, "idle") /\ UNCHANGED dead
      BY <1>2, <2>3 DEF MoveToDeadLetter
    <3>2. PICK x \in Calls : call' = [call EXCEPT ![c] = x] /\ x.next = "idle"
      BY <3>1, CallGoes
    <3> QED BY <2>1, <2>2, <3>1, <3>2, RowsStay
  <2>4. CASE call[c].id \notin dead
    <3>1. Goes(c, "remove")
      BY <1>2, <2>4 DEF MoveToDeadLetter
    <3>2. Present(call[c].id)
      BY <1>1, <2>4 DEF QueueInv, NoJobLost
    <3>3. \A d \in Call : Moving(d) => call[d].id # call[c].id
      BY <2>4 DEF QueueInv, MovesHoldBoth
    <3>4. \A k \in Job : Present(k)' <=> k = call[c].id \/ Present(k)
      BY <2>2, <3>2
    <3>5. dead' \subseteq drawn
      BY <1>1, <2>1 DEF QueueInv, QueueTables
    <3> QED BY <1>1, <2>1, <2>2, <3>1, <3>3, <3>4, <3>5, MoveBegins
  <2> QED BY <2>3, <2>4
<1>3. CASE call[c].next = "remove"
  <2>1. /\ UNCHANGED <<dead, drawn>> /\ job' = [job EXCEPT ![call[c].id].status = "absent"]
        /\ Goes(c, "idle")
    BY <1>3 DEF MoveToDeadLetter
  <2>2. [job[call[c].id] EXCEPT !.status = "absent"] \in Rows
        /\ [job[call[c].id] EXCEPT !.status = "absent"].status = "absent"
    BY <1>1, Restated DEF JobStatus
  <2>3. \A k \in Job : job'[k] = IF k = call[c].id THEN [job[k] EXCEPT !.status = "absent"] ELSE job[k]
    BY <1>1, <2>1 DEF QueueInv, QueueTables
  <2>4. job' \in [Job -> Rows]
    BY <1>1, <2>1, <2>2 DEF QueueInv, QueueTables
  <2>5. Moving(c) /\ call[c].id \in dead
    BY <1>3 DEF Moving, QueueInv, MovesHoldBoth
  <2>6. \A k \in Job : /\ Present(k)' => Present(k)
                       /\ k # call[c].id => (Present(k) => Present(k)') /\ (k \in dead => k \in dead')
    BY <2>1, <2>2, <2>3 DEF Present
  <2> QED BY <2>1, <2>4, <2>5, <2>6, MoveEnds
<1> QED BY <1>2, <1>3 DEF MoveToDeadLetter

LEMMA RequeueKeeps == ASSUME QueueInv, NEW c \in Call, RequeueDeadLetter(c) PROVE QueueInv'
<1>1. CASE call[c] = Idle /\ \E j \in dead : call' = [call EXCEPT ![c] = [id |-> j, attempts |-> 0, next |-> "insert"]]
  <2>1. PICK j \in dead : call' = [call EXCEPT ![c] = [id |-> j, attempts |-> 0, next |-> "insert"]]
    BY <1>1
  <2>2. UNCHANGED <<job, dead, drawn>>
    BY <1>1 DEF RequeueDeadLetter, Idle
  <2>3. [id |-> j, attempts |-> 0, next |-> "insert"] \in Calls /\ j \in drawn
    BY DEF Calls, QueueInv, QueueTables
  <2>4. job' \in [Job -> Rows] /\ (\A k \in Job : Present(k)' <=> Present(k))
    BY <2>2 DEF QueueInv, QueueTables, Present
  <2> QED BY <2>1, <2>2, <2>3, <2>4, RowsStay
<1>2. CASE call[c].next = "insert"
  <2>1. call[c].id \in Job /\ call[c].id \in drawn /\ UNCHANGED <<dead, drawn>>
    BY <1>2, CallsAreJobs DEF RequeueDeadLetter, Idle
  <2>2. CASE Present(call[c].id)
    <3>1. Goes(c, "idle") /\ UNCHANGED job
      BY <1>2, <2>2 DEF RequeueDeadLetter, Idle
    <3>2. PICK x \in Calls : call' = [call EXCEPT ![c] = x] /\ x.next = "idle"
      BY <3>1, CallGoes
    <3>3. job' \in [Job -> Rows] /\ (\A k \in Job : Present(k)' <=> Present(k))
      BY <3>1 DEF QueueInv, QueueTables, Present
    <3> QED BY <2>1, <3>2, <3>3, RowsStay
  <2>3. CASE ~ Present(call[c].id)
    <3>1. Goes(c, "clear") /\ job' = [job EXCEPT ![call[c].id] = Fresh]
      BY <1>2, <2>3 DEF RequeueDeadLetter, Idle
    <3>2. call[c].id \in dead
      BY <2>1, <2>3 DEF QueueInv, NoJobLost
    <3>3. \A d \in Call : Moving(d) => call[d].id # call[c].id
      BY <2>3 DEF QueueInv, MovesHoldBoth
    <3>4. Fresh \in Rows /\ Fresh.status = "pending"
      BY DEF Fresh, Rows, JobStatus
    <3>5. \A k \in Job : job'[k] = IF k = call[c].id THEN Fresh ELSE job[k]
      BY <2>1, <3>1 DEF QueueInv, QueueTables
    <3>6. job' \in [Job -> Rows]
      BY <2>1, <3>1, <3>4 DEF QueueInv, QueueTables
    <3>7. \A k \in Job : Present(k)' <=> k = call[c].id \/ Present(k)
      BY <3>4, <3>5 DEF Present
    <3>8. dead' = dead \cup {call[c].id} /\ dead' \subseteq drawn
      BY <2>1, <3>2 DEF QueueInv, QueueTables
    <3> QED BY <1>2, <2>1, <3>1, <3>3, <3>6, <3>7, <3>8, MoveBegins
  <2> QED BY <2>2, <2>3
<1>3. CASE call[c].next = "clear"
  <2>1. UNCHANGED <<job, drawn>> /\ dead' = dead \ {call[c].id} /\ Goes(c, "idle")
    BY <1>3 DEF RequeueDeadLetter, Idle
  <2>2. Moving(c) /\ Present(call[c].id)
    BY <1>3 DEF Moving, QueueInv, MovesHoldBoth
  <2>3. \A k \in Job : Present(k)' <=> Present(k)
    BY <2>1 DEF Present
  <2>4. job' \in [Job -> Rows]
    BY <2>1 DEF QueueInv, QueueTables
  <2>5. dead' \subseteq dead /\ (\A k \in Job : k # call[c].id => (k \in dead => k \in dead'))
    BY <2>1
  <2>6. \A k \in Job : k = call[c].id => Present(k)' \/ k \in dead'
    BY <2>2, <2>3
  <2> QED BY <2>1, <2>2, <2>3, <2>4, <2>5, <2>6, MoveEnds
<1> QED BY <1>1, <1>2, <1>3 DEF RequeueDeadLetter

LEMMA QueueInvStep == QueueInv /\ [QueueNext]_<<leaseVars, queueVars>> => QueueInv'
<1> SUFFICES ASSUME QueueInv, [QueueNext]_<<leaseVars, queueVars>> PROVE QueueInv'
  OBVIOUS
<1>1. ASSUME UNCHANGED <<job, dead, call, drawn>> PROVE QueueInv'
  BY <1>1 DEF QueueInv, QueueTables, CallsDrawn, MovesHoldBoth, OneMover, Moving, NoJobLost, Present
<1>2. ASSUME NEW j \in Job, EnqueueJob(j) PROVE QueueInv'
  BY <1>2, EnqueueKeeps DEF EnqueueJob
<1>3. ASSUME NEW c \in Call, NEW j \in Job, Pick(c, j) PROVE QueueInv'
  <2> DEFINE x == [id |-> j, attempts |-> job[j].attempts, next |-> "start"]
  <2>1. UNCHANGED <<job, dead, drawn>> /\ call' = [call EXCEPT ![c] = x]
    BY <1>3 DEF Pick
  <2>2. job' \in [Job -> Rows] /\ (\A k \in Job : Present(k)' <=> Present(k)) /\ j \in drawn
    BY <1>3, <2>1 DEF Pick, Runnable, QueueInv, QueueTables, Present
  <2>3. x \in Calls
    BY DEF QueueInv, QueueTables, Rows, Calls
  <2>4. x.next = "start" /\ x.id = j
    OBVIOUS
  <2> HIDE DEF x
  <2> QED BY <2>1, <2>2, <2>3, <2>4, RowsStay
\* The three writes of handleJob, each of a row the call may no longer find.
<1>4. ASSUME NEW c \in Call, NEW new \in Rows, new.status # "absent", call[c].next # "idle",
             NEW next \in {"idle", "finish", "bury"},
             Update(call[c].id, new), Goes(c, next), UNCHANGED <<dead, drawn>>
      PROVE  QueueInv'
  <2>1. call[c].id \in Job /\ call[c].id \in drawn
    BY <1>4, CallsAreJobs
  <2>2. job' \in [Job -> Rows] /\ (\A k \in Job : Present(k)' <=> Present(k))
    BY <1>4, <2>1, UpdateKeepsRows
  <2>3. PICK x \in Calls : /\ call' = [call EXCEPT ![c] = x] /\ x.next = next
                           /\ next # "idle" => x.id = call[c].id
    BY <1>4, CallGoes
  <2> QED BY <1>4, <2>1, <2>2, <2>3, RowsStay
<1>5. ASSUME NEW c \in Call, StartJob(c) PROVE QueueInv'
  <2> DEFINE new == [job[call[c].id] EXCEPT !.status = "processing"]
  <2>1. call[c].next # "idle" /\ call[c].id \in Job
    BY <1>5, CallsAreJobs DEF StartJob
  <2>2. new \in Rows /\ new.status # "absent"
    BY <2>1, Restated DEF JobStatus
  <2>3. Update(call[c].id, new) /\ Goes(c, "finish") /\ UNCHANGED <<dead, drawn>>
    BY <1>5 DEF StartJob
  <2> HIDE DEF new
  <2> QED BY <1>4, <2>1, <2>2, <2>3
<1>6. ASSUME NEW c \in Call, FinishJob(c) PROVE QueueInv'
  <2> DEFINE new == [job[call[c].id] EXCEPT !.status = "completed"]
  <2>1. call[c].next # "idle" /\ call[c].id \in Job
    BY <1>6, CallsAreJobs DEF FinishJob
  <2>2. new \in Rows /\ new.status # "absent"
    BY <2>1, Restated DEF JobStatus
  <2>3. Update(call[c].id, new) /\ Goes(c, "idle") /\ UNCHANGED <<dead, drawn>>
    BY <1>6 DEF FinishJob
  <2> HIDE DEF new
  <2> QED BY <1>4, <2>1, <2>2, <2>3
<1>7. ASSUME NEW c \in Call, FailJob(c) PROVE QueueInv'
  <2> DEFINE counted == IF call[c].attempts < MaxAttempts THEN call[c].attempts + 1 ELSE MaxAttempts
             new == [status |-> "failed", attempts |-> counted]
             next == IF counted = MaxAttempts THEN "bury" ELSE "idle"
  <2>1. call[c].next # "idle" /\ Update(call[c].id, new) /\ Goes(c, next) /\ UNCHANGED <<dead, drawn>>
    BY <1>7 DEF FailJob
  <2>2. counted \in Nat
    <3>1. call[c].attempts \in Nat /\ MaxAttempts \in Nat
      BY QueueAssumption DEF QueueAssumption, QueueInv, QueueTables, Calls
    <3> QED BY <3>1
  <2>3. new \in Rows /\ new.status # "absent" /\ next \in {"idle", "finish", "bury"}
    BY <2>2 DEF Rows, JobStatus
  <2> HIDE DEF new, next
  <2> QED BY <1>4, <2>1, <2>3
<1>8. ASSUME NEW c \in Call, CallDies(c) PROVE QueueInv'
  <2>1. UNCHANGED <<job, dead, drawn>> /\ Goes(c, "idle")
    BY <1>8 DEF CallDies
  <2>2. PICK x \in Calls : call' = [call EXCEPT ![c] = x] /\ x.next = "idle"
    BY <2>1, CallGoes
  <2>3. job' \in [Job -> Rows] /\ (\A k \in Job : Present(k)' <=> Present(k))
    BY <2>1 DEF QueueInv, QueueTables, Present
  <2> QED BY <2>1, <2>2, <2>3, RowsStay
<1>9. ASSUME RequeueReaped PROVE QueueInv'
  <2>1. ASSUME NEW j \in Job, Unfinished(j), job' = [job EXCEPT ![j].status = "pending"],
               UNCHANGED <<dead, call, drawn>>
        PROVE  QueueInv'
    <3>1. [job[j] EXCEPT !.status = "pending"] \in Rows
          /\ [job[j] EXCEPT !.status = "pending"].status = "pending"
      BY Restated DEF JobStatus
    <3>2. \A k \in Job : job'[k] = IF k = j THEN [job[j] EXCEPT !.status = "pending"] ELSE job[k]
      BY <2>1 DEF QueueInv, QueueTables
    <3>3. job' \in [Job -> Rows]
      BY <2>1, <3>1 DEF QueueInv, QueueTables
    <3>4. \A k \in Job : Present(k)' <=> Present(k)
      BY <2>1, <3>1, <3>2 DEF Unfinished, Present
    <3> QED BY <2>1, <3>3, <3>4, RowsStay
  <2>2. ASSUME NEW j \in Job, Enqueue(j), UNCHANGED <<dead, call>> PROVE QueueInv'
    BY <2>2, EnqueueKeeps
  <2> QED BY <1>1, <1>9, <2>1, <2>2 DEF RequeueReaped
<1>10. ASSUME NEW S \in SUBSET Job, SweepStuck(S) PROVE QueueInv'
  <2>1. UNCHANGED <<dead, call, drawn>>
        /\ job' = [j \in Job |-> IF j \in S THEN [job[j] EXCEPT !.status = "pending"] ELSE job[j]]
    BY <1>10 DEF SweepStuck
  <2>2. \A j \in Job : [job[j] EXCEPT !.status = "pending"] \in Rows
                       /\ [job[j] EXCEPT !.status = "pending"].status = "pending"
    BY Restated DEF JobStatus
  <2>3. job' \in [Job -> Rows]
    BY <2>1, <2>2 DEF QueueInv, QueueTables
  <2>4. \A k \in Job : Present(k)' <=> Present(k)
    BY <1>10, <2>1, <2>2 DEF SweepStuck, Present
  <2> QED BY <2>1, <2>3, <2>4, RowsStay
<1>11. CASE QueueStep
  BY <1>2, <1>3, <1>5, <1>6, <1>7, <1>8, <1>9, <1>10, <1>11, MoveKeeps, RequeueKeeps DEF QueueStep
<1>12. CASE QueueNext
  BY <1>1, <1>11, <1>12 DEF QueueNext, ReapLease, queueVars
<1>13. CASE UNCHANGED <<leaseVars, queueVars>>
  BY <1>1, <1>13 DEF queueVars
<1> QED BY <1>12, <1>13

\* moveToDeadLetter and requeueDeadLetter, under handleJob, the sweep and the
\* reaper: no job drawn is ever in neither table.
THEOREM NoJobIsLost == QueueSpec => []NoJobLost
<1>1. LeaseInit /\ QueueInit => QueueInv
  BY QueueInvInit
<1>2. QueueInv => NoJobLost
  BY DEF QueueInv
<1> QED BY <1>1, <1>2, QueueInvStep, PTL DEF QueueSpec
=============================================================================
