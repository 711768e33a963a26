---------------------------- MODULE OutboxProofs ----------------------------
(***************************************************************************)
(* The outbox dispatcher and its dead letter queue, for any events, slots, *)
(* batches and retries, and whatever fails. A slot works on an event of    *)
(* its own, because BullMQ knows the job by its id; a row lock is held     *)
(* inside the transaction that took it; rows of the DLQ differ in ids and  *)
(* events; what a parking slot, or the sweep, has read is still so when it *)
(* is written; an event its handler never got has a row.                   *)
(***************************************************************************)
EXTENDS OutboxDispatch, CollectionProofs, TLAPS

OutboxRow == [status : Status, retries : 0 .. MaxRetries - 1, due : BOOLEAN]
SlotRow == [pc : Pc, event : Event \cup {NoRow}, cut : BOOLEAN,
            retries : 0 .. MaxRetries, row : RowId \cup {NoRow}]

Types ==
  /\ outbox \in [Event -> OutboxRow] /\ sent \in [Event -> BOOLEAN]
  /\ lock \in [Event -> Worker \cup {Free}] /\ polled \subseteq Event
  /\ job \in [Event -> Job] /\ worker \in [Worker -> SlotRow]
  /\ dlq \in Seq(DlqRow)
  /\ sweep.todo \in Seq(DlqRow) /\ sweep.act \in {"inspect", "release", "redrive"}
  /\ sweep = [todo |-> sweep.todo, act |-> sweep.act]
  /\ request \in {NoRequest} \cup [event : Event, row : RowId \cup {NoRow}]

\* A row lock is held inside the transaction that took it.
LockInv ==
  \A e \in Event : lock[e] # Free =>
     worker[lock[e]].event = e /\ worker[lock[e]].pc \in {"connect", "claim"}

\* Slots work on jobs of their own, and on one event each.
SlotInv ==
  /\ \A w \in Worker :
       IF worker[w].pc = "idle" THEN worker[w].event = NoRow
       ELSE /\ worker[w].event \in Event /\ job[worker[w].event] = "active"
            /\ worker[w].pc = "requeue" => worker[w].retries < MaxRetries
            /\ worker[w].pc = "deliver" => sent[worker[w].event]
  /\ \A v, w \in Worker : worker[v].pc # "idle" /\ worker[v].event = worker[w].event => v = w

\* Rows of the DLQ differ in their ids and in their events.
Uniq(d) ==
  \A i, j \in 1 .. Len(d) : i # j => d[i].id # d[j].id /\ d[i].event # d[j].event

\* What a slot that parks an event found in the DLQ is still so.
ParkInv ==
  \A w \in Worker : worker[w].pc = "park" =>
    IF worker[w].row = NoRow THEN \A i \in 1 .. Len(dlq) : dlq[i].event # worker[w].event
    ELSE sent[worker[w].event] \/ \E i \in 1 .. Len(dlq) : dlq[i].event = worker[w].event

\* What the sweep has read is still so.
SweepInv ==
  /\ \A k \in 1 .. Len(sweep.todo), i \in 1 .. Len(dlq) :
        dlq[i].id = sweep.todo[k].id => dlq[i].event = sweep.todo[k].event
  /\ sweep.act # "inspect" => sweep.todo # <<>>
  /\ sweep.act = "release" => sent[sweep.todo[1].event]

LostInv ==
  \A e \in Event :
    \/ outbox[e].status \in {"absent", "pending", "processing"}
    \/ sent[e]
    \/ outbox[e].status = "dead_letter" /\ \E i \in 1 .. Len(dlq) : dlq[i].event = e

OutboxInv ==
  Types /\ LockInv /\ SlotInv /\ Uniq(dlq) /\ ParkInv /\ SweepInv /\ LostInv

\* Free is no slot, NoRow no event and no row.
LEMMA ConstantsAre ==
  /\ Free \notin Worker /\ NoRow \notin Event /\ NoRow \notin RowId /\ RowId \subseteq Nat
  /\ MaxRetries \in Nat /\ MaxRetries > 0 /\ SweepBatch \in Nat /\ SweepBatch > 0
  BY OutboxAssumption DEF NoRow, Event

\* A slot at rest has no event, row or attempts.
LEMMA IdleIs ==
  /\ Idle \in SlotRow /\ Idle.pc = "idle" /\ Idle.event = NoRow /\ Idle.retries = 0
  /\ Idle.row = NoRow /\ Idle.cut = FALSE
  BY ConstantsAre DEF Idle, SlotRow, Pc

\* The invariant holds at first.
LEMMA OutboxInvInit == Init => OutboxInv
<1> SUFFICES ASSUME Init PROVE OutboxInv
  OBVIOUS
<1>1. /\ dlq = <<>> /\ dlq \in Seq(DlqRow) /\ Len(dlq) = 0
      /\ sweep.todo = <<>> /\ sweep.act = "inspect"
      /\ sweep.todo \in Seq(DlqRow) /\ Len(sweep.todo) = 0
  BY DEF Init
<1>2. /\ \A w \in Worker : worker[w] = Idle
      /\ \A e \in Event : lock[e] = Free /\ outbox[e].status = "absent"
  BY DEF Init
<1>3. Types
  <2>1. outbox \in [Event -> OutboxRow]
    BY ConstantsAre DEF Init, OutboxRow, Status
  <2>2. worker \in [Worker -> SlotRow]
    BY IdleIs DEF Init
  <2> QED
    BY <1>1, <2>1, <2>2 DEF Init, Types, Job
<1>4. LockInv /\ LostInv
  BY <1>2 DEF LockInv, LostInv
<1>5. SlotInv /\ ParkInv
  BY <1>2, IdleIs DEF SlotInv, ParkInv
<1>6. Uniq(dlq) /\ SweepInv
  BY <1>1 DEF Uniq, SweepInv
<1> QED
  BY <1>3, <1>4, <1>5, <1>6 DEF OutboxInv

-----------------------------------------------------------------------------
\* One slot moves on.
Moves(w) ==
  /\ worker' \in [Worker -> SlotRow]
  /\ \A v \in Worker \ {w} : worker'[v] = worker[v]

\* Goto moves one slot's pc and nothing else of it.
LEMMA GotoIs ==
  ASSUME Types, NEW w \in Worker, NEW pc \in Pc, Goto(w, pc)
  PROVE  /\ Moves(w) /\ worker'[w].pc = pc /\ worker'[w].event = worker[w].event
         /\ worker'[w].cut = worker[w].cut /\ worker'[w].retries = worker[w].retries
         /\ worker'[w].row = worker[w].row
  BY DEF Types, SlotRow, Goto, Moves

\* Finish sends the slot to rest and touches the job of its event only.
LEMMA FinishIs ==
  ASSUME Types, SlotInv, NEW w \in Worker, worker[w].pc # "idle", Finish(w)
  PROVE  /\ Moves(w) /\ worker'[w] = Idle /\ job' \in [Event -> Job]
         /\ \A e \in Event : e # worker[w].event => job'[e] = job[e]
<1>1. worker[w].event \in Event /\ "retained" \in Job
  BY DEF SlotInv, Job
<1> QED
  BY <1>1, IdleIs DEF Types, Finish, Moves

\* Unlocked gives back the locks of one slot and keeps the others.
LEMMA UnlockedIs ==
  ASSUME Types, NEW w \in Worker
  PROVE  /\ Unlocked(w) \in [Event -> Worker \cup {Free}]
         /\ \A e \in Event : Unlocked(w)[e] = IF lock[e] = w THEN Free ELSE lock[e]
  BY DEF Types, Unlocked

\* Locks: a slot may leave its transaction when it holds nothing any more.
LEMMA LocksStay ==
  ASSUME Types, LockInv, NEW w \in Worker, Moves(w), \A e \in Event : lock'[e] # Free => lock'[e] = lock[e],
         \/ \A e \in Event : lock'[e] # w
         \/ worker'[w].event = worker[w].event /\ worker'[w].pc \in {"connect", "claim"}
  PROVE  LockInv'
<1> SUFFICES ASSUME NEW e \in Event, lock'[e] # Free
             PROVE  worker'[lock'[e]].event = e /\ worker'[lock'[e]].pc \in {"connect", "claim"}
  BY DEF LockInv
<1>1. lock'[e] = lock[e] /\ lock[e] \in Worker
  BY DEF Types
<1>2. worker[lock[e]].event = e
  BY <1>1 DEF LockInv
<1>3. CASE lock[e] = w
  BY <1>1, <1>2, <1>3
<1>4. CASE lock[e] # w
  BY <1>1, <1>4 DEF LockInv, Moves
<1> QED
  BY <1>3, <1>4

\* A slot goes on with its event.
LEMMA SlotsMove ==
  ASSUME SlotInv, NEW w \in Worker, Moves(w), UNCHANGED job,
         \A e \in Event : sent[e] => sent'[e],
         worker[w].pc # "idle", worker'[w].pc # "idle", worker'[w].event = worker[w].event,
         worker'[w].pc = "requeue" => worker'[w].retries < MaxRetries,
         worker'[w].pc = "deliver" => sent'[worker[w].event]
  PROVE  SlotInv'
<1>1. ASSUME NEW v \in Worker
      PROVE  IF worker'[v].pc = "idle" THEN worker'[v].event = NoRow
             ELSE /\ worker'[v].event \in Event /\ job'[worker'[v].event] = "active"
                  /\ worker'[v].pc = "requeue" => worker'[v].retries < MaxRetries
                  /\ worker'[v].pc = "deliver" => sent'[worker'[v].event]
  <2>1. CASE v = w
    BY <2>1 DEF SlotInv
  <2>2. CASE v # w
    <3>1. worker'[v] = worker[v]
      BY <2>2 DEF Moves
    <3> QED
      BY <3>1 DEF SlotInv
  <2> QED
    BY <2>1, <2>2
<1>2. ASSUME NEW v \in Worker, NEW u \in Worker, worker'[v].pc # "idle",
             worker'[v].event = worker'[u].event
      PROVE  v = u
  <2>1. /\ worker'[v].event = worker[v].event /\ worker'[u].event = worker[u].event
        /\ worker[v].pc # "idle"
    BY <1>2 DEF Moves
  <2> QED
    BY <1>2, <2>1 DEF SlotInv
<1> QED
  BY <1>1, <1>2 DEF SlotInv

\* A slot is done with its event.
LEMMA SlotsLeave ==
  ASSUME SlotInv, NEW w \in Worker, Moves(w), worker[w].pc # "idle", worker'[w] = Idle,
         \A e \in Event : e # worker[w].event => job'[e] = job[e],
         \A e \in Event : sent[e] => sent'[e]
  PROVE  SlotInv'
<1>1. \A v \in Worker \ {w} : worker'[v] = worker[v]
  BY DEF Moves
<1>2. ASSUME NEW v \in Worker
      PROVE  IF worker'[v].pc = "idle" THEN worker'[v].event = NoRow
             ELSE /\ worker'[v].event \in Event /\ job'[worker'[v].event] = "active"
                  /\ worker'[v].pc = "requeue" => worker'[v].retries < MaxRetries
                  /\ worker'[v].pc = "deliver" => sent'[worker'[v].event]
  <2>1. CASE v = w
    BY <2>1, IdleIs
  <2>2. CASE v # w
    <3>1. worker'[v] = worker[v]
      BY <1>1, <2>2
    <3>2. worker[v].pc # "idle" => worker[v].event # worker[w].event
      BY <2>2 DEF SlotInv
    <3> QED
      BY <3>1, <3>2 DEF SlotInv
  <2> QED
    BY <2>1, <2>2
<1>3. ASSUME NEW v \in Worker, NEW u \in Worker, worker'[v].pc # "idle",
             worker'[v].event = worker'[u].event
      PROVE  v = u
  <2>1. v # w /\ worker'[v] = worker[v]
    BY <1>1, <1>3, IdleIs
  <2>2. CASE u = w
    <3>1. worker'[v].event \in Event /\ worker'[u].event = NoRow
      BY <1>2, <1>3, <2>2, IdleIs
    <3> QED
      BY <1>3, <3>1, ConstantsAre
  <2>3. CASE u # w
    BY <1>1, <1>3, <2>1, <2>3 DEF SlotInv
  <2> QED
    BY <2>2, <2>3
<1> QED
  BY <1>2, <1>3 DEF SlotInv

\* Jobs that nobody works on may change.
LEMMA SlotsStay ==
  ASSUME SlotInv, UNCHANGED worker, \A e \in Event : sent[e] => sent'[e],
         \A e \in Event : (\E w \in Worker : worker[w].pc # "idle" /\ worker[w].event = e)
                            => job'[e] = job[e]
  PROVE  SlotInv'
<1>1. ASSUME NEW v \in Worker
      PROVE  IF worker'[v].pc = "idle" THEN worker'[v].event = NoRow
             ELSE /\ worker'[v].event \in Event /\ job'[worker'[v].event] = "active"
                  /\ worker'[v].pc = "requeue" => worker'[v].retries < MaxRetries
                  /\ worker'[v].pc = "deliver" => sent'[worker'[v].event]
  BY DEF SlotInv
<1> QED
  BY <1>1 DEF SlotInv

-----------------------------------------------------------------------------
Safe == {"absent", "pending", "processing"}

\* Calls that leave the DLQ and what the sweep has read of it alone.
LEMMA RowsStay ==
  ASSUME Types, SlotInv, Uniq(dlq), ParkInv, SweepInv, LostInv, UNCHANGED <<dlq, sweep>>,
         \A v \in Worker : worker'[v].pc = "park" => worker'[v] = worker[v],
         \A e \in Event : sent[e] => sent'[e],
         \A e \in Event : \/ outbox'[e].status = outbox[e].status
                          \/ outbox'[e].status \in Safe
                          \/ sent'[e]
  PROVE  Uniq(dlq)' /\ ParkInv' /\ SweepInv' /\ LostInv'
<1>1. Uniq(dlq)'
  BY DEF Uniq
<1>2. ParkInv'
  <2> SUFFICES ASSUME NEW w \in Worker, worker'[w].pc = "park"
               PROVE  IF worker'[w].row = NoRow
                      THEN \A i \in 1 .. Len(dlq) : dlq[i].event # worker'[w].event
                      ELSE \/ sent'[worker'[w].event]
                           \/ \E i \in 1 .. Len(dlq) : dlq[i].event = worker'[w].event
    BY DEF ParkInv
  <2>1. worker'[w] = worker[w] /\ worker[w].event \in Event
    BY DEF SlotInv
  <2> QED
    BY <2>1 DEF ParkInv
<1>3. SweepInv'
  <2>1. sweep.act = "release" => sweep.todo[1].event \in Event
    <3>1. sweep.act = "release" => 1 \in 1 .. Len(sweep.todo)
      BY DEF SweepInv, Types
    <3>2. \A i \in 1 .. Len(sweep.todo) : sweep.todo[i] \in DlqRow
      BY ElementOfSeq DEF Types
    <3> QED
      BY <3>1, <3>2 DEF DlqRow
  <2> QED
    BY <2>1 DEF SweepInv
<1>4. LostInv'
  <2> SUFFICES ASSUME NEW e \in Event
               PROVE  \/ outbox'[e].status \in {"absent", "pending", "processing"}
                      \/ sent'[e]
                      \/ outbox'[e].status = "dead_letter" /\ \E i \in 1 .. Len(dlq) : dlq[i].event = e
    BY DEF LostInv
  <2> QED
    BY DEF LostInv, Safe
<1> QED
  BY <1>1, <1>2, <1>3, <1>4

\* The invariant but for the types, from its parts.
LEMMA OutboxInvFrom ==
  ASSUME Types', LockInv', SlotInv', Uniq(dlq)', ParkInv', SweepInv', LostInv'
  PROVE  OutboxInv'
  BY DEF OutboxInv

\* One event's status is written.
LEMMA StatusWritten ==
  ASSUME Types, NEW e \in Event, NEW st \in Status, outbox' = [outbox EXCEPT ![e].status = st]
  PROVE  /\ outbox' \in [Event -> OutboxRow] /\ outbox'[e].status = st
         /\ \A f \in Event : f # e => outbox'[f] = outbox[f]
<1> DEFINE row == [outbox[e] EXCEPT !.status = st]
<1>1. outbox \in [Event -> OutboxRow] /\ outbox' = [outbox EXCEPT ![e] = row]
  BY DEF Types
<1>2. row \in OutboxRow /\ row.status = st
  BY <1>1 DEF OutboxRow
<1> HIDE DEF row
<1> QED
  BY <1>1, <1>2

\* An event that is redriven is pending again.
LEMMA FreshIs == Fresh \in OutboxRow /\ Fresh.status = "pending"
  BY ConstantsAre DEF Fresh, OutboxRow, Status

-----------------------------------------------------------------------------
\* Publishing, polling and BullMQ.
LEMMA QueueingKeeps ==
  ASSUME OutboxInv,
         \/ \E e \in Event : Publish(e) \/ JobStalled(e) \/ Trim(e)
         \/ Poll \/ Enqueue \/ EnqueueFails
  PROVE  OutboxInv'
<1>0. Types /\ LockInv /\ SlotInv /\ Uniq(dlq) /\ ParkInv /\ SweepInv /\ LostInv
  BY DEF OutboxInv
<1>1. UNCHANGED <<sent, lock, worker, dlq, sweep, request>>
  BY DEF Publish, JobStalled, Trim, Poll, Enqueue, EnqueueFails
<1>2. /\ outbox' \in [Event -> OutboxRow] /\ polled' \subseteq Event /\ job' \in [Event -> Job]
      /\ \A e \in Event : outbox'[e].status = outbox[e].status \/ outbox'[e].status \in Safe
      /\ \A e \in Event : job'[e] # job[e] => \/ job[e] # "active"
                                              \/ \A w \in Worker : worker[w].event # e
  <2>1. ASSUME NEW e \in Event, Publish(e)
        PROVE  /\ outbox' \in [Event -> OutboxRow] /\ UNCHANGED <<polled, job>>
               /\ \A f \in Event : outbox'[f].status = outbox[f].status \/ outbox'[f].status \in Safe
    BY <1>0, <2>1, FreshIs DEF Publish, Types, Safe
  <2>2. ASSUME NEW e \in Event, JobStalled(e)
        PROVE  /\ UNCHANGED <<outbox, polled>> /\ job' \in [Event -> Job]
               /\ \A f \in Event : job'[f] # job[f] => \A w \in Worker : worker[w].event # f
    <3>1. "waiting" \in Job /\ "retained" \in Job
      BY DEF Job
    <3> QED
      BY <1>0, <2>2, <3>1 DEF JobStalled, Types
  <2>3. ASSUME NEW e \in Event, Trim(e)
        PROVE  /\ UNCHANGED <<outbox, polled>> /\ job' \in [Event -> Job]
               /\ \A f \in Event : job'[f] # job[f] => job[f] # "active"
    <3>1. "none" \in Job
      BY DEF Job
    <3> QED
      BY <1>0, <2>3, <3>1 DEF Trim, Types
  <2>4. CASE Poll
    BY <1>0, <2>4 DEF Poll, Pollable, Types
  <2>5. CASE Enqueue
    <3>1. "waiting" \in Job
      BY DEF Job
    <3> QED
      BY <1>0, <2>5, <3>1 DEF Enqueue, Types
  <2>6. CASE EnqueueFails
    BY <1>0, <2>6 DEF EnqueueFails, Types
  <2>7. UNCHANGED <<polled, job>> => polled' \subseteq Event /\ job' \in [Event -> Job]
    BY <1>0 DEF Types
  <2>8. UNCHANGED outbox => outbox' \in [Event -> OutboxRow]
    BY <1>0 DEF Types
  <2>9. UNCHANGED polled => polled' \subseteq Event
    BY <1>0 DEF Types
  <2> QED
    BY <2>1, <2>2, <2>3, <2>4, <2>5, <2>6, <2>7, <2>8, <2>9
<1>3. Types'
  BY <1>0, <1>1, <1>2 DEF Types
<1>4. LockInv'
  BY <1>0, <1>1 DEF LockInv
<1>5. SlotInv'
  <2>1. \A e \in Event : (\E w \in Worker : worker[w].pc # "idle" /\ worker[w].event = e)
                            => job'[e] = job[e]
    BY <1>0, <1>2 DEF SlotInv
  <2> QED
    BY <1>0, <1>1, <2>1, SlotsStay
<1>6. Uniq(dlq)' /\ ParkInv' /\ SweepInv' /\ LostInv'
  BY <1>0, <1>1, <1>2, RowsStay
<1> QED
  BY <1>3, <1>4, <1>5, <1>6, OutboxInvFrom

\* A slot takes a job that waits: nobody else works on it.
LEMMA TakingKeeps ==
  ASSUME OutboxInv, NEW w \in Worker, NEW e \in Event, Take(w, e) PROVE OutboxInv'
<1>0. Types /\ LockInv /\ SlotInv /\ Uniq(dlq) /\ ParkInv /\ SweepInv /\ LostInv
  BY DEF OutboxInv
<1> DEFINE new == [Idle EXCEPT !.pc = "lock", !.event = e]
<1>1. /\ worker[w].pc = "idle" /\ job[e] = "waiting"
      /\ job' = [job EXCEPT ![e] = "active"] /\ worker' = [worker EXCEPT ![w] = new]
      /\ UNCHANGED <<outbox, sent, lock, polled, dlq, sweep, request>>
  BY DEF Take
<1>2. new \in SlotRow /\ new.pc = "lock" /\ new.event = e
  BY IdleIs DEF SlotRow, Pc
<1> HIDE DEF new
<1>3. /\ Moves(w) /\ worker'[w] = new /\ worker' \in [Worker -> SlotRow]
      /\ \A v \in Worker \ {w} : worker'[v] = worker[v]
  BY <1>0, <1>1, <1>2 DEF Types, Moves
<1>4. job' \in [Event -> Job] /\ job'[e] = "active" /\ \A f \in Event : f # e => job'[f] = job[f]
  <2>1. "active" \in Job
    BY DEF Job
  <2> QED
    BY <1>0, <1>1, <2>1 DEF Types
<1>5. Types'
  BY <1>0, <1>1, <1>3, <1>4 DEF Types
<1>6. LockInv'
  <2>1. \A f \in Event : lock'[f] # w
    BY <1>0, <1>1, ConstantsAre DEF LockInv
  <2> QED
    BY <1>0, <1>1, <1>3, <2>1, LocksStay
<1>7. SlotInv'
  <2>1. \A v \in Worker : worker[v].event # e
    BY <1>0, <1>1, ConstantsAre DEF SlotInv
  <2>2. ASSUME NEW v \in Worker
        PROVE  IF worker'[v].pc = "idle" THEN worker'[v].event = NoRow
               ELSE /\ worker'[v].event \in Event /\ job'[worker'[v].event] = "active"
                    /\ worker'[v].pc = "requeue" => worker'[v].retries < MaxRetries
                    /\ worker'[v].pc = "deliver" => sent'[worker'[v].event]
    <3>1. CASE v = w
      BY <1>2, <1>3, <1>4, <3>1
    <3>2. CASE v # w
      BY <1>0, <1>1, <1>3, <1>4, <2>1, <3>2 DEF SlotInv
    <3> QED
      BY <3>1, <3>2
  <2>3. ASSUME NEW v \in Worker, NEW u \in Worker, worker'[v].pc # "idle",
               worker'[v].event = worker'[u].event
        PROVE  v = u
    <3>1. (v = w) <=> (worker'[v].event = e)
      BY <1>2, <1>3, <2>1
    <3>2. (u = w) <=> (worker'[u].event = e)
      BY <1>2, <1>3, <2>1
    <3>3. CASE v = w
      BY <2>3, <3>1, <3>2, <3>3
    <3>4. CASE v # w
      <4>1. worker'[v] = worker[v] /\ worker'[u] = worker[u]
        BY <1>3, <2>3, <3>1, <3>2, <3>4
      <4> QED
        BY <1>0, <2>3, <4>1 DEF SlotInv
    <3> QED
      BY <3>3, <3>4
  <2> QED
    BY <2>2, <2>3 DEF SlotInv
<1>8. Uniq(dlq)' /\ ParkInv' /\ SweepInv' /\ LostInv'
  <2>1. \A v \in Worker : worker'[v].pc = "park" => worker'[v] = worker[v]
    BY <1>2, <1>3
  <2> QED
    BY <1>0, <1>1, <2>1, RowsStay
<1> QED
  BY <1>5, <1>6, <1>7, <1>8, OutboxInvFrom

-----------------------------------------------------------------------------
\* What the steps of a slot on its event share: it stays on it, and what it
\* parks it has not found yet.
LEMMA StepKeeps ==
  ASSUME OutboxInv, NEW w \in Worker, worker[w].pc # "idle", Moves(w),
         worker'[w].pc \notin {"idle", "park"}, worker'[w].event = worker[w].event,
         worker'[w].pc = "requeue" => worker'[w].retries < MaxRetries,
         worker'[w].pc = "deliver" => sent'[worker[w].event],
         outbox' \in [Event -> OutboxRow], sent' \in [Event -> BOOLEAN],
         lock' \in [Event -> Worker \cup {Free}],
         \/ lock' = lock /\ worker[w].pc \notin {"connect", "claim"}
         \/ lock' = lock /\ worker'[w].pc \in {"connect", "claim"}
         \/ lock' = lock /\ lock[worker[w].event] = Free
         \/ lock' = Unlocked(w),
         UNCHANGED <<polled, job, dlq, sweep, request>>,
         \A e \in Event : sent[e] => sent'[e],
         \A e \in Event : \/ outbox'[e].status = outbox[e].status
                          \/ outbox'[e].status \in Safe
                          \/ sent'[e]
  PROVE  OutboxInv'
<1>0. Types /\ LockInv /\ SlotInv /\ Uniq(dlq) /\ ParkInv /\ SweepInv /\ LostInv
  BY DEF OutboxInv
<1>1. Types'
  BY <1>0 DEF Types, Moves
<1>2. LockInv'
  <2>1. ASSUME lock' = lock, worker[w].pc \notin {"connect", "claim"}
        PROVE  \A e \in Event : lock'[e] # w
    BY <1>0, <2>1, ConstantsAre DEF LockInv
  <2>2. ASSUME lock' = lock, lock[worker[w].event] = Free PROVE \A e \in Event : lock'[e] # w
    BY <1>0, <2>2, ConstantsAre DEF LockInv
  <2>3. ASSUME lock' = Unlocked(w) PROVE \A e \in Event : lock'[e] # w /\ (lock'[e] # Free => lock'[e] = lock[e])
    BY <1>0, <2>3, UnlockedIs, ConstantsAre
  <2>4. \A e \in Event : lock'[e] # Free => lock'[e] = lock[e]
    BY <2>3
  <2>5. \/ \A e \in Event : lock'[e] # w
        \/ worker'[w].event = worker[w].event /\ worker'[w].pc \in {"connect", "claim"}
    BY <2>1, <2>2, <2>3
  <2> QED
    BY <1>0, <2>4, <2>5, LocksStay
<1>3. SlotInv'
  BY <1>0, SlotsMove
<1>4. Uniq(dlq)' /\ ParkInv' /\ SweepInv' /\ LostInv'
  <2>1. \A v \in Worker : worker'[v].pc = "park" => worker'[v] = worker[v]
    BY DEF Moves
  <2> QED
    BY <1>0, <2>1, RowsStay
<1> QED
  BY <1>1, <1>2, <1>3, <1>4, OutboxInvFrom

\* What its last steps share: the job is finished, or nobody's.
LEMMA LeavingKeeps ==
  ASSUME OutboxInv, NEW w \in Worker, worker[w].pc # "idle", Moves(w), worker'[w] = Idle,
         job' \in [Event -> Job], \A e \in Event : e # worker[w].event => job'[e] = job[e],
         outbox' \in [Event -> OutboxRow],
         \/ lock' = lock /\ \A e \in Event : lock[e] # w
         \/ lock' = Unlocked(w),
         UNCHANGED <<sent, polled, dlq, sweep, request>>,
         \A e \in Event : \/ outbox'[e].status = outbox[e].status
                          \/ outbox'[e].status \in Safe
  PROVE  OutboxInv'
<1>0. Types /\ LockInv /\ SlotInv /\ Uniq(dlq) /\ ParkInv /\ SweepInv /\ LostInv
  BY DEF OutboxInv
<1>1. /\ lock' \in [Event -> Worker \cup {Free}]
      /\ \A e \in Event : lock'[e] # w /\ (lock'[e] # Free => lock'[e] = lock[e])
  <2>1. CASE lock' = lock /\ \A e \in Event : lock[e] # w
    BY <1>0, <2>1 DEF Types
  <2>2. CASE lock' = Unlocked(w)
    BY <1>0, <2>2, UnlockedIs, ConstantsAre
  <2> QED
    BY <2>1, <2>2
<1>2. Types'
  BY <1>0, <1>1 DEF Types, Moves
<1>3. LockInv'
  BY <1>0, <1>1, LocksStay
<1>4. SlotInv'
  BY <1>0, SlotsLeave
<1>5. Uniq(dlq)' /\ ParkInv' /\ SweepInv' /\ LostInv'
  <2>1. \A v \in Worker : worker'[v].pc = "park" => worker'[v] = worker[v]
    BY IdleIs DEF Moves
  <2> QED
    BY <1>0, <2>1, RowsStay
<1> QED
  BY <1>2, <1>3, <1>4, <1>5, OutboxInvFrom

\* The places a slot can be at.
LEMMA PcIs ==
  /\ "lock" \in Pc /\ "connect" \in Pc /\ "claim" \in Pc /\ "dispatch" \in Pc
  /\ "deliver" \in Pc /\ "commit" \in Pc /\ "retry" \in Pc /\ "requeue" \in Pc
  /\ "bury" \in Pc /\ "park" \in Pc
  BY DEF Pc

\* Taking the row lock: it was free, and is this slot's.
LEMMA LockingKeeps ==
  ASSUME OutboxInv, NEW w \in Worker, LockRow(w) PROVE OutboxInv'
<1>0. Types /\ LockInv /\ SlotInv /\ Uniq(dlq) /\ ParkInv /\ SweepInv /\ LostInv
  BY DEF OutboxInv
<1> DEFINE e == worker[w].event
<1>1. /\ worker[w].pc = "lock" /\ lock[e] = Free /\ e \in Event
      /\ UNCHANGED <<outbox, sent, polled, dlq, sweep, request>>
  BY <1>0 DEF LockRow, SlotInv
<1>2. \A f \in Event : lock[f] # w
  BY <1>0, <1>1, ConstantsAre DEF LockInv
<1>3. CASE lock' = [lock EXCEPT ![e] = w] /\ Goto(w, "connect") /\ UNCHANGED job
  <2>1. /\ Moves(w) /\ worker'[w].pc = "connect" /\ worker'[w].event = e
        /\ worker' \in [Worker -> SlotRow]
    BY <1>0, <1>3, PcIs, GotoIs DEF Moves
  <2>2. /\ lock' \in [Event -> Worker \cup {Free}] /\ lock'[e] = w
        /\ \A f \in Event : f # e => lock'[f] = lock[f]
    BY <1>0, <1>1, <1>3 DEF Types
  <2>3. Types'
    BY <1>0, <1>1, <1>3, <2>1, <2>2 DEF Types
  <2>4. LockInv'
    <3>1. ASSUME NEW f \in Event, lock'[f] # Free
          PROVE  worker'[lock'[f]].event = f /\ worker'[lock'[f]].pc \in {"connect", "claim"}
      <4>1. CASE f = e
        BY <2>1, <2>2, <4>1
      <4>2. CASE f # e
        <5>1. lock'[f] = lock[f] /\ lock[f] \in Worker \ {w}
          BY <1>0, <1>2, <2>2, <3>1, <4>2 DEF Types
        <5>2. worker'[lock[f]] = worker[lock[f]]
          BY <2>1, <5>1 DEF Moves
        <5> QED
          BY <1>0, <3>1, <5>1, <5>2 DEF LockInv
      <4> QED
        BY <4>1, <4>2
    <3> QED
      BY <3>1 DEF LockInv
  <2>5. SlotInv'
    BY <1>0, <1>1, <1>3, <2>1, SlotsMove
  <2>6. Uniq(dlq)' /\ ParkInv' /\ SweepInv' /\ LostInv'
    <3>1. \A v \in Worker : worker'[v].pc = "park" => worker'[v] = worker[v]
      BY <2>1 DEF Moves
    <3> QED
      BY <1>0, <1>1, <3>1, RowsStay
  <2> QED
    BY <2>3, <2>4, <2>5, <2>6, OutboxInvFrom
<1>4. CASE Finish(w) /\ UNCHANGED lock
  <2>1. /\ Moves(w) /\ worker'[w] = Idle /\ job' \in [Event -> Job]
        /\ \A f \in Event : f # worker[w].event => job'[f] = job[f]
    BY <1>0, <1>1, <1>4, FinishIs
  <2>2. outbox' \in [Event -> OutboxRow] /\ \A f \in Event : outbox'[f].status = outbox[f].status
    BY <1>0, <1>1 DEF Types
  <2> QED
    BY <1>1, <1>2, <1>4, <2>1, <2>2, LeavingKeeps
<1> QED
  BY <1>3, <1>4 DEF LockRow

\* The other steps of an attempt.
LEMMA AttemptKeeps ==
  ASSUME OutboxInv, NEW w \in Worker,
         \/ Connect(w) \/ MarkProcessing(w) \/ Dispatch(w) \/ DispatchFails(w)
         \/ MarkDelivered(w) \/ Commit(w) \/ AcquireTimesOut(w) \/ ConnectionLost(w)
  PROVE  OutboxInv'
<1>0. Types /\ LockInv /\ SlotInv /\ outbox \in [Event -> OutboxRow]
      /\ sent \in [Event -> BOOLEAN] /\ lock \in [Event -> Worker \cup {Free}]
  BY DEF OutboxInv, Types
<1>1. worker[w].pc # "idle" => worker[w].event \in Event
  BY <1>0 DEF SlotInv
<1>2. UNCHANGED outbox => /\ outbox' \in [Event -> OutboxRow]
                          /\ \A e \in Event : outbox'[e].status = outbox[e].status
  BY <1>0
<1>3. UNCHANGED sent => /\ sent' \in [Event -> BOOLEAN]
                        /\ \A e \in Event : sent[e] => sent'[e]
  BY <1>0
<1>4. /\ UNCHANGED lock => lock' \in [Event -> Worker \cup {Free}]
      /\ Unlocked(w) \in [Event -> Worker \cup {Free}]
  BY <1>0, UnlockedIs
<1>5. CASE Connect(w)
  <2>1. /\ worker[w].pc = "connect" /\ Goto(w, "claim")
        /\ UNCHANGED <<outbox, sent, lock, polled, job, dlq, sweep, request>>
    BY <1>5 DEF Connect
  <2>2. Moves(w) /\ worker'[w].pc = "claim" /\ worker'[w].event = worker[w].event
    BY <1>0, <2>1, PcIs, GotoIs
  <2> QED
    BY <1>2, <1>3, <1>4, <2>1, <2>2, StepKeeps
<1>6. CASE MarkProcessing(w)
  <2>1. /\ worker[w].pc = "claim" /\ lock[worker[w].event] = Free
        /\ UNCHANGED <<sent, lock, polled, job, dlq, sweep, request>>
    BY <1>6 DEF MarkProcessing
  <2>2. CASE outbox' = [outbox EXCEPT ![worker[w].event].status = "processing"] /\ Goto(w, "dispatch")
    <3>1. Moves(w) /\ worker'[w].pc = "dispatch" /\ worker'[w].event = worker[w].event
      BY <1>0, <2>2, PcIs, GotoIs
    <3>2. /\ outbox' \in [Event -> OutboxRow]
          /\ \A e \in Event : outbox'[e].status = outbox[e].status \/ outbox'[e].status \in Safe
      <4>1. worker[w].event \in Event /\ "processing" \in Status /\ "processing" \in Safe
        BY <1>1, <2>1 DEF Status, Safe
      <4>2. /\ outbox' \in [Event -> OutboxRow] /\ outbox'[worker[w].event].status = "processing"
            /\ \A f \in Event : f # worker[w].event => outbox'[f] = outbox[f]
        BY <1>0, <2>2, <4>1, StatusWritten
      <4> QED
        BY <4>1, <4>2
    <3> QED
      BY <1>3, <1>4, <2>1, <3>1, <3>2, StepKeeps
  <2>3. CASE UNCHANGED outbox /\ Goto(w, "commit")
    <3>1. Moves(w) /\ worker'[w].pc = "commit" /\ worker'[w].event = worker[w].event
      BY <1>0, <2>3, PcIs, GotoIs
    <3> QED
      BY <1>2, <1>3, <1>4, <2>1, <2>3, <3>1, StepKeeps
  <2> QED
    BY <1>6, <2>2, <2>3 DEF MarkProcessing
<1>7. CASE Dispatch(w)
  <2>1. /\ worker[w].pc = "dispatch" /\ Goto(w, "deliver")
        /\ sent' = [sent EXCEPT ![worker[w].event] = TRUE]
        /\ UNCHANGED <<outbox, lock, polled, job, dlq, sweep, request>>
    BY <1>7 DEF Dispatch
  <2>2. Moves(w) /\ worker'[w].pc = "deliver" /\ worker'[w].event = worker[w].event
    BY <1>0, <2>1, PcIs, GotoIs
  <2>3. /\ sent' \in [Event -> BOOLEAN] /\ sent'[worker[w].event]
        /\ \A e \in Event : sent[e] => sent'[e]
    BY <1>0, <1>1, <2>1
  <2> QED
    BY <1>2, <1>4, <2>1, <2>2, <2>3, StepKeeps
<1>8. CASE DispatchFails(w)
  <2>1. /\ worker[w].pc = "dispatch" /\ Goto(w, "retry") /\ lock' = Unlocked(w)
        /\ UNCHANGED <<outbox, polled, job, dlq, sweep, request>>
    BY <1>8 DEF DispatchFails
  <2>2. PICK reached \in BOOLEAN : sent' = [sent EXCEPT ![worker[w].event] = @ \/ reached]
    BY <1>8 DEF DispatchFails
  <2>3. Moves(w) /\ worker'[w].pc = "retry" /\ worker'[w].event = worker[w].event
    BY <1>0, <2>1, PcIs, GotoIs
  <2>4. sent' \in [Event -> BOOLEAN] /\ \A e \in Event : sent[e] => sent'[e]
    BY <1>0, <1>1, <2>1, <2>2
  <2> QED
    BY <1>2, <1>4, <2>1, <2>3, <2>4, StepKeeps
<1>9. CASE MarkDelivered(w)
  <2>1. /\ worker[w].pc = "deliver" /\ lock[worker[w].event] = Free /\ Goto(w, "commit")
        /\ outbox' = [outbox EXCEPT ![worker[w].event].status = "delivered"]
        /\ UNCHANGED <<sent, lock, polled, job, dlq, sweep, request>>
    BY <1>9 DEF MarkDelivered
  <2>2. Moves(w) /\ worker'[w].pc = "commit" /\ worker'[w].event = worker[w].event
    BY <1>0, <2>1, PcIs, GotoIs
  <2>3. /\ outbox' \in [Event -> OutboxRow]
        /\ \A e \in Event : outbox'[e].status = outbox[e].status \/ sent'[e]
    <3>1. worker[w].event \in Event /\ "delivered" \in Status /\ sent[worker[w].event]
      BY <1>0, <1>1, <2>1 DEF Status, SlotInv
    <3> QED
      BY <1>0, <2>1, <3>1, StatusWritten
  <2> QED
    BY <1>3, <1>4, <2>1, <2>2, <2>3, StepKeeps
<1>10. CASE Commit(w)
  <2>1. /\ worker[w].pc = "commit" /\ lock' = Unlocked(w)
        /\ UNCHANGED <<outbox, sent, polled, dlq, sweep, request>>
    BY <1>10 DEF Commit
  <2>2. CASE Goto(w, "retry") /\ UNCHANGED job
    <3>1. Moves(w) /\ worker'[w].pc = "retry" /\ worker'[w].event = worker[w].event
      BY <1>0, <2>2, PcIs, GotoIs
    <3> QED
      BY <1>2, <1>3, <1>4, <2>1, <2>2, <3>1, StepKeeps
  <2>3. CASE Finish(w)
    <3>1. /\ Moves(w) /\ worker'[w] = Idle /\ job' \in [Event -> Job]
          /\ \A f \in Event : f # worker[w].event => job'[f] = job[f]
      BY <1>0, <2>1, <2>3, FinishIs
    <3> QED
      BY <1>2, <2>1, <3>1, LeavingKeeps
  <2> QED
    BY <1>10, <2>2, <2>3 DEF Commit
<1>11. CASE AcquireTimesOut(w)
  <2>1. /\ worker[w].pc \in {"lock", "connect", "deliver"} /\ Goto(w, "retry") /\ lock' = Unlocked(w)
        /\ UNCHANGED <<outbox, sent, polled, job, dlq, sweep, request>>
    BY <1>11 DEF AcquireTimesOut
  <2>2. Moves(w) /\ worker'[w].pc = "retry" /\ worker'[w].event = worker[w].event
    BY <1>0, <2>1, PcIs, GotoIs
  <2> QED
    BY <1>2, <1>3, <1>4, <2>1, <2>2, StepKeeps
<1>12. CASE ConnectionLost(w)
  <2>1. /\ worker[w].pc \in {"connect", "claim", "dispatch", "deliver", "commit"}
        /\ worker' = [worker EXCEPT ![w].cut = TRUE] /\ lock' = Unlocked(w)
        /\ UNCHANGED <<outbox, sent, polled, job, dlq, sweep, request>>
    BY <1>12 DEF ConnectionLost
  <2>2. Moves(w) /\ worker'[w].pc = worker[w].pc /\ worker'[w].event = worker[w].event
    BY <1>0, <2>1 DEF Types, SlotRow, Moves
  <2>3. worker[w].pc = "deliver" => sent[worker[w].event]
    BY <1>0, <2>1 DEF SlotInv
  <2> QED
    BY <1>2, <1>3, <1>4, <2>1, <2>2, <2>3, StepKeeps
<1> QED
  BY <1>5, <1>6, <1>7, <1>8, <1>9, <1>10, <1>11, <1>12

-----------------------------------------------------------------------------
(* The rows of the DLQ.                                                    *)

\* Rows taken from d, no two from the same.
Taken(t, d) ==
  /\ Uniq(t)
  /\ \A i \in 1 .. Len(t) : \E j \in 1 .. Len(d) : d[j].id = t[i].id /\ d[j].event = t[i].event

\* A selection takes rows.
LEMMA SelectedTakes ==
  ASSUME NEW d \in Seq(DlqRow), Uniq(d), NEW K
  PROVE  /\ Selected(d, K) \in Seq(DlqRow) /\ Taken(Selected(d, K), d)
         /\ \A i \in 1 .. Len(Selected(d, K)) : Selected(d, K)[i] \in K
         /\ \A j \in 1 .. Len(d) : d[j] \in K =>
               \E i \in 1 .. Len(Selected(d, K)) : Selected(d, K)[i] = d[j]
<1> DEFINE t == Selected(d, K)
<1>1. t \in Seq(DlqRow) /\ Selection(d, K, Len(d), t)
  BY SelectedIs
<1> HIDE DEF t
<1>2. \A i \in 1 .. Len(t) : t[i] \in K /\ \E j \in 1 .. Len(d) : d[j] = t[i]
  BY <1>1 DEF Selection
<1>3. \A j \in 1 .. Len(d) : d[j] \in K => \E i \in 1 .. Len(t) : t[i] = d[j]
  BY <1>1 DEF Selection
<1>4. ASSUME NEW i \in 1 .. Len(t), NEW j \in 1 .. Len(t), i < j
      PROVE  t[i].id # t[j].id /\ t[i].event # t[j].event
  <2>1. PICK k \in 1 .. Len(d), l \in 1 .. Len(d) : k < l /\ d[k] = t[i] /\ d[l] = t[j]
    BY <1>1, <1>4 DEF Selection
  <2>2. d[k].id # d[l].id /\ d[k].event # d[l].event
    BY <2>1 DEF Uniq
  <2> QED
    BY <2>1, <2>2
<1>5. Uniq(t)
  <2>1. \A i, j \in 1 .. Len(t) : i # j => i < j \/ j < i
    BY <1>1
  <2>2. \A i, j \in 1 .. Len(t) : i # j => t[i].id # t[j].id /\ t[i].event # t[j].event
    BY <1>4, <2>1
  <2> QED
    BY <2>2 DEF Uniq
<1>6. Taken(t, d)
  BY <1>2, <1>5 DEF Taken
<1> QED
  BY <1>1, <1>2, <1>3, <1>6 DEF t

\* Moving a row to the front loses none.
LEMMA TouchedTakes ==
  ASSUME Types, Uniq(dlq), NEW id
  PROVE  /\ Touched(id) \in Seq(DlqRow) /\ Taken(Touched(id), dlq)
         /\ \A j \in 1 .. Len(dlq) :
              \E i \in 1 .. Len(Touched(id)) : Touched(id)[i].event = dlq[j].event
<1> DEFINE own == {r \in Range(dlq) : r.id = id}
           others == {r \in Range(dlq) : r.id # id}
           mine == Selected(dlq, own)
           b == Selected(dlq, others)
           a == [i \in 1 .. Len(mine) |-> [mine[i] EXCEPT !.ripe = FALSE]]
<1>1. Touched(id) = a \o b
  BY Zenon DEF Touched
<1>2. dlq \in Seq(DlqRow) /\ \A j \in 1 .. Len(dlq) : dlq[j] \in Range(dlq)
  BY RangeEquality DEF Types
<1>3. /\ mine \in Seq(DlqRow) /\ Taken(mine, dlq)
      /\ \A i \in 1 .. Len(mine) : mine[i] \in own
      /\ \A j \in 1 .. Len(dlq) : dlq[j] \in own => \E i \in 1 .. Len(mine) : mine[i] = dlq[j]
  <2> HIDE DEF own
  <2> QED
    BY <1>2, SelectedTakes
<1>4. /\ b \in Seq(DlqRow) /\ Taken(b, dlq)
      /\ \A i \in 1 .. Len(b) : b[i] \in others
      /\ \A j \in 1 .. Len(dlq) : dlq[j] \in others => \E i \in 1 .. Len(b) : b[i] = dlq[j]
  <2> HIDE DEF others
  <2> QED
    BY <1>2, SelectedTakes
<1> HIDE DEF mine, b
<1>5. Len(mine) \in Nat /\ Len(b) \in Nat /\ \A i \in 1 .. Len(mine) : mine[i] \in DlqRow
  BY <1>3, <1>4, ElementOfSeq
<1>6. /\ a \in Seq(DlqRow) /\ Len(a) = Len(mine)
      /\ \A i \in 1 .. Len(mine) : a[i].id = mine[i].id /\ a[i].event = mine[i].event
  <2>1. \A i \in 1 .. Len(mine) : a[i] \in DlqRow /\ a[i].id = mine[i].id /\ a[i].event = mine[i].event
    BY <1>5 DEF DlqRow
  <2>2. a = [i \in 1 .. Len(mine) |-> a[i]]
    OBVIOUS
  <2> HIDE DEF a
  <2>3. a \in [1 .. Len(mine) -> DlqRow]
    BY <2>1, <2>2
  <2> QED
    BY <1>5, <2>1, <2>3
<1> HIDE DEF a
<1>7. /\ a \o b \in Seq(DlqRow) /\ Len(a \o b) = Len(a) + Len(b)
      /\ \A i \in 1 .. Len(a) + Len(b) : (a \o b)[i] = IF i <= Len(a) THEN a[i] ELSE b[i - Len(a)]
  <2>1. a \in Seq(DlqRow) /\ b \in Seq(DlqRow)
    BY <1>4, <1>6
  <2> QED
    BY <2>1, ConcatProperties
<1> DEFINE t == a \o b
<1> HIDE DEF t
<1>8. /\ t \in Seq(DlqRow) /\ Len(t) = Len(a) + Len(b)
      /\ \A i \in 1 .. Len(t) : \/ i \in 1 .. Len(a) /\ t[i] = a[i]
                                \/ i - Len(a) \in 1 .. Len(b) /\ t[i] = b[i - Len(a)]
      /\ \A i \in 1 .. Len(a) : i \in 1 .. Len(t) /\ t[i] = a[i]
      /\ \A i \in 1 .. Len(b) : i + Len(a) \in 1 .. Len(t) /\ t[i + Len(a)] = b[i]
  <2>1. /\ t \in Seq(DlqRow) /\ Len(t) = Len(a) + Len(b)
        /\ \A i \in 1 .. Len(t) : t[i] = IF i <= Len(a) THEN a[i] ELSE b[i - Len(a)]
    BY <1>7 DEF t
  <2>2. Len(a) \in Nat /\ Len(b) \in Nat
    BY <1>5, <1>6
  <2>3. \A i \in 1 .. Len(t) : IF i <= Len(a) THEN i \in 1 .. Len(a) ELSE i - Len(a) \in 1 .. Len(b)
    BY <2>1, <2>2
  <2>4. \A i \in 1 .. Len(a) : i \in 1 .. Len(t) /\ i <= Len(a)
    BY <2>1, <2>2
  <2>5. \A i \in 1 .. Len(b) : /\ i + Len(a) \in 1 .. Len(t) /\ ~ (i + Len(a) <= Len(a))
                               /\ (i + Len(a)) - Len(a) = i
    BY <2>1, <2>2
  <2> QED
    BY <2>1, <2>3, <2>4, <2>5
<1>9. \A i \in 1 .. Len(t) : \E j \in 1 .. Len(dlq) : dlq[j].id = t[i].id /\ dlq[j].event = t[i].event
  <2> SUFFICES ASSUME NEW i \in 1 .. Len(t)
               PROVE  \E j \in 1 .. Len(dlq) : dlq[j].id = t[i].id /\ dlq[j].event = t[i].event
    OBVIOUS
  <2>1. CASE i \in 1 .. Len(a) /\ t[i] = a[i]
    <3>1. i \in 1 .. Len(mine) /\ t[i].id = mine[i].id /\ t[i].event = mine[i].event
      BY <1>6, <2>1
    <3>2. PICK j \in 1 .. Len(dlq) : dlq[j].id = mine[i].id /\ dlq[j].event = mine[i].event
      BY <1>3, <3>1 DEF Taken
    <3> QED
      BY <3>1, <3>2
  <2>2. CASE i - Len(a) \in 1 .. Len(b) /\ t[i] = b[i - Len(a)]
    <3>1. PICK k \in 1 .. Len(b) : t[i] = b[k]
      BY <2>2
    <3>2. PICK j \in 1 .. Len(dlq) : dlq[j].id = b[k].id /\ dlq[j].event = b[k].event
      BY <1>4 DEF Taken
    <3> QED
      BY <3>1, <3>2
  <2> QED
    BY <1>8, <2>1, <2>2
<1>10. Uniq(t)
  <2> SUFFICES ASSUME NEW i \in 1 .. Len(t), NEW j \in 1 .. Len(t), i # j
               PROVE  t[i].id # t[j].id /\ t[i].event # t[j].event
    BY DEF Uniq
  <2>1. ASSUME NEW k \in 1 .. Len(a), NEW l \in 1 .. Len(b)
        PROVE  a[k].id # b[l].id /\ a[k].event # b[l].event
    <3>1. PICK m \in 1 .. Len(dlq) : dlq[m].id = a[k].id /\ dlq[m].event = a[k].event
      BY <1>3, <1>6 DEF Taken
    <3>2. PICK n \in 1 .. Len(dlq) : dlq[n].id = b[l].id /\ dlq[n].event = b[l].event
      BY <1>4 DEF Taken
    <3>3. a[k].id = id /\ b[l].id # id
      BY <1>3, <1>4, <1>6
    <3> QED
      BY <3>1, <3>2, <3>3 DEF Uniq
  <2>2. CASE i \in 1 .. Len(a) /\ t[i] = a[i] /\ j \in 1 .. Len(a) /\ t[j] = a[j]
    BY <1>3, <1>6, <2>2 DEF Taken, Uniq
  <2>3. CASE /\ i \in 1 .. Len(a) /\ t[i] = a[i]
             /\ j - Len(a) \in 1 .. Len(b) /\ t[j] = b[j - Len(a)]
    BY <2>1, <2>3
  <2>4. CASE /\ j \in 1 .. Len(a) /\ t[j] = a[j]
             /\ i - Len(a) \in 1 .. Len(b) /\ t[i] = b[i - Len(a)]
    BY <2>1, <2>4
  <2>5. CASE /\ i - Len(a) \in 1 .. Len(b) /\ t[i] = b[i - Len(a)]
             /\ j - Len(a) \in 1 .. Len(b) /\ t[j] = b[j - Len(a)]
    <3>1. i - Len(a) # j - Len(a)
      BY <1>5, <1>6
    <3> QED
      <4>1. Uniq(b)
        BY <1>4 DEF Taken
      <4>2. b[i - Len(a)].id # b[j - Len(a)].id /\ b[i - Len(a)].event # b[j - Len(a)].event
        BY <2>5, <3>1, <4>1 DEF Uniq
      <4> QED
        BY <2>5, <4>2
  <2> QED
    BY <1>8, <2>2, <2>3, <2>4, <2>5
<1>11. \A j \in 1 .. Len(dlq) : \E i \in 1 .. Len(t) : t[i].event = dlq[j].event
  <2> SUFFICES ASSUME NEW j \in 1 .. Len(dlq) PROVE \E i \in 1 .. Len(t) : t[i].event = dlq[j].event
    OBVIOUS
  <2>1. CASE dlq[j].id = id
    <3>1. dlq[j] \in own
      BY <1>2, <2>1
    <3>2. PICK i \in 1 .. Len(mine) : mine[i] = dlq[j]
      BY <1>3, <3>1
    <3>3. i \in 1 .. Len(t) /\ t[i].event = dlq[j].event
      BY <1>6, <1>8, <3>2
    <3> QED
      BY <3>3
  <2>2. CASE dlq[j].id # id
    <3>1. dlq[j] \in others
      BY <1>2, <2>2
    <3>2. PICK i \in 1 .. Len(b) : b[i] = dlq[j]
      BY <1>4, <3>1
    <3>3. i + Len(a) \in 1 .. Len(t) /\ t[i + Len(a)].event = dlq[j].event
      BY <1>8, <3>2
    <3> QED
      BY <3>3
  <2> QED
    BY <2>1, <2>2
<1>12. Touched(id) = t
  BY <1>1 DEF t
<1> QED
  BY <1>8, <1>9, <1>10, <1>11, <1>12 DEF Taken

\* Calls that move, delete or forget rows, of events the handler got.
LEMMA RowsTaken ==
  ASSUME Types, SlotInv, ParkInv, SweepInv, LostInv, NEW d, dlq' = d, d \in Seq(DlqRow),
         Taken(d, dlq), NEW t, sweep'.todo = t,
         \A e \in Event : (\E j \in 1 .. Len(dlq) : dlq[j].event = e) =>
            sent[e] \/ \E i \in 1 .. Len(d) : d[i].event = e,
         \A k \in 1 .. Len(t) : \E l \in 1 .. Len(sweep.todo) :
            t[k].id = sweep.todo[l].id /\ t[k].event = sweep.todo[l].event,
         sweep'.act # "inspect" => t # <<>>,
         sweep'.act = "release" => sent[t[1].event],
         \A v \in Worker : worker'[v].pc = "park" => worker'[v] = worker[v],
         UNCHANGED sent,
         \A e \in Event : \/ outbox'[e].status = outbox[e].status
                          \/ outbox'[e].status \in Safe
                          \/ sent[e]
                          \/ outbox'[e].status = "dead_letter" /\ \E i \in 1 .. Len(d) : d[i].event = e
  PROVE  Uniq(dlq)' /\ ParkInv' /\ SweepInv' /\ LostInv'
<1>1. Uniq(dlq)'
  BY DEF Taken, Uniq
<1>2. ParkInv'
  <2> SUFFICES ASSUME NEW w \in Worker, worker'[w].pc = "park"
               PROVE  IF worker'[w].row = NoRow
                      THEN \A i \in 1 .. Len(d) : d[i].event # worker'[w].event
                      ELSE sent[worker'[w].event] \/ \E i \in 1 .. Len(d) : d[i].event = worker'[w].event
    BY DEF ParkInv
  <2>1. worker'[w] = worker[w] /\ worker[w].event \in Event /\ worker[w].pc = "park"
    BY DEF SlotInv
  <2>2. CASE worker[w].row = NoRow
    <3>1. \A i \in 1 .. Len(dlq) : dlq[i].event # worker[w].event
      BY <2>1, <2>2 DEF ParkInv
    <3> QED
      BY <2>1, <2>2, <3>1 DEF Taken
  <2>3. CASE worker[w].row # NoRow
    BY <2>1, <2>3 DEF ParkInv
  <2> QED
    BY <2>2, <2>3
<1>3. SweepInv'
  <2>1. ASSUME NEW k \in 1 .. Len(t), NEW i \in 1 .. Len(d), d[i].id = t[k].id
        PROVE  d[i].event = t[k].event
    <3>1. PICK j \in 1 .. Len(dlq) : dlq[j].id = d[i].id /\ dlq[j].event = d[i].event
      BY DEF Taken
    <3>2. PICK l \in 1 .. Len(sweep.todo) : t[k].id = sweep.todo[l].id /\ t[k].event = sweep.todo[l].event
      OBVIOUS
    <3> QED
      <4>1. dlq[j].id = sweep.todo[l].id
        BY <2>1, <3>1, <3>2
      <4>2. dlq[j].event = sweep.todo[l].event
        BY <4>1 DEF SweepInv
      <4> QED
        BY <3>1, <3>2, <4>2
  <2> QED
    BY <2>1 DEF SweepInv
<1>4. LostInv'
  <2> SUFFICES ASSUME NEW e \in Event
               PROVE  \/ outbox'[e].status \in {"absent", "pending", "processing"}
                      \/ sent[e]
                      \/ outbox'[e].status = "dead_letter" /\ \E i \in 1 .. Len(d) : d[i].event = e
    BY DEF LostInv
  <2> QED
    BY DEF LostInv, Safe
<1> QED
  BY <1>1, <1>2, <1>3, <1>4

-----------------------------------------------------------------------------
\* The steps of markForRetry but its last, and a crash anywhere.
LEMMA RetryingKeeps ==
  ASSUME OutboxInv, NEW w \in Worker,
         ReadRetries(w) \/ Requeue(w) \/ RetryFails(w) \/ Crash(w)
  PROVE  OutboxInv'
<1>0. Types /\ LockInv /\ SlotInv /\ outbox \in [Event -> OutboxRow]
      /\ sent \in [Event -> BOOLEAN] /\ lock \in [Event -> Worker \cup {Free}]
  BY DEF OutboxInv, Types
<1>1. worker[w].pc # "idle" => worker[w].event \in Event
  BY <1>0 DEF SlotInv
<1>2. UNCHANGED outbox => /\ outbox' \in [Event -> OutboxRow]
                          /\ \A e \in Event : outbox'[e].status = outbox[e].status
  BY <1>0
<1>3. worker[w].pc \notin {"connect", "claim"} => \A e \in Event : lock[e] # w
  BY <1>0, ConstantsAre DEF LockInv
<1>4. CASE ReadRetries(w)
  <2> DEFINE n == outbox[worker[w].event].retries + 1
  <2>1. /\ worker[w].pc = "retry"
        /\ worker' = [worker EXCEPT ![w].retries = n,
                                    ![w].pc = IF n >= MaxRetries THEN "bury" ELSE "requeue"]
        /\ UNCHANGED <<outbox, sent, lock, polled, job, dlq, sweep, request>>
    BY <1>4 DEF ReadRetries, Exhausted
  <2>2. n \in 0 .. MaxRetries
    <3>1. outbox[worker[w].event] \in OutboxRow
      BY <1>0, <1>1, <2>1
    <3> QED
      BY <3>1, ConstantsAre DEF OutboxRow
  <2> HIDE DEF n
  <2>3. /\ Moves(w) /\ worker'[w].event = worker[w].event
        /\ worker'[w].pc = IF n >= MaxRetries THEN "bury" ELSE "requeue"
        /\ worker'[w].retries = n
    BY <1>0, <2>1, <2>2, PcIs DEF Types, SlotRow, Moves
  <2>4. worker'[w].pc = "requeue" => worker'[w].retries < MaxRetries
    BY <2>2, <2>3, ConstantsAre
  <2>5. \A e \in Event : sent[e] => sent'[e]
    BY <2>1
  <2>6. /\ worker'[w].pc \notin {"idle", "park"} /\ worker'[w].pc # "deliver"
        /\ worker[w].pc \notin {"connect", "claim"} /\ worker[w].pc # "idle"
    BY <2>1, <2>3
  <2>7. sent' \in [Event -> BOOLEAN] /\ lock' = lock /\ lock' \in [Event -> Worker \cup {Free}]
    BY <1>0, <2>1
  <2>8. Moves(w) /\ worker'[w].event = worker[w].event
    BY <2>3
  <2>9. UNCHANGED <<outbox, polled, job, dlq, sweep, request>>
    BY <2>1
  <2> QED
    BY <1>2, <2>4, <2>5, <2>6, <2>7, <2>8, <2>9, StepKeeps
<1>5. CASE Requeue(w)
  <2> DEFINE new == [status |-> "pending", retries |-> worker[w].retries, due |-> FALSE]
  <2>1. /\ worker[w].pc = "requeue" /\ Finish(w)
        /\ outbox' = [outbox EXCEPT ![worker[w].event] = new]
        /\ UNCHANGED <<sent, lock, polled, dlq, sweep, request>>
    BY <1>5 DEF Requeue
  <2>2. new \in OutboxRow /\ new.status = "pending"
    <3>1. worker[w] \in SlotRow /\ worker[w].retries < MaxRetries
      BY <1>0, <2>1 DEF Types, SlotInv
    <3> QED
      BY <3>1, ConstantsAre DEF SlotRow, OutboxRow, Status
  <2> HIDE DEF new
  <2>3. /\ outbox' \in [Event -> OutboxRow]
        /\ \A e \in Event : outbox'[e].status = outbox[e].status \/ outbox'[e].status \in Safe
    BY <1>0, <1>1, <2>1, <2>2 DEF Safe
  <2>4. /\ Moves(w) /\ worker'[w] = Idle /\ job' \in [Event -> Job]
        /\ \A f \in Event : f # worker[w].event => job'[f] = job[f]
    BY <1>0, <2>1, FinishIs
  <2> QED
    BY <1>3, <2>1, <2>3, <2>4, LeavingKeeps
<1>6. CASE RetryFails(w)
  <2>1. /\ worker[w].pc \in {"retry", "requeue", "bury", "park"} /\ Finish(w)
        /\ UNCHANGED <<outbox, sent, lock, polled, dlq, sweep, request>>
    BY <1>6 DEF RetryFails
  <2>2. /\ Moves(w) /\ worker'[w] = Idle /\ job' \in [Event -> Job]
        /\ \A f \in Event : f # worker[w].event => job'[f] = job[f]
    BY <1>0, <2>1, FinishIs
  <2> QED
    BY <1>2, <1>3, <2>1, <2>2, LeavingKeeps
<1>7. CASE Crash(w)
  <2>1. /\ worker[w].pc # "idle" /\ worker' = [worker EXCEPT ![w] = Idle] /\ lock' = Unlocked(w)
        /\ UNCHANGED <<sent, polled, job, dlq, sweep, request>>
    BY <1>7 DEF Crash
  <2>2. Moves(w) /\ worker'[w] = Idle
    BY <1>0, <2>1, IdleIs DEF Types, Moves
  <2>3. /\ outbox' \in [Event -> OutboxRow]
        /\ \A e \in Event : outbox'[e].status = outbox[e].status \/ outbox'[e].status \in Safe
    <3>1. CASE UNCHANGED outbox
      BY <1>2, <3>1
    <3>2. CASE outbox' = [outbox EXCEPT ![worker[w].event].status = "processing"]
      <4>1. worker[w].event \in Event /\ "processing" \in Status /\ "processing" \in Safe
        BY <1>1, <2>1 DEF Status, Safe
      <4>2. /\ outbox' \in [Event -> OutboxRow] /\ outbox'[worker[w].event].status = "processing"
            /\ \A f \in Event : f # worker[w].event => outbox'[f] = outbox[f]
        BY <1>0, <3>2, <4>1, StatusWritten
      <4> QED
        BY <4>1, <4>2
    <3> QED
      BY <1>7, <3>1, <3>2 DEF Crash
  <2>4. job' \in [Event -> Job] /\ \A e \in Event : e # worker[w].event => job'[e] = job[e]
    BY <1>0, <2>1 DEF Types
  <2> QED
    BY <2>1, <2>2, <2>3, <2>4, LeavingKeeps
<1> QED
  BY <1>4, <1>5, <1>6, <1>7

\* Looking for the event's row.
LEMMA FindingKeeps ==
  ASSUME OutboxInv, NEW w \in Worker, FindRow(w) PROVE OutboxInv'
<1>0. Types /\ LockInv /\ SlotInv /\ Uniq(dlq) /\ ParkInv /\ SweepInv /\ LostInv
  BY DEF OutboxInv
<1> DEFINE e == worker[w].event
           rows == RowsOf(e)
<1>1. /\ worker[w].pc = "bury"
      /\ UNCHANGED <<outbox, sent, lock, polled, job, dlq, sweep, request>>
  BY DEF FindRow
<1>2. PICK id \in IF rows = {} THEN {NoRow} ELSE {r.id : r \in rows} :
        worker' = [worker EXCEPT ![w].row = id, ![w].pc = "park"]
  BY DEF FindRow
<1>3. /\ \A r \in rows : r \in DlqRow /\ \E i \in 1 .. Len(dlq) : dlq[i].event = e
      /\ \A i \in 1 .. Len(dlq) : dlq[i].event = e => dlq[i] \in rows
  <2>1. Range(dlq) = {dlq[i] : i \in 1 .. Len(dlq)}
    BY <1>0, RangeEquality DEF Types
  <2>2. \A i \in 1 .. Len(dlq) : dlq[i] \in DlqRow
    BY <1>0, ElementOfSeq DEF Types
  <2> QED
    BY <2>1, <2>2 DEF RowsOf
<1> HIDE DEF rows
<1>4. /\ id \in RowId \cup {NoRow}
      /\ IF id = NoRow THEN \A i \in 1 .. Len(dlq) : dlq[i].event # e
         ELSE \E i \in 1 .. Len(dlq) : dlq[i].event = e
  <2>1. CASE rows = {}
    BY <1>2, <1>3, <2>1
  <2>2. CASE rows # {}
    <3>1. PICK r \in rows : id = r.id
      BY <1>2, <2>2
    <3>2. id \in RowId
      BY <1>3, <3>1 DEF DlqRow
    <3> QED
      BY <1>3, <3>1, <3>2, ConstantsAre
  <2> QED
    BY <2>1, <2>2
<1>5. Moves(w) /\ worker'[w].pc = "park" /\ worker'[w].event = e /\ worker'[w].row = id
  <2> DEFINE row == [worker[w] EXCEPT !.row = id, !.pc = "park"]
  <2>1. worker \in [Worker -> SlotRow] /\ worker' = [worker EXCEPT ![w] = row]
    BY <1>0, <1>2 DEF Types
  <2>2. worker[w] \in SlotRow /\ id \in RowId \cup {NoRow} /\ "park" \in Pc
    BY <1>4, <2>1, PcIs
  <2>3. row \in SlotRow /\ row.pc = "park" /\ row.event = e /\ row.row = id
    BY <2>2 DEF SlotRow
  <2> HIDE DEF row
  <2> QED
    BY <2>1, <2>3 DEF Moves
<1>6. Types'
  BY <1>0, <1>1, <1>5 DEF Types, Moves
<1>7. LockInv'
  <2>1. \A f \in Event : lock'[f] # w
    BY <1>0, <1>1, ConstantsAre DEF LockInv
  <2> QED
    BY <1>0, <1>1, <1>5, <2>1, LocksStay
<1>8. SlotInv'
  BY <1>0, <1>1, <1>5, SlotsMove
<1>9. ParkInv'
  <2> SUFFICES ASSUME NEW v \in Worker, worker'[v].pc = "park"
               PROVE  IF worker'[v].row = NoRow
                      THEN \A i \in 1 .. Len(dlq) : dlq[i].event # worker'[v].event
                      ELSE \/ sent[worker'[v].event]
                           \/ \E i \in 1 .. Len(dlq) : dlq[i].event = worker'[v].event
    BY <1>1 DEF ParkInv
  <2>1. CASE v = w
    BY <1>4, <1>5, <2>1
  <2>2. CASE v # w
    <3>1. worker'[v] = worker[v]
      BY <1>5, <2>2 DEF Moves
    <3> QED
      BY <1>0, <3>1 DEF ParkInv
  <2> QED
    BY <2>1, <2>2
<1>10. Uniq(dlq)' /\ SweepInv' /\ LostInv'
  BY <1>0, <1>1 DEF Uniq, SweepInv, LostInv
<1> QED
  BY <1>6, <1>7, <1>8, <1>9, <1>10, OutboxInvFrom

\* The id of a new row is used nowhere else.
LEMMA NewIdIs ==
  ASSUME Types, UnusedIds # {}, NEW id, id = CHOOSE i \in UnusedIds : \A j \in UnusedIds : i <= j
  PROVE  /\ id \in RowId
         /\ \A i \in 1 .. Len(dlq) : dlq[i].id # id
         /\ \A k \in 1 .. Len(sweep.todo) : sweep.todo[k].id # id
<1>1. UnusedIds \subseteq Nat
  BY ConstantsAre DEF UnusedIds
<1>2. \E n \in UnusedIds : \A k \in UnusedIds : n <= k
  BY <1>1, LeastNatural
<1>3. id \in UnusedIds
  BY <1>2
<1>4. /\ \A i \in 1 .. Len(dlq) : dlq[i] \in Range(dlq)
      /\ \A k \in 1 .. Len(sweep.todo) : sweep.todo[k] \in Range(sweep.todo)
  BY RangeEquality DEF Types
<1> QED
  BY <1>3, <1>4 DEF UnusedIds

\* The last step of moveToDeadLetter, with the row it found or a new one: no
\* row of the event has come in between, because no other slot works on it.
LEMMA ParkKeeps ==
  ASSUME OutboxInv, NEW w \in Worker, Park(w) PROVE OutboxInv'
<1>0. Types /\ LockInv /\ SlotInv /\ Uniq(dlq) /\ ParkInv /\ SweepInv /\ LostInv
  BY DEF OutboxInv
<1> DEFINE e == worker[w].event
<1>1. /\ worker[w].pc = "park" /\ e \in Event /\ Finish(w)
      /\ outbox' = [outbox EXCEPT ![e].status = "dead_letter"]
      /\ UNCHANGED <<sent, lock, polled, sweep, request>>
  BY <1>0 DEF Park, SlotInv
<1>2. /\ Moves(w) /\ worker'[w] = Idle /\ job' \in [Event -> Job]
      /\ \A f \in Event : f # worker[w].event => job'[f] = job[f]
  BY <1>0, <1>1, FinishIs
<1>3. /\ outbox' \in [Event -> OutboxRow] /\ outbox'[e].status = "dead_letter"
      /\ \A f \in Event : f # e => outbox'[f] = outbox[f]
  <2>1. "dead_letter" \in Status
    BY DEF Status
  <2> QED
    BY <1>0, <1>1, <2>1, StatusWritten
<1>4. \A v \in Worker : worker'[v].pc = "park" => v # w /\ worker'[v] = worker[v]
  BY <1>2, IdleIs DEF Moves
<1>5. LockInv' /\ SlotInv'
  <2>1. \A f \in Event : lock'[f] # w
    BY <1>0, <1>1, ConstantsAre DEF LockInv
  <2>2. \A f \in Event : lock'[f] # Free => lock'[f] = lock[f]
    BY <1>1
  <2>3. LockInv'
    BY <1>0, <1>2, <2>1, <2>2, LocksStay
  <2>4. \A f \in Event : sent[f] => sent'[f]
    BY <1>1
  <2>5. SlotInv'
    BY <1>0, <1>1, <1>2, <2>4, SlotsLeave
  <2> QED
    BY <2>3, <2>5
<1>6. dlq' \in Seq(DlqRow) => Types'
  BY <1>0, <1>1, <1>2, <1>3 DEF Types, Moves
<1>7. CASE worker[w].row # NoRow /\ dlq' = Touched(worker[w].row)
  <2>1. PICK d : d = Touched(worker[w].row)
    OBVIOUS
  <2>2. /\ dlq' = d /\ d \in Seq(DlqRow) /\ Taken(d, dlq)
        /\ \A j \in 1 .. Len(dlq) : \E i \in 1 .. Len(d) : d[i].event = dlq[j].event
    BY <1>0, <1>7, <2>1, TouchedTakes
  <2>3. sent[e] \/ \E i \in 1 .. Len(d) : d[i].event = e
    <3>1. sent[e] \/ \E i \in 1 .. Len(dlq) : dlq[i].event = e
      BY <1>0, <1>1, <1>7 DEF ParkInv
    <3> QED
      BY <2>2, <3>1
  <2>4. \A f \in Event : \/ outbox'[f].status = outbox[f].status
                         \/ outbox'[f].status \in Safe
                         \/ sent[f]
                         \/ outbox'[f].status = "dead_letter" /\ \E i \in 1 .. Len(d) : d[i].event = f
    BY <1>3, <2>3
  <2>5. \A f \in Event : (\E j \in 1 .. Len(dlq) : dlq[j].event = f) =>
            sent[f] \/ \E i \in 1 .. Len(d) : d[i].event = f
    BY <2>2
  <2>6. PICK t : t = sweep.todo /\ t = sweep'.todo
    BY <1>1
  <2>7. /\ \A k \in 1 .. Len(t) : \E l \in 1 .. Len(sweep.todo) :
              t[k].id = sweep.todo[l].id /\ t[k].event = sweep.todo[l].event
        /\ sweep'.act # "inspect" => t # <<>>
        /\ sweep'.act = "release" => sent[t[1].event]
    BY <1>0, <1>1, <2>6 DEF SweepInv
  <2>8. \A v \in Worker : worker'[v].pc = "park" => worker'[v] = worker[v]
    BY <1>4
  <2>9. Uniq(dlq)' /\ ParkInv' /\ SweepInv' /\ LostInv'
    <3>1. UNCHANGED sent /\ sweep'.todo = t /\ dlq' = d
      BY <1>1, <2>2, <2>6
    <3>2. d \in Seq(DlqRow) /\ Taken(d, dlq)
      BY <2>2
    <3> QED
      BY <1>0, <2>4, <2>5, <2>7, <2>8, <3>1, <3>2, RowsTaken
  <2> QED
    BY <1>5, <1>6, <2>2, <2>9, OutboxInvFrom
<1>8. CASE /\ worker[w].row = NoRow
           /\ UnusedIds # {}
           /\ LET id == CHOOSE i \in UnusedIds : \A j \in UnusedIds : i <= j
              IN dlq' = <<[id |-> id, event |-> e, ripe |-> FALSE]>> \o dlq
  <2>1. PICK id : id = CHOOSE i \in UnusedIds : \A j \in UnusedIds : i <= j
    OBVIOUS
  <2>2. /\ id \in RowId
        /\ \A i \in 1 .. Len(dlq) : dlq[i].id # id
        /\ \A k \in 1 .. Len(sweep.todo) : sweep.todo[k].id # id
    BY <1>0, <1>8, <2>1, NewIdIs
  <2>3. PICK r : r = [id |-> id, event |-> e, ripe |-> FALSE]
    OBVIOUS
  <2>4. r \in DlqRow /\ r.id = id /\ r.event = e /\ dlq' = <<r>> \o dlq
    BY <1>1, <1>8, <2>1, <2>2, <2>3 DEF DlqRow
  <2>5. PICK d : d = <<r>> \o dlq
    OBVIOUS
  <2>6. /\ dlq' = d /\ d \in Seq(DlqRow) /\ Len(d) = 1 + Len(dlq) /\ Len(dlq) \in Nat /\ d[1] = r
        /\ \A i \in 1 .. Len(d) : i # 1 => i - 1 \in 1 .. Len(dlq) /\ d[i] = dlq[i - 1]
        /\ \A i \in 1 .. Len(dlq) : i + 1 \in 1 .. Len(d) /\ d[i + 1] = dlq[i]
    BY <1>0, <2>4, <2>5 DEF Types
  <2>7. \A i \in 1 .. Len(dlq) : dlq[i].event # e
    BY <1>0, <1>1, <1>8 DEF ParkInv
  <2>8. Uniq(dlq)'
    <3> SUFFICES ASSUME NEW i \in 1 .. Len(d), NEW j \in 1 .. Len(d), i # j
                 PROVE  d[i].id # d[j].id /\ d[i].event # d[j].event
      BY <2>6 DEF Uniq
    <3>1. CASE i = 1
      BY <2>2, <2>4, <2>6, <2>7, <3>1
    <3>2. CASE j = 1
      BY <2>2, <2>4, <2>6, <2>7, <3>2
    <3>3. CASE i # 1 /\ j # 1
      <4>1. /\ i - 1 \in 1 .. Len(dlq) /\ d[i] = dlq[i - 1] /\ j - 1 \in 1 .. Len(dlq)
            /\ d[j] = dlq[j - 1] /\ i - 1 # j - 1
        BY <2>6, <3>3
      <4> QED
        BY <1>0, <4>1 DEF Uniq
    <3> QED
      BY <3>1, <3>2, <3>3
  <2>9. \A i \in 1 .. Len(d) : d[i] = r \/ \E j \in 1 .. Len(dlq) : d[i] = dlq[j]
    BY <2>6
  <2>10. \A f \in Event : (\E j \in 1 .. Len(dlq) : dlq[j].event = f)
                            => \E i \in 1 .. Len(d) : d[i].event = f
    <3> SUFFICES ASSUME NEW f \in Event, NEW j \in 1 .. Len(dlq), dlq[j].event = f
                 PROVE  \E i \in 1 .. Len(d) : d[i].event = f
      OBVIOUS
    <3>1. j + 1 \in 1 .. Len(d) /\ d[j + 1].event = f
      BY <2>6
    <3> QED
      BY <3>1
  <2>11. ParkInv'
    <3> SUFFICES ASSUME NEW v \in Worker, worker'[v].pc = "park"
                 PROVE  IF worker'[v].row = NoRow
                        THEN \A i \in 1 .. Len(d) : d[i].event # worker'[v].event
                        ELSE sent[worker'[v].event] \/ \E i \in 1 .. Len(d) : d[i].event = worker'[v].event
      BY <1>1, <2>6 DEF ParkInv
    <3>1. /\ v # w /\ worker'[v] = worker[v] /\ worker[v].event \in Event
          /\ worker[v].event # e /\ worker[v].pc = "park"
      BY <1>0, <1>1, <1>4 DEF SlotInv
    <3>2. CASE worker[v].row = NoRow
      <4>1. \A i \in 1 .. Len(dlq) : dlq[i].event # worker[v].event
        BY <1>0, <3>1, <3>2 DEF ParkInv
      <4> QED
        BY <2>4, <2>9, <3>1, <3>2, <4>1
    <3>3. CASE worker[v].row # NoRow
      BY <1>0, <2>10, <3>1, <3>3 DEF ParkInv
    <3> QED
      BY <3>2, <3>3
  <2>12. SweepInv'
    <3>1. ASSUME NEW k \in 1 .. Len(sweep.todo), NEW i \in 1 .. Len(d), d[i].id = sweep.todo[k].id
          PROVE  d[i].event = sweep.todo[k].event
      <4>1. PICK j \in 1 .. Len(dlq) : d[i] = dlq[j]
        BY <2>2, <2>4, <2>9, <3>1
      <4> QED
        BY <1>0, <3>1, <4>1 DEF SweepInv
    <3> QED
      BY <1>0, <1>1, <2>6, <3>1 DEF SweepInv
  <2>13. LostInv'
    <3> SUFFICES ASSUME NEW f \in Event
                 PROVE  \/ outbox'[f].status \in {"absent", "pending", "processing"}
                        \/ sent[f]
                        \/ outbox'[f].status = "dead_letter" /\ \E i \in 1 .. Len(d) : d[i].event = f
      BY <1>1, <2>6 DEF LostInv
    <3>1. CASE f = e
      <4>1. 1 \in 1 .. Len(d) /\ d[1].event = e
        BY <2>4, <2>6
      <4> QED
        BY <1>3, <3>1, <4>1
    <3>2. CASE f # e
      BY <1>0, <1>3, <2>10, <3>2 DEF LostInv
    <3> QED
      BY <3>1, <3>2
  <2> QED
    BY <1>5, <1>6, <2>6, <2>8, <2>11, <2>12, <2>13, OutboxInvFrom
<1> QED
  BY <1>7, <1>8 DEF Park

-----------------------------------------------------------------------------
(* The sweep, the administrator and time.                                  *)

\* What their steps share: slots, jobs and locks are left alone.
LEMMA OutsideKeeps ==
  ASSUME OutboxInv, UNCHANGED <<sent, lock, polled, job, worker>>,
         outbox' \in [Event -> OutboxRow],
         request' \in {NoRequest} \cup [event : Event, row : RowId \cup {NoRow}],
         NEW d, dlq' = d, d \in Seq(DlqRow), Taken(d, dlq),
         NEW t, NEW a, sweep' = [todo |-> t, act |-> a], t \in Seq(DlqRow),
         a \in {"inspect", "release", "redrive"},
         \A e \in Event : (\E j \in 1 .. Len(dlq) : dlq[j].event = e) =>
            sent[e] \/ \E i \in 1 .. Len(d) : d[i].event = e,
         \A k \in 1 .. Len(t) : \E l \in 1 .. Len(sweep.todo) :
            t[k].id = sweep.todo[l].id /\ t[k].event = sweep.todo[l].event,
         a # "inspect" => t # <<>>,
         a = "release" => sent[t[1].event],
         \A e \in Event : outbox'[e].status = outbox[e].status \/ outbox'[e].status \in Safe
  PROVE  OutboxInv'
<1>0. Types /\ LockInv /\ SlotInv /\ Uniq(dlq) /\ ParkInv /\ SweepInv /\ LostInv
  BY DEF OutboxInv
<1>1. sweep'.todo = t /\ sweep'.act = a /\ sweep' = [todo |-> sweep'.todo, act |-> sweep'.act]
  OBVIOUS
<1>2. Types'
  BY <1>0, <1>1 DEF Types
<1>3. LockInv'
  BY <1>0 DEF LockInv
<1>4. SlotInv'
  BY <1>0 DEF SlotInv
<1>5. Uniq(dlq)' /\ ParkInv' /\ SweepInv' /\ LostInv'
  <2>1. /\ sweep'.act # "inspect" => t # <<>>
        /\ sweep'.act = "release" => sent[t[1].event]
    BY <1>1
  <2>2. \A v \in Worker : worker'[v].pc = "park" => worker'[v] = worker[v]
    OBVIOUS
  <2>3. UNCHANGED sent /\ sweep'.todo = t
    BY <1>1
  <2> QED
    BY <1>0, <2>1, <2>2, <2>3, RowsTaken
<1> QED
  BY <1>2, <1>3, <1>4, <1>5, OutboxInvFrom

\* Leaving the DLQ alone takes all of its rows.
LEMMA AllTaken == ASSUME Types, Uniq(dlq) PROVE Taken(dlq, dlq)
  BY DEF Taken

\* The first row the sweep has to treat.
LEMMA HeadIs ==
  ASSUME Types, sweep.todo # <<>>
  PROVE  /\ Head(sweep.todo) = sweep.todo[1] /\ 1 \in 1 .. Len(sweep.todo)
         /\ sweep.todo[1] \in DlqRow /\ sweep.todo[1].event \in Event
         /\ sweep.todo[1].id \in RowId
<1>1. /\ Head(sweep.todo) = sweep.todo[1] /\ 1 \in 1 .. Len(sweep.todo)
      /\ sweep.todo[1] \in DlqRow
  BY DEF Types
<1> QED
  BY <1>1 DEF DlqRow

\* A redrive makes the event pending and keeps every row.
LEMMA RedriveIs ==
  ASSUME Types, Uniq(dlq), NEW e \in Event, NEW id, Redrive(e, id)
  PROVE  /\ outbox' \in [Event -> OutboxRow]
         /\ \A f \in Event : outbox'[f].status = outbox[f].status \/ outbox'[f].status \in Safe
         /\ \E d : /\ dlq' = d /\ d \in Seq(DlqRow) /\ Taken(d, dlq)
                   /\ \A f \in Event : (\E j \in 1 .. Len(dlq) : dlq[j].event = f) =>
                         sent[f] \/ \E i \in 1 .. Len(d) : d[i].event = f
<1>1. /\ outbox' \in [Event -> OutboxRow]
      /\ \A f \in Event : outbox'[f].status = outbox[f].status \/ outbox'[f].status \in Safe
  BY FreshIs DEF Redrive, Types, Safe
<1>2. PICK d : d = Touched(id)
  OBVIOUS
<1>3. /\ dlq' = d /\ d \in Seq(DlqRow) /\ Taken(d, dlq)
      /\ \A j \in 1 .. Len(dlq) : \E i \in 1 .. Len(d) : d[i].event = dlq[j].event
  BY <1>2, TouchedTakes DEF Redrive
<1>4. \A f \in Event : (\E j \in 1 .. Len(dlq) : dlq[j].event = f) =>
         sent[f] \/ \E i \in 1 .. Len(d) : d[i].event = f
  BY <1>3
<1> QED
  BY <1>1, <1>3, <1>4

\* The sweep reads rows of the DLQ as they are.
LEMMA SweepStartKeeps == ASSUME OutboxInv, SweepStart PROVE OutboxInv'
<1>0. Types /\ LockInv /\ SlotInv /\ Uniq(dlq) /\ ParkInv /\ SweepInv /\ LostInv
  BY DEF OutboxInv
<1>1. PICK t : t = IF Len(dlq) <= SweepBatch THEN dlq ELSE SubSeq(dlq, 1, SweepBatch)
  OBVIOUS
<1>2. /\ UNCHANGED <<outbox, sent, lock, polled, job, worker, dlq, request>>
      /\ sweep' = [todo |-> t, act |-> "inspect"]
  BY <1>1 DEF SweepStart
<1>3. t \in Seq(DlqRow) /\ \A k \in 1 .. Len(t) : k \in 1 .. Len(dlq) /\ t[k] = dlq[k]
  BY <1>0, <1>1, ConstantsAre DEF Types
<1>4. Types'
  BY <1>0, <1>2, <1>3 DEF Types
<1>5. SweepInv'
  <2>1. ASSUME NEW k \in 1 .. Len(t), NEW i \in 1 .. Len(dlq), dlq[i].id = t[k].id
        PROVE  dlq[i].event = t[k].event
    BY <1>0, <1>3, <2>1 DEF Uniq
  <2>2. sweep'.todo = t /\ sweep'.act = "inspect" /\ dlq' = dlq
    BY <1>2
  <2> QED
    BY <2>1, <2>2 DEF SweepInv
<1>6. LockInv' /\ SlotInv' /\ Uniq(dlq)' /\ ParkInv' /\ LostInv'
  BY <1>0, <1>2 DEF LockInv, SlotInv, Uniq, ParkInv, LostInv
<1> QED
  BY <1>4, <1>5, <1>6, OutboxInvFrom

\* The steps of the sweep: only an event its handler got is released.
LEMMA SweepKeeps ==
  ASSUME OutboxInv, SweepInspect \/ SweepRelease \/ SweepRedrive PROVE OutboxInv'
<1>0. Types /\ LockInv /\ SlotInv /\ Uniq(dlq) /\ ParkInv /\ SweepInv /\ LostInv
  BY DEF OutboxInv
<1>1. /\ sweep.todo # <<>> /\ UNCHANGED <<sent, lock, polled, job, worker, request>>
  BY <1>0 DEF SweepInspect, SweepRelease, SweepRedrive, SweepInv
<1>2. request' \in {NoRequest} \cup [event : Event, row : RowId \cup {NoRow}]
  BY <1>0, <1>1 DEF Types
<1>3. UNCHANGED outbox => /\ outbox' \in [Event -> OutboxRow]
                          /\ \A e \in Event : \/ outbox'[e].status = outbox[e].status
                                              \/ outbox'[e].status \in Safe
  BY <1>0 DEF Types
<1>4. PICK t : t = Tail(sweep.todo)
  OBVIOUS
<1>5. /\ t \in Seq(DlqRow)
      /\ \A k \in 1 .. Len(t) : \E l \in 1 .. Len(sweep.todo) :
            t[k].id = sweep.todo[l].id /\ t[k].event = sweep.todo[l].event
  <2>1. /\ t \in Seq(DlqRow)
        /\ \A k \in 1 .. Len(t) : k + 1 \in 1 .. Len(sweep.todo) /\ t[k] = sweep.todo[k + 1]
    BY <1>0, <1>1, <1>4 DEF Types
  <2> QED
    BY <2>1
<1>6. PICK r : r = Head(sweep.todo) /\ r = sweep.todo[1] /\ r \in DlqRow /\ r.event \in Event
  BY <1>0, <1>1, HeadIs
<1>7. PICK a : a = "inspect" /\ a # "release" /\ a \in {"inspect", "release", "redrive"}
  OBVIOUS
<1>8. SweepNext => sweep' = [todo |-> t, act |-> a]
  BY <1>4, <1>7 DEF SweepNext
<1>9. CASE SweepInspect
  <2>1. UNCHANGED <<outbox, dlq>>
    BY <1>9 DEF SweepInspect
  <2>2. PICK d : d = dlq /\ dlq' = d
    BY <2>1
  <2>3. /\ d \in Seq(DlqRow) /\ Taken(d, dlq)
        /\ \A e \in Event : (\E j \in 1 .. Len(dlq) : dlq[j].event = e) =>
              sent[e] \/ \E i \in 1 .. Len(d) : d[i].event = e
    BY <1>0, <2>2, AllTaken DEF Types
  <2>4. CASE SweepNext
    BY <1>1, <1>2, <1>3, <1>5, <1>7, <1>8, <2>1, <2>2, <2>3, <2>4, OutsideKeeps
  <2>5. CASE Verdict(r) # "skip" /\ sweep' = [sweep EXCEPT !.act = Verdict(r)]
    <3>1. PICK b, s : b = Verdict(r) /\ s = sweep.todo
      OBVIOUS
    <3>2. sweep' = [todo |-> s, act |-> b]
      BY <1>0, <2>5, <3>1 DEF Types
    <3>3. b \in {"release", "redrive"} /\ (b = "release" => outbox[r.event].status = "delivered")
      BY <2>5, <3>1 DEF Verdict
    <3>4. b \in {"inspect", "release", "redrive"} /\ s # <<>> /\ s \in Seq(DlqRow)
      BY <1>0, <1>1, <3>1, <3>3 DEF Types
    <3>5. b = "release" => sent[s[1].event]
      BY <1>0, <1>6, <3>1, <3>3 DEF LostInv
    <3>6. \A k \in 1 .. Len(s) : \E l \in 1 .. Len(sweep.todo) :
            s[k].id = sweep.todo[l].id /\ s[k].event = sweep.todo[l].event
      BY <3>1
    <3> QED
      BY <1>1, <1>2, <1>3, <2>1, <2>2, <2>3, <3>2, <3>4, <3>5, <3>6, OutsideKeeps
  <2> QED
    BY <1>6, <1>9, <2>4, <2>5 DEF SweepInspect
<1>10. CASE SweepRelease
  <2>1. PICK K, d : /\ K = {q \in Range(dlq) : q.id # r.id}
                    /\ d = Selected(dlq, K) /\ dlq' = d
    BY <1>6, <1>10 DEF SweepRelease
  <2>2. UNCHANGED outbox /\ SweepNext /\ sent[r.event]
    BY <1>0, <1>6, <1>10 DEF SweepRelease, SweepInv
  <2>3. /\ d \in Seq(DlqRow) /\ Taken(d, dlq)
        /\ \A j \in 1 .. Len(dlq) : dlq[j] \in K => \E i \in 1 .. Len(d) : d[i] = dlq[j]
    <3>1. dlq \in Seq(DlqRow) /\ Uniq(dlq)
      BY <1>0 DEF Types
    <3>2. /\ Selected(dlq, K) \in Seq(DlqRow) /\ Taken(Selected(dlq, K), dlq)
          /\ \A j \in 1 .. Len(dlq) : dlq[j] \in K =>
                \E i \in 1 .. Len(Selected(dlq, K)) : Selected(dlq, K)[i] = dlq[j]
      BY <3>1, SelectedTakes
    <3> QED
      BY <2>1, <3>2
  <2>4. ASSUME NEW e \in Event, NEW j \in 1 .. Len(dlq), dlq[j].event = e
        PROVE  sent[e] \/ \E i \in 1 .. Len(d) : d[i].event = e
    <3>1. CASE dlq[j].id = r.id
      <4>1. dlq[j].event = r.event
        BY <1>0, <1>1, <1>6, <3>1, HeadIs DEF SweepInv
      <4> QED
        BY <2>2, <2>4, <4>1
    <3>2. CASE dlq[j].id # r.id
      <4>1. dlq[j] \in K
        BY <1>0, <2>1, <3>2, RangeEquality DEF Types
      <4> QED
        BY <2>3, <2>4, <4>1
    <3> QED
      BY <3>1, <3>2
  <2>5. \A e \in Event : (\E j \in 1 .. Len(dlq) : dlq[j].event = e) =>
              sent[e] \/ \E i \in 1 .. Len(d) : d[i].event = e
    BY <2>4
  <2>6. dlq' = d /\ sweep' = [todo |-> t, act |-> a]
    BY <1>8, <2>1, <2>2
  <2> QED
    <3>1. /\ outbox' \in [Event -> OutboxRow]
          /\ \A e \in Event : outbox'[e].status = outbox[e].status \/ outbox'[e].status \in Safe
      BY <1>3, <2>2
    <3>2. d \in Seq(DlqRow) /\ Taken(d, dlq)
      BY <2>3
    <3> QED
      BY <1>1, <1>2, <1>5, <1>7, <2>5, <2>6, <3>1, <3>2, OutsideKeeps
<1>11. CASE SweepRedrive
  <2>1. SweepNext /\ (Redrive(r.event, r.id) \/ UNCHANGED <<outbox, dlq>>)
    BY <1>6, <1>11 DEF SweepRedrive
  <2>2. sweep' = [todo |-> t, act |-> a]
    BY <1>8, <2>1
  <2>3. CASE Redrive(r.event, r.id)
    <3>1. /\ outbox' \in [Event -> OutboxRow]
          /\ \A f \in Event : outbox'[f].status = outbox[f].status \/ outbox'[f].status \in Safe
          /\ \E d : /\ dlq' = d /\ d \in Seq(DlqRow) /\ Taken(d, dlq)
                    /\ \A f \in Event : (\E j \in 1 .. Len(dlq) : dlq[j].event = f) =>
                          sent[f] \/ \E i \in 1 .. Len(d) : d[i].event = f
      BY <1>0, <1>6, <2>3, RedriveIs
    <3>2. PICK d : /\ dlq' = d /\ d \in Seq(DlqRow) /\ Taken(d, dlq)
                   /\ \A f \in Event : (\E j \in 1 .. Len(dlq) : dlq[j].event = f) =>
                         sent[f] \/ \E i \in 1 .. Len(d) : d[i].event = f
      BY <3>1
    <3> QED
      BY <1>1, <1>2, <1>5, <1>7, <2>2, <3>1, <3>2, OutsideKeeps
  <2>4. CASE UNCHANGED <<outbox, dlq>>
    <3>1. PICK d : d = dlq /\ dlq' = d
      BY <2>4
    <3>2. /\ d \in Seq(DlqRow) /\ Taken(d, dlq)
          /\ \A e \in Event : (\E j \in 1 .. Len(dlq) : dlq[j].event = e) =>
                sent[e] \/ \E i \in 1 .. Len(d) : d[i].event = e
      BY <1>0, <3>1, AllTaken DEF Types
    <3> QED
      BY <1>1, <1>2, <1>3, <1>5, <1>7, <2>2, <2>4, <3>1, <3>2, OutsideKeeps
  <2> QED
    BY <2>1, <2>3, <2>4
<1> QED
  BY <1>9, <1>10, <1>11

\* The administrator's retries write what was read before.
LEMMA AdminKeeps == ASSUME OutboxInv, AdminReads \/ AdminWrites PROVE OutboxInv'
<1>0. Types /\ LockInv /\ SlotInv /\ Uniq(dlq) /\ ParkInv /\ SweepInv /\ LostInv
  BY DEF OutboxInv
<1>1. UNCHANGED <<sent, lock, polled, job, worker, sweep>>
  BY DEF AdminReads, AdminWrites
<1>2. PICK t, a : t = sweep.todo /\ a = sweep.act
  OBVIOUS
<1>3. /\ sweep' = [todo |-> t, act |-> a] /\ t \in Seq(DlqRow)
      /\ a \in {"inspect", "release", "redrive"}
      /\ a # "inspect" => t # <<>>
      /\ a = "release" => sent[t[1].event]
  BY <1>0, <1>1, <1>2 DEF Types, SweepInv
<1>4. \A k \in 1 .. Len(t) : \E l \in 1 .. Len(sweep.todo) :
            t[k].id = sweep.todo[l].id /\ t[k].event = sweep.todo[l].event
  BY <1>2
<1>5. CASE AdminReads
  <2>1. UNCHANGED <<outbox, dlq>>
    BY <1>5 DEF AdminReads
  <2>2. request' \in {NoRequest} \cup [event : Event, row : RowId \cup {NoRow}]
    <3>1. CASE \E r \in Range(dlq) : request' = [event |-> r.event, row |-> r.id]
      <4>1. \A r \in Range(dlq) : r.event \in Event /\ r.id \in RowId
        <5>1. \A r \in Range(dlq) : r \in DlqRow
          BY <1>0, RangeEquality, ElementOfSeq DEF Types
        <5> QED
          BY <5>1 DEF DlqRow
      <4> QED
        BY <3>1, <4>1
    <3>2. CASE \E e \in Event : request' = [event |-> e, row |-> NoRow]
      BY <3>2
    <3> QED
      BY <1>5, <3>1, <3>2 DEF AdminReads
  <2>3. PICK d : d = dlq /\ dlq' = d
    BY <2>1
  <2>4. /\ d \in Seq(DlqRow) /\ Taken(d, dlq)
        /\ \A e \in Event : (\E j \in 1 .. Len(dlq) : dlq[j].event = e) =>
              sent[e] \/ \E i \in 1 .. Len(d) : d[i].event = e
    BY <1>0, <2>3, AllTaken DEF Types
  <2>5. /\ outbox' \in [Event -> OutboxRow]
        /\ \A e \in Event : outbox'[e].status = outbox[e].status \/ outbox'[e].status \in Safe
    BY <1>0, <2>1 DEF Types
  <2> QED
    BY <1>1, <1>3, <1>4, <2>2, <2>3, <2>4, <2>5, OutsideKeeps
<1>6. CASE AdminWrites
  <2>1. /\ request \in [event : Event, row : RowId \cup {NoRow}]
        /\ Redrive(request.event, request.row) /\ request' = NoRequest
    BY <1>0, <1>6 DEF AdminWrites, Types
  <2>2. request.event \in Event
    BY <2>1
  <2>3. /\ outbox' \in [Event -> OutboxRow]
        /\ \A f \in Event : outbox'[f].status = outbox[f].status \/ outbox'[f].status \in Safe
        /\ \E d : /\ dlq' = d /\ d \in Seq(DlqRow) /\ Taken(d, dlq)
                  /\ \A f \in Event : (\E j \in 1 .. Len(dlq) : dlq[j].event = f) =>
                        sent[f] \/ \E i \in 1 .. Len(d) : d[i].event = f
    BY <1>0, <2>1, <2>2, RedriveIs
  <2>4. PICK d : /\ dlq' = d /\ d \in Seq(DlqRow) /\ Taken(d, dlq)
                 /\ \A f \in Event : (\E j \in 1 .. Len(dlq) : dlq[j].event = f) =>
                       sent[f] \/ \E i \in 1 .. Len(d) : d[i].event = f
    BY <2>3
  <2>5. request' \in {NoRequest} \cup [event : Event, row : RowId \cup {NoRow}]
    BY <2>1
  <2> QED
    BY <1>1, <1>3, <1>4, <2>3, <2>4, <2>5, OutsideKeeps
<1> QED
  BY <1>5, <1>6

\* Time makes events and rows due, and changes nothing else of them.
LEMMA ElapseKeeps == ASSUME OutboxInv, Elapse PROVE OutboxInv'
<1>0. Types /\ LockInv /\ SlotInv /\ Uniq(dlq) /\ ParkInv /\ SweepInv /\ LostInv
  BY DEF OutboxInv
<1>1. UNCHANGED <<sent, lock, polled, job, worker, request>>
  BY DEF Elapse, BackoffElapses, RowRipens, SnapshotRipens
<1>2. request' \in {NoRequest} \cup [event : Event, row : RowId \cup {NoRow}]
  BY <1>0, <1>1 DEF Types
<1>3. UNCHANGED outbox => /\ outbox' \in [Event -> OutboxRow]
                          /\ \A e \in Event : \/ outbox'[e].status = outbox[e].status
                                              \/ outbox'[e].status \in Safe
  BY <1>0 DEF Types
<1>4. PICK t, a : t = sweep.todo /\ a = sweep.act /\ sweep = [todo |-> t, act |-> a]
  BY <1>0 DEF Types
<1>5. /\ t \in Seq(DlqRow) /\ a \in {"inspect", "release", "redrive"}
      /\ a # "inspect" => t # <<>>
      /\ a = "release" => sent[t[1].event]
  BY <1>0, <1>4 DEF Types, SweepInv
<1>6. \A k \in 1 .. Len(t) : \E l \in 1 .. Len(sweep.todo) :
            t[k].id = sweep.todo[l].id /\ t[k].event = sweep.todo[l].event
  BY <1>4
<1>7. UNCHANGED dlq => \E d : /\ dlq' = d /\ d \in Seq(DlqRow) /\ Taken(d, dlq)
                              /\ \A f \in Event : (\E j \in 1 .. Len(dlq) : dlq[j].event = f) =>
                                    sent[f] \/ \E i \in 1 .. Len(d) : d[i].event = f
  BY <1>0, AllTaken DEF Types
<1>8. CASE \E e \in Event : BackoffElapses(e)
  <2>1. PICK e \in Event : outbox' = [outbox EXCEPT ![e].due = TRUE]
    BY <1>8 DEF BackoffElapses
  <2>2. UNCHANGED <<dlq, sweep>>
    BY <1>8 DEF BackoffElapses
  <2>3. /\ outbox' \in [Event -> OutboxRow]
        /\ \A f \in Event : outbox'[f].status = outbox[f].status \/ outbox'[f].status \in Safe
    <3> DEFINE row == [outbox[e] EXCEPT !.due = TRUE]
    <3>1. outbox \in [Event -> OutboxRow] /\ outbox' = [outbox EXCEPT ![e] = row]
      BY <1>0, <2>1 DEF Types
    <3>2. row \in OutboxRow /\ row.status = outbox[e].status
      BY <3>1 DEF OutboxRow
    <3> HIDE DEF row
    <3> QED
      BY <3>1, <3>2
  <2>4. PICK d : /\ dlq' = d /\ d \in Seq(DlqRow) /\ Taken(d, dlq)
                 /\ \A f \in Event : (\E j \in 1 .. Len(dlq) : dlq[j].event = f) =>
                       sent[f] \/ \E i \in 1 .. Len(d) : d[i].event = f
    BY <1>7, <2>2
  <2>5. sweep' = [todo |-> t, act |-> a]
    BY <1>4, <2>2
  <2> QED
    BY <1>1, <1>2, <1>5, <1>6, <2>3, <2>4, <2>5, OutsideKeeps
<1>9. CASE \E i \in 1 .. Len(dlq) : RowRipens(i)
  <2>1. PICK i \in 1 .. Len(dlq) : dlq' = [dlq EXCEPT ![i].ripe = TRUE]
    BY <1>9 DEF RowRipens
  <2>2. UNCHANGED <<outbox, sweep>>
    BY <1>9 DEF RowRipens
  <2>3. PICK d : d = [dlq EXCEPT ![i].ripe = TRUE]
    OBVIOUS
  <2>4. \A j \in 1 .. Len(dlq) : dlq[j] \in DlqRow
    BY <1>0, ElementOfSeq DEF Types
  <2>5. [dlq[i] EXCEPT !.ripe = TRUE] \in DlqRow
    BY <2>4 DEF DlqRow
  <2>6. /\ d \in Seq(DlqRow) /\ Len(d) = Len(dlq)
        /\ \A j \in 1 .. Len(dlq) : d[j].id = dlq[j].id /\ d[j].event = dlq[j].event
    <3>1. d = [dlq EXCEPT ![i] = [dlq[i] EXCEPT !.ripe = TRUE]]
      BY <2>3
    <3>2. d \in Seq(DlqRow) /\ Len(d) = Len(dlq)
      BY <1>0, <2>5, <3>1, ExceptSeq DEF Types
    <3>3. \A j \in 1 .. Len(dlq) : d[j] = IF j = i THEN [dlq[i] EXCEPT !.ripe = TRUE] ELSE dlq[j]
      BY <1>0, <3>1 DEF Types
    <3>4. [dlq[i] EXCEPT !.ripe = TRUE].id = dlq[i].id /\ [dlq[i] EXCEPT !.ripe = TRUE].event = dlq[i].event
      BY <2>4 DEF DlqRow
    <3> QED
      BY <3>2, <3>3, <3>4
  <2>7. Taken(d, dlq)
    BY <1>0, <2>6 DEF Taken, Uniq
  <2>8. \A f \in Event : (\E j \in 1 .. Len(dlq) : dlq[j].event = f) =>
              sent[f] \/ \E k \in 1 .. Len(d) : d[k].event = f
    BY <2>6
  <2>9. dlq' = d /\ d \in Seq(DlqRow) /\ sweep' = [todo |-> t, act |-> a]
    BY <1>4, <2>1, <2>2, <2>3, <2>6
  <2> QED
    BY <1>1, <1>2, <1>3, <1>5, <1>6, <2>2, <2>7, <2>8, <2>9, OutsideKeeps
<1>10. CASE SnapshotRipens
  <2>1. /\ t # <<>> /\ sweep' = [sweep EXCEPT !.todo[1].ripe = TRUE] /\ UNCHANGED <<outbox, dlq>>
    BY <1>4, <1>10 DEF SnapshotRipens
  <2>2. PICK s : s = [t EXCEPT ![1].ripe = TRUE]
    OBVIOUS
  <2>3. sweep' = [todo |-> s, act |-> a]
    BY <1>4, <2>1, <2>2
  <2>4. 1 \in 1 .. Len(t) /\ \A j \in 1 .. Len(t) : t[j] \in DlqRow
    BY <1>5, <2>1, ElementOfSeq
  <2>5. [t[1] EXCEPT !.ripe = TRUE] \in DlqRow
    BY <2>4 DEF DlqRow
  <2>6. /\ s \in Seq(DlqRow) /\ Len(s) = Len(t)
        /\ \A j \in 1 .. Len(t) : s[j].id = t[j].id /\ s[j].event = t[j].event
    <3>1. s = [t EXCEPT ![1] = [t[1] EXCEPT !.ripe = TRUE]]
      BY <2>2
    <3>2. s \in Seq(DlqRow) /\ Len(s) = Len(t)
      BY <1>5, <2>4, <2>5, <3>1, ExceptSeq
    <3>3. \A j \in 1 .. Len(t) : s[j] = IF j = 1 THEN [t[1] EXCEPT !.ripe = TRUE] ELSE t[j]
      BY <1>5, <3>1
    <3>4. [t[1] EXCEPT !.ripe = TRUE].id = t[1].id /\ [t[1] EXCEPT !.ripe = TRUE].event = t[1].event
      BY <2>4 DEF DlqRow
    <3> QED
      BY <3>2, <3>3, <3>4
  <2>7. s # <<>> /\ (a = "release" => sent[s[1].event])
    BY <1>5, <2>4, <2>6
  <2>8. \A k \in 1 .. Len(s) : \E l \in 1 .. Len(sweep.todo) :
            s[k].id = sweep.todo[l].id /\ s[k].event = sweep.todo[l].event
    BY <1>4, <2>6
  <2>9. PICK d : /\ dlq' = d /\ d \in Seq(DlqRow) /\ Taken(d, dlq)
                 /\ \A f \in Event : (\E j \in 1 .. Len(dlq) : dlq[j].event = f) =>
                       sent[f] \/ \E i \in 1 .. Len(d) : d[i].event = f
    BY <1>7, <2>1
  <2>10. s \in Seq(DlqRow) /\ (a # "inspect" => s # <<>>) /\ a \in {"inspect", "release", "redrive"}
    BY <1>5, <2>6, <2>7
  <2> QED
    BY <1>1, <1>2, <1>3, <2>1, <2>3, <2>7, <2>8, <2>9, <2>10, OutsideKeeps
<1> QED
  BY <1>8, <1>9, <1>10 DEF Elapse

-----------------------------------------------------------------------------
\* Every step keeps the invariant.
LEMMA OutboxInvStep == OutboxInv /\ [Next]_vars => OutboxInv'
<1> SUFFICES ASSUME OutboxInv, [Next]_vars PROVE OutboxInv'
  OBVIOUS
<1>1. CASE UNCHANGED vars
  <2>1. UNCHANGED <<outbox, sent, lock, polled, job, worker, dlq, sweep, request>>
    BY <1>1 DEF vars
  <2> QED
    BY <2>1 DEF OutboxInv, Types, LockInv, SlotInv, Uniq, ParkInv, SweepInv, LostInv
<1>2. CASE \/ \E e \in Event : Publish(e) \/ JobStalled(e) \/ Trim(e)
           \/ Poll \/ Enqueue \/ EnqueueFails
  BY <1>2, QueueingKeeps
<1>3. ASSUME NEW w \in Worker, Slot(w) PROVE OutboxInv'
  <2>1. CASE \E e \in Event : Take(w, e)
    BY <2>1, TakingKeeps
  <2>2. CASE \/ Connect(w) \/ MarkProcessing(w) \/ Dispatch(w) \/ MarkDelivered(w) \/ Commit(w)
    BY <2>2, AttemptKeeps
  <2>3. CASE ReadRetries(w) \/ Requeue(w)
    BY <2>3, RetryingKeeps
  <2> QED
    BY <1>3, <2>1, <2>2, <2>3, LockingKeeps, FindingKeeps, ParkKeeps DEF Slot
<1>4. ASSUME NEW w \in Worker, Fault(w) PROVE OutboxInv'
  BY <1>4, AttemptKeeps, RetryingKeeps DEF Fault
<1>5. CASE Sweeper
  BY <1>5, SweepStartKeeps, SweepKeeps DEF Sweeper
<1>6. CASE Admin
  BY <1>6, AdminKeeps DEF Admin
<1>7. CASE Elapse
  BY <1>7, ElapseKeeps
<1> QED
  BY <1>1, <1>2, <1>3, <1>4, <1>5, <1>6, <1>7 DEF Next

\* What the invariant says of each event.
LEMMA OutboxInvSays == OutboxInv => TypeOK /\ OneRowPerEvent /\ NothingLost
<1> SUFFICES ASSUME OutboxInv PROVE TypeOK /\ OneRowPerEvent /\ NothingLost
  OBVIOUS
<1>0. Types /\ LockInv /\ Uniq(dlq) /\ LostInv
  BY DEF OutboxInv
<1>1. TypeOK
  <2>1. sweep \in [todo : Seq(DlqRow), act : {"inspect", "release", "redrive"}]
    <3> HIDE DEF DlqRow
    <3> QED
      BY <1>0 DEF Types
  <2> QED
    BY <1>0, <2>1 DEF Types, LockInv, TypeOK, OutboxRow, SlotRow
<1>2. Range(dlq) = {dlq[i] : i \in 1 .. Len(dlq)}
  BY <1>0, RangeEquality DEF Types
<1>3. OneRowPerEvent
  <2> SUFFICES ASSUME NEW e \in Event PROVE Cardinality(RowsOf(e)) <= 1
    BY DEF OneRowPerEvent
  <2>1. \A q, r \in RowsOf(e) : q = r
    BY <1>0, <1>2 DEF RowsOf, Uniq
  <2>2. CASE RowsOf(e) = {}
    BY <2>2, FS_EmptySet
  <2>3. CASE RowsOf(e) # {}
    <3>1. PICK r : r \in RowsOf(e)
      BY <2>3
    <3>2. RowsOf(e) = {r}
      BY <2>1, <3>1
    <3>3. Cardinality({r}) = 1
      BY FS_Singleton
    <3> QED
      BY <3>2, <3>3
  <2> QED
    BY <2>2, <2>3
<1>4. NothingLost
  <2> SUFFICES ASSUME NEW e \in Event
               PROVE  \/ outbox[e].status \in {"absent", "pending", "processing"}
                      \/ sent[e]
                      \/ outbox[e].status = "dead_letter" /\ RowsOf(e) # {}
    BY DEF NothingLost
  <2>1. (\E i \in 1 .. Len(dlq) : dlq[i].event = e) => RowsOf(e) # {}
    BY <1>2 DEF RowsOf
  <2> QED
    BY <1>0, <2>1 DEF LostInv
<1> QED
  BY <1>1, <1>3, <1>4

\* The invariant holds for ever.
LEMMA OutboxInvHolds == Spec => []OutboxInv
<1>1. OutboxInv /\ [Next]_vars => OutboxInv'
  BY OutboxInvStep
<1> QED
  BY <1>1, OutboxInvInit, PTL DEF Spec

\* Whatever fails, the rows stay well formed: markForRetry keeps retry_count
\* below maxRetries, and no lock outlives its transaction.
THEOREM OutboxTypeCorrect == Spec => []TypeOK
  BY OutboxInvHolds, OutboxInvSays, PTL

\* moveToDeadLetter keeps one row per event, though nothing but BullMQ's job
\* id keeps two slots from parking the same event: through crashes, stalled
\* jobs, sweeps and the administrator's retries, for any number of slots.
THEOREM RowsAreUnique == Spec => []OneRowPerEvent
  BY OutboxInvHolds, OutboxInvSays, PTL

\* No event is marked delivered, and no row of the DLQ released, before its
\* handler was called: until then the event is in the outbox's open rows or
\* has its row in the DLQ.
THEOREM NoEventIsLost == Spec => []NothingLost
  BY OutboxInvHolds, OutboxInvSays, PTL
=============================================================================
