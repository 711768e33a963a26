--------------------------- MODULE OutboxDispatch ---------------------------
(***************************************************************************)
(* The transactional outbox after an event has been published: the         *)
(* dispatcher's poll and its worker slots, retries with backoff, the dead  *)
(* letter queue, its redrive sweep and the administrator's retries.        *)
(*                                                                         *)
(* One action is one database statement or one call that leaves the        *)
(* process.  processDispatchJob runs a transaction that locks the event's  *)
(* row, but its markProcessing, markDelivered and markForRetry use other   *)
(* connections of the pool: their UPDATEs wait for that lock, whoever      *)
(* holds it.  Timestamps are kept as "due or not".                         *)
(***************************************************************************)
EXTENDS Collections

CONSTANTS
  NumEvents,   \* events, in (aggregate_type, aggregate_id, sequence_no) order
  Worker,      \* dispatch slots, each in a process of its own
  Free,        \* "no slot holds the row lock"
  PollBatch,   \* batchSize of the poll
  SweepBatch,  \* REDRIVE_BATCH_SIZE
  MaxRetries,  \* maxRetries
  RowId,       \* dead_letter_events ids in use at one time
  Env          \* what may happen around the dispatcher: see Surroundings

Event == 1 .. NumEvents
NoRow == 0

\* Failing handlers, an exhausted pool, broken transaction connections, failing
\* retry statements, process crashes, an unreachable broker, an administrator.
Surroundings == {"handler", "pool", "connection", "statement", "crash", "broker", "admin"}

ASSUME OutboxAssumption ==
  /\ NumEvents \in Nat \ {0}
  /\ Free \notin Worker
  /\ PollBatch \in Nat \ {0} /\ SweepBatch \in Nat \ {0} /\ MaxRetries \in Nat \ {0}
  /\ RowId \subseteq Nat \ {NoRow}
  /\ Env \subseteq Surroundings

VARIABLES
  outbox,  \* outbox_events: status, retry_count, and whether retry_after passed
  sent,    \* the event reached its handler at least once
  lock,    \* holder of the row lock taken by SELECT ... FOR UPDATE
  polled,  \* rows a poll has read and not yet handed to BullMQ
  job,     \* BullMQ's job outbox-<id>
  worker,  \* where each slot is in processDispatchJob
  dlq,     \* dead_letter_events, newest last_attempt first
  sweep,   \* rows the running sweep has still to treat, and the action chosen
  request  \* what an administrator's redrive or retry has read and not yet written

vars == <<outbox, sent, lock, polled, job, worker, dlq, sweep, request>>

Status == {"absent", "pending", "processing", "delivered", "dead_letter"}
Pc == {"idle", "lock", "connect", "claim", "dispatch", "deliver", "commit",
       "retry", "requeue", "bury", "park"}
\* A finished job is "retained" until BullMQ trims it; until then its id is taken.
Job == {"none", "waiting", "active", "retained"}
DlqRow == [id : RowId, event : Event, ripe : BOOLEAN]
Idle == [pc |-> "idle", event |-> NoRow, cut |-> FALSE, retries |-> 0, row |-> NoRow]
NoRequest == [event |-> NoRow, row |-> NoRow]

Init ==
  /\ outbox = [e \in Event |-> [status |-> "absent", retries |-> 0, due |-> FALSE]]
  /\ sent = [e \in Event |-> FALSE]
  /\ lock = [e \in Event |-> Free]
  /\ polled = {}
  /\ job = [e \in Event |-> "none"]
  /\ worker = [w \in Worker |-> Idle]
  /\ dlq = <<>>
  /\ sweep = [todo |-> <<>>, act |-> "inspect"]
  /\ request = NoRequest

Fresh == [status |-> "pending", retries |-> 0, due |-> TRUE]

Publish(e) ==
  /\ outbox[e].status = "absent"
  /\ outbox' = [outbox EXCEPT ![e] = Fresh]
  /\ UNCHANGED <<sent, lock, polled, job, worker, dlq, sweep, request>>

-----------------------------------------------------------------------------
(* Polling.  The poll's own row locks end with its statement; polls are     *)
(* kept apart (a second one would only add jobs the queue knows already).  *)

Pollable == {e \in Event : outbox[e].status = "pending" /\ outbox[e].due /\ lock[e] = Free}

Poll ==
  /\ polled = {}
  /\ Pollable # {}
  /\ polled' = {e \in Pollable : Cardinality({f \in Pollable : f < e}) < PollBatch}
  /\ UNCHANGED <<outbox, sent, lock, job, worker, dlq, sweep, request>>

\* BUG: no jobId, so every poll queues the event again.
Enqueue_NoJobId ==
  /\ polled # {}
  /\ job' = [e \in Event |-> IF e \in polled THEN "waiting" ELSE job[e]]
  /\ polled' = {}
  /\ UNCHANGED <<outbox, sent, lock, worker, dlq, sweep, request>>

\* BullMQ ignores a job whose id it still knows.
Enqueue ==
  /\ polled # {}
  /\ job' = [e \in Event |-> IF e \in polled /\ job[e] = "none" THEN "waiting" ELSE job[e]]
  /\ polled' = {}
  /\ UNCHANGED <<outbox, sent, lock, worker, dlq, sweep, request>>

\* addBulk rejects; the next poll reads the same rows.
EnqueueFails ==
  /\ polled # {}
  /\ polled' = {}
  /\ UNCHANGED <<outbox, sent, lock, job, worker, dlq, sweep, request>>

-----------------------------------------------------------------------------
(* processDispatchJob.                                                     *)

Goto(w, pc) == worker' = [worker EXCEPT ![w].pc = pc]

Unlocked(w) == [e \in Event |-> IF lock[e] = w THEN Free ELSE lock[e]]

\* The job function returned or threw: either way BullMQ keeps the job's id.
Finish(w) ==
  /\ worker' = [worker EXCEPT ![w] = Idle]
  /\ job' = [job EXCEPT ![worker[w].event] = "retained"]

Take(w, e) ==
  /\ worker[w].pc = "idle"
  /\ job[e] = "waiting"
  /\ job' = [job EXCEPT ![e] = "active"]
  /\ worker' = [worker EXCEPT ![w] = [Idle EXCEPT !.pc = "lock", !.event = e]]
  /\ UNCHANGED <<outbox, sent, lock, polled, dlq, sweep, request>>

\* SELECT ... FOR UPDATE; a row that is no longer pending ends the job.
LockRow(w) ==
  LET e == worker[w].event IN
  /\ worker[w].pc = "lock"
  /\ lock[e] = Free
  /\ \/ /\ outbox[e].status = "pending"
        /\ lock' = [lock EXCEPT ![e] = w]
        /\ Goto(w, "connect")
        /\ UNCHANGED job
     \/ /\ outbox[e].status # "pending"
        /\ Finish(w)
        /\ UNCHANGED lock
  /\ UNCHANGED <<outbox, sent, polled, dlq, sweep, request>>

\* markProcessing has a second connection and sends its UPDATE.
Connect(w) ==
  /\ worker[w].pc = "connect"
  /\ Goto(w, "claim")
  /\ UNCHANGED <<outbox, sent, lock, polled, job, dlq, sweep, request>>

\* The UPDATE runs once nobody holds the row, this slot's transaction included.
MarkProcessing(w) ==
  LET e == worker[w].event IN
  /\ worker[w].pc = "claim"
  /\ lock[e] = Free
  /\ \/ /\ outbox[e].status = "pending"
        /\ outbox' = [outbox EXCEPT ![e].status = "processing"]
        /\ Goto(w, "dispatch")
     \/ /\ outbox[e].status # "pending"
        /\ Goto(w, "commit")
        /\ UNCHANGED outbox
  /\ UNCHANGED <<sent, lock, polled, job, dlq, sweep, request>>

Dispatch(w) ==
  /\ worker[w].pc = "dispatch"
  /\ sent' = [sent EXCEPT ![worker[w].event] = TRUE]
  /\ Goto(w, "deliver")
  /\ UNCHANGED <<outbox, lock, polled, job, dlq, sweep, request>>

\* The handler throws, before or after it has had its effect.
DispatchFails(w) ==
  /\ worker[w].pc = "dispatch"
  /\ \E reached \in BOOLEAN : sent' = [sent EXCEPT ![worker[w].event] = @ \/ reached]
  /\ Goto(w, "retry")
  /\ lock' = Unlocked(w)
  /\ UNCHANGED <<outbox, polled, job, dlq, sweep, request>>

MarkDelivered(w) ==
  LET e == worker[w].event IN
  /\ worker[w].pc = "deliver"
  /\ lock[e] = Free
  /\ outbox' = [outbox EXCEPT ![e].status = "delivered"]
  /\ Goto(w, "commit")
  /\ UNCHANGED <<sent, lock, polled, job, dlq, sweep, request>>

\* The commit of a transaction whose connection is gone throws.
Commit(w) ==
  /\ worker[w].pc = "commit"
  /\ \/ worker[w].cut /\ Goto(w, "retry") /\ UNCHANGED job
     \/ ~ worker[w].cut /\ Finish(w)
  /\ lock' = Unlocked(w)
  /\ UNCHANGED <<outbox, sent, polled, dlq, sweep, request>>

\* No connection within acquireTimeoutMillis: the transaction is rolled back.
AcquireTimesOut(w) ==
  /\ worker[w].pc \in {"lock", "connect", "deliver"}
  /\ Goto(w, "retry")
  /\ lock' = Unlocked(w)
  /\ UNCHANGED <<outbox, sent, polled, job, dlq, sweep, request>>

\* The transaction's connection breaks; its callback runs on.
ConnectionLost(w) ==
  /\ worker[w].pc \in {"connect", "claim", "dispatch", "deliver", "commit"}
  /\ worker' = [worker EXCEPT ![w].cut = TRUE]
  /\ lock' = Unlocked(w)
  /\ UNCHANGED <<outbox, sent, polled, job, dlq, sweep, request>>

-----------------------------------------------------------------------------
(* markForRetry and moveToDeadLetter.                                      *)

\* BUG: one attempt too many before the dead letter queue.
Exhausted_OffByOne(retries) == retries > MaxRetries

Exhausted(retries) == retries >= MaxRetries

ReadRetries(w) ==
  LET n == outbox[worker[w].event].retries + 1 IN
  /\ worker[w].pc = "retry"
  /\ worker' = [worker EXCEPT ![w].retries = n,
                              ![w].pc = IF Exhausted(n) THEN "bury" ELSE "requeue"]
  /\ UNCHANGED <<outbox, sent, lock, polled, job, dlq, sweep, request>>

Requeue(w) ==
  LET e == worker[w].event IN
  /\ worker[w].pc = "requeue"
  /\ lock[e] = Free
  /\ outbox' = [outbox EXCEPT ![e] = [status |-> "pending", retries |-> worker[w].retries,
                                     due |-> FALSE]]
  /\ Finish(w)
  /\ UNCHANGED <<sent, lock, polled, dlq, sweep, request>>

RowsOf(e) == {r \in Range(dlq) : r.event = e}

\* SELECT from dead_letter_events, in the transaction that Park commits.
FindRow(w) ==
  LET rows == RowsOf(worker[w].event) IN
  /\ worker[w].pc = "bury"
  /\ \E id \in IF rows = {} THEN {NoRow} ELSE {r.id : r \in rows} :
        worker' = [worker EXCEPT ![w].row = id, ![w].pc = "park"]
  /\ UNCHANGED <<outbox, sent, lock, polled, job, dlq, sweep, request>>

\* The row moves to the newest last_attempt; nothing happens if it is gone.
Touched(id) ==
  LET own    == {r \in Range(dlq) : r.id = id}
      others == {r \in Range(dlq) : r.id # id}
      Worn(rows) == [i \in 1 .. Len(rows) |-> [rows[i] EXCEPT !.ripe = FALSE]]
  IN Worn(Selected(dlq, own)) \o Selected(dlq, others)

\* Ids that no row, transaction or sweep refers to: a new uuid is one of them.
UnusedIds == RowId \ ({r.id : r \in Range(dlq) \cup Range(sweep.todo)}
                        \cup {worker[w].row : w \in Worker} \cup {request.row})

Park(w) ==
  LET e == worker[w].event IN
  /\ worker[w].pc = "park"
  /\ lock[e] = Free
  /\ \/ worker[w].row # NoRow /\ dlq' = Touched(worker[w].row)
     \/ /\ worker[w].row = NoRow
        /\ UnusedIds # {}
        /\ LET id == CHOOSE i \in UnusedIds : \A j \in UnusedIds : i <= j
           IN dlq' = <<[id |-> id, event |-> e, ripe |-> FALSE]>> \o dlq
  /\ outbox' = [outbox EXCEPT ![e].status = "dead_letter"]
  /\ Finish(w)
  /\ UNCHANGED <<sent, lock, polled, sweep, request>>

\* A statement of markForRetry fails: processDispatchJob rejects.
RetryFails(w) ==
  /\ worker[w].pc \in {"retry", "requeue", "bury", "park"}
  /\ Finish(w)
  /\ UNCHANGED <<outbox, sent, lock, polled, dlq, sweep, request>>

-----------------------------------------------------------------------------
(* Crashes and BullMQ.                                                     *)

\* The server ends the transaction; an UPDATE that was waiting for its row
\* lock may still be executed before the server notices its client is gone.
Crash(w) ==
  LET e == worker[w].event IN
  /\ worker[w].pc # "idle"
  /\ worker' = [worker EXCEPT ![w] = Idle]
  /\ lock' = Unlocked(w)
  /\ \/ UNCHANGED outbox
     \/ /\ worker[w].pc = "claim" /\ outbox[e].status = "pending"
        /\ outbox' = [outbox EXCEPT ![e].status = "processing"]
  /\ UNCHANGED <<sent, polled, job, dlq, sweep, request>>

\* A job nobody renews is queued again, or failed if it stalled before.
JobStalled(e) ==
  /\ job[e] = "active"
  /\ \A w \in Worker : worker[w].event # e
  /\ \E state \in {"waiting", "retained"} : job' = [job EXCEPT ![e] = state]
  /\ UNCHANGED <<outbox, sent, lock, polled, worker, dlq, sweep, request>>

\* removeOnComplete and removeOnFail keep only the newest finished jobs.
Trim(e) ==
  /\ job[e] = "retained"
  /\ job' = [job EXCEPT ![e] = "none"]
  /\ UNCHANGED <<outbox, sent, lock, polled, worker, dlq, sweep, request>>

-----------------------------------------------------------------------------
(* The redrive sweep and the administrator.                                *)

\* getDeadLetterEvents: the SweepBatch rows touched last.
SweepStart ==
  /\ sweep.todo = <<>>
  /\ dlq # <<>>
  /\ sweep' = [todo |-> IF Len(dlq) <= SweepBatch THEN dlq ELSE SubSeq(dlq, 1, SweepBatch),
               act |-> "inspect"]
  /\ UNCHANGED <<outbox, sent, lock, polled, job, worker, dlq, request>>

Present(row) == row.id \in {r.id : r \in Range(dlq)}

\* BUG: a row whose event is not waiting any more is taken for delivered.
Verdict_ReleaseParked(row) ==
  IF ~ Present(row) THEN "skip"
  ELSE IF outbox[row.event].status \in {"pending", "processing"} THEN "skip"
  ELSE "release"

\* What the sweep decides for a row, from the status it reads and from the
\* last_attempt it read when it started.
Verdict(row) ==
  LET status == IF Present(row) THEN outbox[row.event].status ELSE "none" IN
  CASE status = "delivered"                -> "release"
    [] status \in {"pending", "processing"} -> "skip"
    [] OTHER                               -> IF row.ripe THEN "redrive" ELSE "skip"

SweepNext == sweep' = [todo |-> Tail(sweep.todo), act |-> "inspect"]

SweepInspect ==
  /\ sweep.todo # <<>>
  /\ sweep.act = "inspect"
  /\ LET verdict == Verdict(Head(sweep.todo)) IN
       \/ verdict = "skip" /\ SweepNext
       \/ verdict # "skip" /\ sweep' = [sweep EXCEPT !.act = verdict]
  /\ UNCHANGED <<outbox, sent, lock, polled, job, worker, dlq, request>>

\* releaseDeadLetter; the event may have moved on since its status was read.
SweepRelease ==
  /\ sweep.act = "release"
  /\ dlq' = Selected(dlq, {r \in Range(dlq) : r.id # Head(sweep.todo).id})
  /\ SweepNext
  /\ UNCHANGED <<outbox, sent, lock, polled, job, worker, request>>

\* The transaction of redriveDeadLetter: the event goes back to pending
\* whatever its status is, and a row that is gone is not touched.
Redrive(event, id) ==
  /\ lock[event] = Free
  /\ outbox' = [outbox EXCEPT ![event] = Fresh]
  /\ dlq' = Touched(id)

\* Only the sweep deletes rows, so its own does not go before it is redriven.
SweepRedrive ==
  /\ sweep.act = "redrive"
  /\ IF Present(Head(sweep.todo))
     THEN Redrive(Head(sweep.todo).event, Head(sweep.todo).id)
     ELSE UNCHANGED <<outbox, dlq>>
  /\ SweepNext
  /\ UNCHANGED <<sent, lock, polled, job, worker, request>>

\* redriveDeadLetter and retryEvent check what they read and write later.
AdminReads ==
  /\ request = NoRequest
  /\ \/ \E r \in Range(dlq) : request' = [event |-> r.event, row |-> r.id]
     \/ \E e \in Event : /\ outbox[e].status = "dead_letter"
                         /\ request' = [event |-> e, row |-> NoRow]
  /\ UNCHANGED <<outbox, sent, lock, polled, job, worker, dlq, sweep>>

AdminWrites ==
  /\ request # NoRequest
  /\ Redrive(request.event, request.row)
  /\ request' = NoRequest
  /\ UNCHANGED <<sent, lock, polled, job, worker, sweep>>

-----------------------------------------------------------------------------
(* Time.                                                                   *)

BackoffElapses(e) ==
  /\ outbox[e].status # "absent" /\ ~ outbox[e].due
  /\ outbox' = [outbox EXCEPT ![e].due = TRUE]
  /\ UNCHANGED <<sent, lock, polled, job, worker, dlq, sweep, request>>

RowRipens(i) ==
  /\ i \in 1 .. Len(dlq) /\ ~ dlq[i].ripe
  /\ dlq' = [dlq EXCEPT ![i].ripe = TRUE]
  /\ UNCHANGED <<outbox, sent, lock, polled, job, worker, sweep, request>>

\* The delay since the last_attempt the sweep read may pass while it runs.
SnapshotRipens ==
  /\ sweep.todo # <<>> /\ ~ Head(sweep.todo).ripe
  /\ sweep' = [sweep EXCEPT !.todo[1].ripe = TRUE]
  /\ UNCHANGED <<outbox, sent, lock, polled, job, worker, dlq, request>>

-----------------------------------------------------------------------------
Slot(w) ==
  \/ (\E e \in Event : Take(w, e)) \/ LockRow(w) \/ Connect(w) \/ MarkProcessing(w)
  \/ Dispatch(w) \/ MarkDelivered(w) \/ Commit(w)
  \/ ReadRetries(w) \/ Requeue(w) \/ FindRow(w) \/ Park(w)

Fault(w) ==
  \/ "handler" \in Env /\ DispatchFails(w)
  \/ "pool" \in Env /\ AcquireTimesOut(w)
  \/ "connection" \in Env /\ ConnectionLost(w)
  \/ "statement" \in Env /\ RetryFails(w)
  \/ "crash" \in Env /\ Crash(w)

Sweeper == SweepStart \/ SweepInspect \/ SweepRelease \/ SweepRedrive

Admin == AdminReads \/ AdminWrites

Elapse == \/ \E e \in Event : BackoffElapses(e)
          \/ \E i \in 1 .. Len(dlq) : RowRipens(i)
          \/ SnapshotRipens

Next ==
  \/ \E e \in Event : Publish(e) \/ JobStalled(e) \/ Trim(e)
  \/ Poll \/ Enqueue \/ ("broker" \in Env /\ EnqueueFails)
  \/ \E w \in Worker : Slot(w) \/ Fault(w)
  \/ Sweeper \/ ("admin" \in Env /\ Admin) \/ Elapse

Spec == Init /\ [][Next]_vars

\* Timers keep firing and every statement that can run is run; nothing is
\* assumed of faults or of the administrator.
Fairness ==
  /\ WF_vars(Poll) /\ WF_vars(Enqueue)
  /\ \A w \in Worker : WF_vars(Slot(w))
  /\ \A e \in Event : WF_vars(JobStalled(e)) /\ WF_vars(Trim(e)) /\ WF_vars(BackoffElapses(e))
  /\ WF_vars(Sweeper)
  /\ \A i \in 1 .. NumEvents : WF_vars(RowRipens(i))

FairSpec == Spec /\ Fairness

-----------------------------------------------------------------------------
(* Properties.                                                             *)

\* The stored rows are well formed; markForRetry keeps retry_count below
\* maxRetries, and only a slot inside the transaction holds a row lock.
TypeOK ==
  /\ outbox \in [Event -> [status : Status, retries : 0 .. MaxRetries - 1, due : BOOLEAN]]
  /\ sent \in [Event -> BOOLEAN]
  /\ lock \in [Event -> Worker \cup {Free}]
  /\ polled \subseteq Event
  /\ job \in [Event -> Job]
  /\ worker \in [Worker -> [pc : Pc, event : Event \cup {NoRow}, cut : BOOLEAN,
                            retries : 0 .. MaxRetries, row : RowId \cup {NoRow}]]
  /\ dlq \in Seq(DlqRow)
  /\ sweep \in [todo : Seq(DlqRow), act : {"inspect", "release", "redrive"}]
  /\ request \in {NoRequest} \cup [event : Event, row : RowId \cup {NoRow}]
  /\ \A e \in Event : lock[e] # Free =>
        worker[lock[e]].event = e /\ worker[lock[e]].pc \in {"connect", "claim"}

\* moveToDeadLetter: the DLQ row "is kept unique per outbox event".  No unique
\* index says so; it rests on one slot at a time working on an event, that is
\* on BullMQ's job id, through crashes, stalls, redrives and retries.
OneRowPerEvent == \A e \in Event : Cardinality(RowsOf(e)) <= 1

\* No published event is lost: one that never reached its handler is still
\* pending or processing, or waits in the DLQ with a row the sweep can find.
\* In particular no event is marked delivered, and no DLQ row released,
\* before the handler was called.
NothingLost ==
  \A e \in Event :
    \/ outbox[e].status \in {"absent", "pending", "processing"}
    \/ sent[e]
    \/ outbox[e].status = "dead_letter" /\ RowsOf(e) # {}

\* 022_outbox_events.ts:42, "'dead_letter' = parked in DLQ awaiting redrive":
\* a dead-lettered event has a row for the sweep to find.
DeadLetterHasRow ==
  \A e \in Event : outbox[e].status = "dead_letter" => RowsOf(e) # {}

Settled(e) == outbox[e].status \in {"delivered", "dead_letter"}

\* OUTBOX_IMPLEMENTATION.md:5, "guaranteed event delivery": a published event
\* is in the end delivered or parked in the DLQ.
PublishedSettles == \A e \in Event : (outbox[e].status = "pending") ~> Settled(e)

\* outboxDlqRedrive.job.ts:39-46, "for each dead-lettered event ... the event
\* is re-enqueued": an event parked in the DLQ does not stay there for ever.
ParkedIsRedriven ==
  \A e \in Event : (outbox[e].status = "dead_letter") ~> (outbox[e].status # "dead_letter")
=============================================================================
