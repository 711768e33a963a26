--------------------------- MODULE IngestionQueue ---------------------------
(***************************************************************************)
(* The ingestion queue, backend/src/services/ingestionQueueManager         *)
(* .service.ts: jobs picked, run, failed into a dead-letter table and      *)
(* requeued, and the reaper that turns an evicted lease of WorkerLease     *)
(* back into a job.                                                        *)
(*                                                                         *)
(* Statements on the two tables are separate transactions and any number   *)
(* of managers run.  Priority, backoff and the age of a row only choose    *)
(* which runnable row a poll or sweep takes first: it may be any of them.  *)
(***************************************************************************)
EXTENDS WorkerLease

CONSTANTS
  Job,          \* ids, drawn at random by enqueueJob
  JobOf,        \* metadata.jobId of a lease's metadata, None where it names none
  Ranged,       \* metadata that names a ledger range
  MaxAttempts,  \* max_attempts
  Call          \* bound: handleJob and requeueDeadLetter calls at a time

ASSUME QueueAssumption ==
  /\ None \notin Job /\ JobOf \in [Work -> Job \cup {None}] /\ Ranged \subseteq Work
  /\ MaxAttempts \in Nat \ {0}

VARIABLES
  job,     \* ingestion_jobs: status, "absent" where there is no row, and attempts
  dead,    \* ids in dead_letter_jobs
  call,    \* calls under way: id, attempts of the row they read, what comes next
  reaped,  \* metadata of a lease evicted but not requeued yet, None if there is none
  drawn    \* history: ids drawn

queueVars == <<job, dead, call, reaped, drawn>>

JobStatus == {"absent", "pending", "processing", "completed", "failed"}

Idle == [id |-> None, attempts |-> 0, next |-> "idle"]

Fresh == [status |-> "pending", attempts |-> 0]

QueueInit ==
  /\ job = [j \in Job |-> [Fresh EXCEPT !.status = "absent"]]
  /\ dead = {} /\ call = [c \in Call |-> Idle] /\ reaped = None /\ drawn = {}

Present(j) == job[j].status # "absent"

\* UPDATE ... WHERE id = j: nothing when the row is gone.
Update(j, new) == job' = IF Present(j) THEN [job EXCEPT ![j] = new] ELSE job

Goes(c, next) == call' = [call EXCEPT ![c] = IF next = "idle" THEN Idle ELSE [@ EXCEPT !.next = next]]

Enqueue(j) == j \notin drawn /\ drawn' = drawn \cup {j} /\ job' = [job EXCEPT ![j] = Fresh]

EnqueueJob(j) == Enqueue(j) /\ UNCHANGED <<dead, call, reaped>>

Runnable(j) == \/ job[j].status = "pending"
               \/ job[j].status = "failed" /\ job[j].attempts < MaxAttempts

\* processPendingJobs hands a row to handleJob without claiming it: the next
\* poll, or another manager, may take it as well.
Pick(c, j) ==
  /\ call[c] = Idle /\ Runnable(j)
  /\ call' = [call EXCEPT ![c] = [id |-> j, attempts |-> job[j].attempts, next |-> "start"]]
  /\ UNCHANGED <<job, dead, reaped, drawn>>

StartJob(c) ==
  /\ call[c].next = "start"
  /\ Update(call[c].id, [job[call[c].id] EXCEPT !.status = "processing"])
  /\ Goes(c, "finish")
  /\ UNCHANGED <<dead, reaped, drawn>>

FinishJob(c) ==
  /\ call[c].next = "finish"
  /\ Update(call[c].id, [job[call[c].id] EXCEPT !.status = "completed"])
  /\ Goes(c, "idle")
  /\ UNCHANGED <<dead, reaped, drawn>>

\* The attempts are counted from the row that was picked; a job swept after
\* its last attempt goes on counting, which no comparison can tell from MaxAttempts.
FailJob(c) ==
  LET attempts == IF call[c].attempts < MaxAttempts THEN call[c].attempts + 1 ELSE MaxAttempts IN
  /\ call[c].next \in {"start", "finish"}
  /\ Update(call[c].id, [status |-> "failed", attempts |-> attempts])
  /\ Goes(c, IF attempts = MaxAttempts THEN "bury" ELSE "idle")
  /\ UNCHANGED <<dead, reaped, drawn>>

\* BUG: the job leaves the queue before it is in the dead-letter table.
MoveToDeadLetter_DeleteFirst(c) ==
  \/ /\ call[c].next = "bury"
     /\ job' = [job EXCEPT ![call[c].id].status = "absent"]
     /\ Goes(c, "remove")
     /\ UNCHANGED <<dead, reaped, drawn>>
  \/ /\ call[c].next = "remove"
     /\ dead' = dead \cup {call[c].id}
     /\ Goes(c, "idle")
     /\ UNCHANGED <<job, reaped, drawn>>

\* Two statements; the insert throws on an id already in the table.
MoveToDeadLetter(c) ==
  \/ /\ call[c].next = "bury"
     /\ dead' = dead \cup {call[c].id}
     /\ Goes(c, IF call[c].id \in dead THEN "idle" ELSE "remove")
     /\ UNCHANGED <<job, reaped, drawn>>
  \/ /\ call[c].next = "remove"
     /\ job' = [job EXCEPT ![call[c].id].status = "absent"]
     /\ Goes(c, "idle")
     /\ UNCHANGED <<dead, reaped, drawn>>

\* Read, insert, which throws on an id still in the queue, delete.
RequeueDeadLetter(c) ==
  \/ /\ call[c] = Idle
     /\ \E j \in dead : call' = [call EXCEPT ![c] = [id |-> j, attempts |-> 0, next |-> "insert"]]
     /\ UNCHANGED <<job, dead, reaped, drawn>>
  \/ /\ call[c].next = "insert"
     /\ job' = IF Present(call[c].id) THEN job ELSE [job EXCEPT ![call[c].id] = Fresh]
     /\ Goes(c, IF Present(call[c].id) THEN "idle" ELSE "clear")
     /\ UNCHANGED <<dead, reaped, drawn>>
  \/ /\ call[c].next = "clear"
     /\ dead' = dead \ {call[c].id}
     /\ Goes(c, "idle")
     /\ UNCHANGED <<job, reaped, drawn>>

\* The process of a call dies, or a statement of it throws.
CallDies(c) == call[c] # Idle /\ Goes(c, "idle") /\ UNCHANGED <<job, dead, reaped, drawn>>

\* First half of reapZombieLeases.
ReapLease ==
  /\ EvictZombie
  /\ reaped = None /\ reaped' = IF IsZombieLease THEN zombie.meta ELSE None
  /\ UNCHANGED <<job, dead, call, drawn>>

Unfinished(j) == job[j].status \in {"processing", "failed"}

\* Second half: the job the lease names, otherwise its range as a new job;
\* a lease that names neither or whose requeue throws is only logged.
RequeueReaped ==
  LET named == {j \in Job : j = JobOf[reaped] /\ Unfinished(j)} IN
  /\ reaped # None /\ reaped' = None
  /\ \/ \E j \in named : job' = [job EXCEPT ![j].status = "pending"] /\ UNCHANGED drawn
     \/ named = {} /\ reaped \in Ranged /\ \E fresh \in Job : Enqueue(fresh)
     \/ UNCHANGED <<job, drawn>>
  /\ UNCHANGED <<dead, call>>

\* Rows in processing for long go back, those of a slow manager included.
SweepStuck(S) ==
  /\ S # {} /\ \A j \in S : job[j].status = "processing"
  /\ job' = [j \in Job |-> IF j \in S THEN [job[j] EXCEPT !.status = "pending"] ELSE job[j]]
  /\ UNCHANGED <<dead, call, reaped, drawn>>

QueueStep ==
  \/ \E j \in Job : EnqueueJob(j)
  \/ \E c \in Call : \/ \E j \in Job : Pick(c, j)
                     \/ StartJob(c) \/ FinishJob(c) \/ FailJob(c) \/ MoveToDeadLetter(c)
                     \/ RequeueDeadLetter(c) \/ CallDies(c)
  \/ RequeueReaped
  \/ \E S \in SUBSET Job : SweepStuck(S)

QueueNext == \/ WorkerStep /\ UNCHANGED queueVars
             \/ QueueStep /\ UNCHANGED leaseVars
             \/ ReapLease

QueueSpec == LeaseInit /\ QueueInit /\ [][QueueNext]_<<leaseVars, queueVars>>

-----------------------------------------------------------------------------
(* Properties.                                                             *)

QueueTypeOK ==
  /\ LeaseTypeOK
  /\ job \in [Job -> [status : JobStatus, attempts : Nat]]
  /\ dead \subseteq Job /\ drawn \subseteq Job /\ reaped \in Work \cup {None}
  /\ call \in [Call -> [id : Job \cup {None}, attempts : Nat,
                        next : {"idle", "start", "finish", "bury", "remove", "insert", "clear"}]]

\* Picked twice, crashed between the two statements of a move, revived while
\* it is being buried, swept or reaped while it runs: a job drawn is a row of
\* the queue or of the dead-letter table.
NoJobLost == \A j \in drawn : Present(j) \/ j \in dead
=============================================================================
