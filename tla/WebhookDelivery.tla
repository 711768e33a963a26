--------------------------- MODULE WebhookDelivery ---------------------------
(***************************************************************************)
(* Webhook deliveries to one endpoint: backend/src/services/webhook        *)
(* .service.ts, webhookBatchBuffer.service.ts and workers/webhookDelivery  *)
(* .worker.ts.  Rows are in the database, jobs in BullMQ, the batch window *)
(* and the authentication failures in the memory of one process.  The      *)
(* rate limit only refuses calls, and "retrying" and half_open are never   *)
(* entered: BullMQ's Queue has no such events, nothing sets half_open.     *)
(***************************************************************************)
EXTENDS Integers, FiniteSets

CONSTANTS
  Delivery,            \* rows of webhook_deliveries
  DeliveryAttempts,    \* MAX_RETRY_ATTEMPTS
  FailureThreshold,    \* CONSECUTIVE_FAILURE_THRESHOLD
  SignatureThreshold   \* SIGNATURE_FAILURE_THRESHOLD

ASSUME WebhookAssumption ==
  {DeliveryAttempts, FailureThreshold, SignatureThreshold} \subseteq Nat \ {0}

VARIABLES
  delivery,      \* status of each row
  task,          \* its job: attempts made, and where the attempt under way is
  seen,          \* what a recordFailure under way read, and whether a pause follows
  endpoint,      \* row of webhook_endpoints
  authFailures,  \* signatureFailureMap
  window,        \* deliveries in the open batch window
  answered,      \* history: deliveries the endpoint answered with 2xx
  handed         \* history: deliveries whose batch was queued

webhookVars == <<delivery, task, seen, endpoint, authFailures, window, answered, handed>>

DeliveryStatus == {"absent", "pending", "buffered", "success", "failed"}

Counting == {"count2", "count1", "count"}

Attempting == {"send", "commit", "reset", "auth2", "auth1", "count2", "count1"}

Stage == {"none", "waiting", "bury", "fold", "count", "done"} \cup Attempting

Blank == [open |-> FALSE, failures |-> 0, pause |-> FALSE]

WebhookInit ==
  /\ delivery = [d \in Delivery |-> "absent"]
  /\ task = [d \in Delivery |-> [made |-> 0, stage |-> "none"]]
  /\ seen = [d \in Delivery |-> Blank]
  /\ endpoint = [active |-> TRUE, open |-> FALSE, failures |-> 0, batching |-> FALSE]
  /\ authFailures = 0 /\ window = {} /\ answered = {} /\ handed = {}

ToStage(d, s) == task' = [task EXCEPT ![d].stage = s]

Marked(S, s) == [d \in Delivery |-> IF d \in S THEN s ELSE delivery[d]]

\* Into the window, or a row and then its job, which a crash may lose.
QueueDelivery(d) ==
  /\ delivery[d] = "absent"
  /\ IF endpoint.batching
     THEN /\ delivery' = Marked({d}, "buffered") /\ window' = window \cup {d}
          /\ UNCHANGED task
     ELSE /\ delivery' = Marked({d}, "pending") /\ UNCHANGED window
          /\ ToStage(d, "waiting") \/ UNCHANGED task
  /\ UNCHANGED <<seen, endpoint, authFailures, answered, handed>>

\* The window closes: row b and its job for the batch, if batching is still
\* on, then one status for the members.  What throws on the way makes them
\* "failed", a batch that was queued included; a crash leaves them "buffered".
FlushWindow(b) ==
  /\ window # {} /\ window' = {} /\ delivery[b] = "absent"
  /\ \E queued \in BOOLEAN, s \in {"success", "failed", "buffered"} :
       /\ (queued => endpoint.batching) /\ (s = "success" => queued)
       /\ \E new \in IF queued THEN {"pending"} ELSE IF endpoint.batching THEN {"absent", "pending"}
                                                                          ELSE {"absent"} :
            delivery' = [Marked(window, s) EXCEPT ![b] = new]
       /\ IF queued THEN ToStage(b, "waiting") /\ handed' = handed \cup window
                    ELSE UNCHANGED <<task, handed>>
  /\ UNCHANGED <<seen, endpoint, authFailures, answered>>

\* BUG: one attempt too many.
Fails_OffByOne(d) ==
  task' = [task EXCEPT ![d] = [made |-> @.made + 1,
                               stage |-> IF @.made < DeliveryAttempts THEN "waiting" ELSE "bury"]]

\* The attempt throws: BullMQ counts it, and retries or emits "failed".
Fails(d) ==
  task' = [task EXCEPT ![d] = [made |-> @.made + 1,
                               stage |-> IF @.made + 1 < DeliveryAttempts THEN "waiting" ELSE "bury"]]

\* An attempt on a suspended endpoint is spent.
BeginAttempt(d) ==
  /\ task[d].stage = "waiting"
  /\ IF endpoint.active /\ ~ endpoint.open THEN ToStage(d, "send") ELSE Fails(d)
  /\ UNCHANGED <<delivery, seen, endpoint, authFailures, window, answered, handed>>

Response == {"ok", "auth", "error"}  \* 2xx, 401 or 403, anything else and no answer

\* BUG: an answer is an answer.
ResponseOk_AnyAnswer(r) == r # "error"

ResponseOk(r) == r = "ok"

\* The answer is logged first; that may throw.
SendAttempt(d) ==
  /\ task[d].stage = "send"
  /\ \E r \in Response :
       /\ answered' = answered \cup IF r = "ok" THEN {d} ELSE {}
       /\ \/ ResponseOk(r) /\ ToStage(d, "commit")
          \/ ~ ResponseOk(r) /\ r = "auth" /\ ToStage(d, "auth2")
          \/ Fails(d)
  /\ UNCHANGED <<delivery, seen, endpoint, authFailures, window, handed>>

\* updateDeliveryStatusFromResponse; if it throws, the endpoint is called again.
CommitAttempt(d) ==
  /\ task[d].stage = "commit"
  /\ \/ delivery' = Marked({d}, "success") /\ ToStage(d, "reset")
     \/ Fails(d) /\ UNCHANGED delivery
  /\ UNCHANGED <<seen, endpoint, authFailures, window, answered, handed>>

RecordSuccess(d) ==
  /\ task[d].stage = "reset" /\ ToStage(d, "done")
  /\ authFailures' = 0 /\ endpoint' \in {endpoint, [endpoint EXCEPT !.failures = 0]}
  /\ UNCHANGED <<delivery, seen, window, answered, handed>>

Reads(d, pause) ==
  seen' = [seen EXCEPT ![d] = [open |-> endpoint.open, failures |-> endpoint.failures, pause |-> pause]]

\* recordSignatureFailure up to the read of recordFailure: once from
\* processDelivery and once more from the worker that catches its error.
RecordSignatureFailure(d) ==
  LET next == IF authFailures < SignatureThreshold THEN authFailures + 1 ELSE authFailures IN
  /\ task[d].stage \in {"auth2", "auth1"}
  /\ authFailures' = next /\ Reads(d, next = SignatureThreshold)
  /\ ToStage(d, IF task[d].stage = "auth2" THEN "count2" ELSE "count1")
  /\ UNCHANGED <<delivery, endpoint, window, answered, handed>>

\* recordFailure's write of the count it read, tripCircuitBreaker at the
\* threshold, then pauseDeliveryForAuthFailure.
CountFailure(d) ==
  LET count == seen[d].failures + 1
      trips == ~ seen[d].open /\ count >= FailureThreshold IN
  /\ task[d].stage \in Counting
  /\ endpoint' = [endpoint EXCEPT
       !.failures = IF seen[d].open THEN @ ELSE count,
       !.open = @ \/ trips,
       !.active = @ /\ ~ trips /\ ~ seen[d].pause]
  /\ seen' = [seen EXCEPT ![d] = Blank]
  /\ CASE task[d].stage = "count2" -> ToStage(d, "auth1")
       [] task[d].stage = "count1" -> Fails(d)
       [] OTHER -> ToStage(d, "done")
  /\ UNCHANGED <<delivery, authFailures, window, answered, handed>>

\* The worker's "failed" handler; an error of the update is logged.
BuryDelivery(d) ==
  \/ /\ task[d].stage = "bury" /\ ToStage(d, "fold")
     /\ delivery' \in {delivery, Marked({d}, "failed")}
     /\ UNCHANGED <<seen, endpoint, authFailures, window, answered, handed>>
  \/ /\ task[d].stage = "fold" /\ ToStage(d, "count") /\ Reads(d, FALSE)
     /\ UNCHANGED <<delivery, endpoint, authFailures, window, answered, handed>>

\* The process dies.  BullMQ finds its jobs stalled: another attempt, not
\* counted, or the end of the job, told to no row.
WebhookCrash ==
  /\ \E revived \in SUBSET Delivery :
       task' = [d \in Delivery |-> [task[d] EXCEPT !.stage =
         IF @ \in Attempting THEN (IF d \in revived THEN "waiting" ELSE "done")
         ELSE IF @ \in {"bury", "fold", "count"} THEN "done" ELSE @]]
  /\ seen' = [d \in Delivery |-> Blank] /\ authFailures' = 0 /\ window' = {}
  /\ UNCHANGED <<delivery, endpoint, answered, handed>>

\* The owner may switch an endpoint on while its breaker is open.
UpdateEndpoint ==
  /\ \E active, batching \in BOOLEAN :
       endpoint' = [endpoint EXCEPT !.active = active, !.batching = batching]
  /\ UNCHANGED <<delivery, task, seen, authFailures, window, answered, handed>>

ResetCircuitBreaker ==
  /\ endpoint.open \/ endpoint.failures # 0
  /\ endpoint' = [endpoint EXCEPT !.failures = 0, !.open = FALSE, !.active = TRUE]
  /\ UNCHANGED <<delivery, task, seen, authFailures, window, answered, handed>>

WebhookNext ==
  \/ \E d \in Delivery : \/ QueueDelivery(d) \/ FlushWindow(d) \/ BeginAttempt(d) \/ SendAttempt(d)
                         \/ CommitAttempt(d) \/ RecordSuccess(d) \/ RecordSignatureFailure(d)
                         \/ CountFailure(d) \/ BuryDelivery(d)
  \/ WebhookCrash \/ UpdateEndpoint \/ ResetCircuitBreaker

WebhookSpec == WebhookInit /\ [][WebhookNext]_webhookVars

-----------------------------------------------------------------------------
(* Properties.                                                             *)

WebhookTypeOK ==
  /\ delivery \in [Delivery -> DeliveryStatus]
  /\ task \in [Delivery -> [made : 0 .. DeliveryAttempts, stage : Stage]]
  /\ seen \in [Delivery -> [open : BOOLEAN, failures : Nat, pause : BOOLEAN]]
  /\ endpoint \in [active : BOOLEAN, open : BOOLEAN, failures : 0 .. FailureThreshold,
                   batching : BOOLEAN]
  /\ authFailures \in 0 .. SignatureThreshold
  /\ window \subseteq Delivery /\ answered \subseteq Delivery /\ handed \subseteq Delivery

\* Whatever throws, crashes or is retried (updateDeliveryStatusFromResponse,
\* the worker's "failed" handler): a delivery is a success only if the endpoint
\* answered it with 2xx or its batch was queued, and one that is failed is not
\* being attempted and never will be again.
StatusIsEarned ==
  \A d \in Delivery :
    /\ delivery[d] = "success" => d \in answered \cup handed
    /\ delivery[d] = "failed" => task[d].stage \notin Attempting \cup {"waiting"}
=============================================================================
