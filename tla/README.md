# Bridge-Watch in TLA+

A verification development for Bridge-Watch: the Soroban contracts under
`contracts/`, and the TypeScript backend under `backend/` that watches bridges
and delivers alerts. It holds TLA+ modules translated from the source, TLC
configurations that check them on small instances, and proofs for TLAPS.
`PROJECT.json` lists every run, property, mutant, theorem, hazard and the source
lines each definition stands for.

## The system

| Component | State it keeps | Operations | Hard behaviour | Correct when |
|---|---|---|---|---|
| Transfer state machine (`contracts/transfer_state_machine`) | one record and one bounded log per transfer, role addresses, timeouts | initiate, advance, verdicts, auto progress, timeout, rollback, override | twelve states, five entry points, several signers in any order, deadlines, roles rewired mid-flight | funds are released on evidence only, finals stay final, nobody waits for ever, the log tells the truth |
| Outbox (`backend/src/outbox`, `jobs/outboxDlqRedrive.job.ts`) | `outbox_events`, `dead_letter_events`, BullMQ jobs | publish, poll, dispatch, retry, dead-letter, redrive, admin retry | slots, sweep and administrators race on the same rows; crashes, lost connections, pool exhaustion | no event lost, one DLQ row per event, every event delivered or parked, parked events retried |
| Cross-chain relay (`contracts/soroban/src/relay`) | messages, priority queue, nonces, operators, counters | send, verify, relay, batch, clean up | expiry against relay, partial batches | a delivered message is never expired or relayed twice |
| Outbox publishing (`outbox/eventProducer`, migration 022) | sequence rows, uncommitted events | publish, publishBatch | concurrent transactions, deadlocks, rollbacks | the events of an aggregate appear in the order of their numbers, without gaps |
| Worker leases (`services/workerLease`) | one row per key with a fencing token | acquire, renew, release, evict | expiry while the holder runs on | a write under an old token is refused |
| Ingestion queue (`services/ingestionQueueManager`) | jobs, dead letters | enqueue, poll, handle, bury, requeue, reap | unclaimed rows, two-statement moves, crashes | no job drawn is lost |
| Alert effect guard (`services/alertEffectGuard`) | effect rows | claim, send, report, reclaim | takeover of a claim while the first worker sends | one outcome per effect, reported by one who sent |
| Distributed lock (`services/distributedLock`) | a Redis key with a TTL | acquire, extend, release, withLock | expiry inside the critical section, late release | mutual exclusion within the TTL |
| Drain protocol (`services/drainProtocol`, its middleware) | state, in-flight count, timers | start, complete, cancel, force | sessions that overlap at awaits, forgotten timers | a node whose workers have stopped stops draining |
| Webhooks (`services/webhook`, batch buffer, worker) | deliveries, jobs, endpoint rows, an in-memory window | queue, flush, attempt, count failures, bury | crash between answer and status, retries, breaker | a status is earned |
| Administrator rotation, change approval | accounts, proposals, change requests | propose, approve, execute, reject; draft, submit, approve, apply | read, check and unguarded write | a quorum of addresses, four eyes |
| Escrow contract | escrows, disputes, fees | create, challenge, resolve, release, refund, recover | partial releases, disputes, verification reports | a deposit pays once, a quorum decides disputes |
| Multisig treasury, emergency multisig | transactions, signers; pause state, nonce, log | propose, sign, execute; pause, unpause | signer sets and keys that change, old signatures | quorum and timelock |
| Governance | power, delegations, proposals | vote, finalize, queue, execute | delegation chains, changing rules | power is conserved, votes decide |
| Insurance pool | stakes, withdrawals, claims, payout queue | stake, withdraw, claim, pay | tranches, epochs, slashes | books agree, caps hold |
| Circuit breaker, reserve verifier contracts | pauses and cooldowns; commitments, stakes | pause, approve, recover; commit, challenge, slash | two ways of recovery; disputes | staged recovery; challenges are final |
| Liquidity, fees, escalation, chain ingestion, migration, rate limits | balances, timers, cursors | | | not modelled |
| API, analytics, frontend, SDK, infrastructure | caches, views | read | none of a protocol | not modelled |

Interaction: services write domain rows and outbox events in one transaction;
the dispatcher hands events to webhook, alert, Discord and digest services
through BullMQ; singleton jobs run under the distributed lock; the contracts are
driven by signed invocations and, where the code allows it, by anybody.

## Modules

- `TransferSettlement`: the abstract promise. Each transfer has an outcome
  (open, cleared, settled, stalled, unwinding, failed, refunded) and grounds
  (escrowed, verified, attested, waived). It clears only on sufficient grounds,
  settles only once cleared, and a final outcome is never taken back.
- `TransferStateMachine`: the contract. One action per entry point, named after
  it. A call that panics is reverted by the host, so its checks are guards. The
  private tables (`transition_allowed`, `admin_override_allowed`,
  `assert_advance_auth`) are operators; `apply_transition` is `Moved`,
  `LogEntry`, `Room` and `ApplyTransition`; `rollback_transfer` applies it twice
  in one step, as the code does. Timestamps are kept as the seconds left until
  `state_deadline` (`left`, -1 once passed), which is all the contract compares,
  and `Tick` is the ledger clock. The mode `Insured` has the edges of
  `Standard` and is not kept apart. Asset, amount, destination and bridge type
  are stored and never read.
- `TransferProofs`: theorems about it, the implementation of `TransferSettlement` among them.
- `OutboxDispatch`: one event's way from `pending` to `delivered` or the dead
  letter queue. One action is one SQL statement or one call that leaves the
  process, because every hazard of this component lies between two of them.
  `worker[w].pc` is the place of a slot in `processDispatchJob`; `lock` is the
  row lock of its transaction, which `markProcessing`, `markDelivered`,
  `markForRetry` and `moveToDeadLetter` wait for because they run on other
  connections of the pool; `job` is what BullMQ remembers of the job id
  `outbox-<id>`; `dlq` is ordered by `last_attempt` as the sweep's query orders
  it; `sweep` and `request` hold what the sweep and an administrator have read
  and not yet acted on. Backoff times are reduced to "due or not" and "ripe or
  not". Faults are the constant `Env`, so that a run names what it allows.
- `CrossChainRelay`: the relay contract. An invocation that returns `Err` is
  reverted, so `verify_message` and `relay_message` never leave the `Expired`
  they write on their error path; `batch_relay` returns `Ok` and does. A batch is
  the set of its messages and the subset with a valid signature: the order of
  the items and repetitions change nothing. The clean-up's scan is the operator
  `Reached`. `relayed` is the log of `message_relayed` events, against which the
  counters and statuses are compared. A state proof is valid exactly when its
  source chain is enabled and its signer is an active operator; fees, payloads
  and destinations are checked on the way in and never read again.
- `MCTransfer`, `MCOutbox`, `MCCrossing`: instances for TLC. A behaviour of `MCOutbox`
  takes one of two courses, `calm` or with faults; the calm one is the same module
  with one slot, one attempt and no fault but an exhausted pool. A behaviour of
  `MCCrossing` exercises the relay or the transfers.

The contracts under `contracts/soroban` share the host, `SorobanHost` (accounts
and the ledger clock `CloseLedger`), and nothing else. Each has a module with one
action per entry point; accounts keep their identity only where the contract
compares them.

- `EscrowContract`: a deposit with its status and dispute. `paid` adds up the
  events of release, refund and recovery, against which the books are held.
- `MultisigTreasury`: signing is `Signed`, which `propose_transaction` calls for
  its creator; `execute_transaction` and `cancel_transaction` are
  `CloseTransaction`, and both want a Pending transaction.
- `EmergencyControl`: the single-key pause of `lib.rs` with its timelock beside
  the operators' multisig. `signature` is every signature ever made off chain;
  a call presents any subset of it.
- `Governance`: `received` is the stored delegated power, which `PowerConserved`
  compares with the delegations; `shifted` notes that power was registered anew
  while delegated, the one case in which the books are known to part.
- `InsurancePool`: one pool. `PayTranche` is a function of the ledger so that a
  run of the payout queue, `QueueRun`, is one recursive function over its positions
  that reverts as a whole.
- `Collections`: `Total` (a sum over a set) and `Selected` (the elements of a
  sequence that are in a set), written so that proofs can unfold them.
- `CircuitBreaker`: pauses by scope and the two ways out of them. A check that meets
  an anomaly stores a restart of the window and panics; the host reverts the store, so
  that such a call changes nothing and `Restore` has the absence of one as its guard.
- `ReserveVerifier`: one bridge, its commitments and its operator.
- `MCContracts`: a behaviour picks one contract, `subject`, and runs it alone.

The backend services are cut where the code awaits: one action is one statement,
one transaction, or the code between two awaits.

- `FencedTurns`: the abstract promise of a lease. Turns are numbered, each
  belongs to one worker, and the resource accepts writes in the order of turns.
- `WorkerLease`: the row of one lease key. `turn[w]` is the token a worker
  believes it holds, `zombie` what an eviction has read and not acted on.
  `LeaseFenced` is the refinement of `FencedTurns`.
- `IngestionQueue`: extends the leases with the jobs. `call` holds what a call
  of `handleJob`, `moveToDeadLetter` or `requeueDeadLetter` has read and still
  has to do; the reaper takes the job named in an evicted lease.
- `AlertEffectGuard`, `DistributedLock`, `DrainProtocol`, `WebhookDelivery`,
  `AdminRotation`, `ChangeApproval`: one effect, one key, one node, one endpoint,
  one proposal and the accounts, one request. What a call carries across an
  await is in `claim`, `age`, `drainCall`, `task` and `seen`, `rotation`, `change`.
- `OutboxPublish`: the transactions that number events. `counter` is the newest
  version of the sequence row, `locking` who has written it and not yet ended.
- `MCBackend`: a behaviour picks one service; the queue uses the leases.
- `CollectionProofs`: what totals and selections are; extended by the proofs that
  need it. `TransferProofs`, `OutboxProofs`, `RelayProofs`, `QueueProofs` (leases
  and queue) and `AuthorityProofs` (treasury, verifier, emergency control, circuit
  breaker): theorems about the modules each extends. `ServiceProofs` (effect guard,
  lock, drain, change approval, webhooks, rotation, publishing) extends `MCBackend`
  and `QueueProofs`, `FundsProofs` (escrow, governance, insurance) extends
  `MCContracts` and `AuthorityProofs`: they end with the compositions.

Left out of `OutboxDispatch`: a live slot whose BullMQ lock is lost (its process
is assumed to renew it), two sweeps at once (the distributed lock is assumed to
hold; `LockExclusive` says for how long), overlapping polls, statistics, and the growth of the
backoff with `error_count`.

## Runs

| Run | Instance | What it shows |
|---|---|---|
| `transfer_safety` | a user and 2 interchangeable integrators, 1 transfer, log of 6 | all safety properties and the refinement of `TransferSettlement` |
| `transfer_early_timeout` | 2 accounts | a documented meaning of `TimedOut` that the code does not keep |
| `crossing` | 3 messages, 2 operators, 2 priorities, 1 or 2 seconds to live | a complete and ordered queue, no replay, no second relay, no unresolved message |
| | a transfer of 2 accounts, timeouts 1 or 2 reconfigured at any time, log of 4 | `TimeoutDrains` |
| `relay_overwritten` | 1 message, 1 operator | a relayed message that becomes expired |
| `outbox` | 1 event, 2 slots, 2 attempts, all faults | one DLQ row per event, no event given up unseen |
| | 2 events, 1 slot, sweep of 2, no fault but an exhausted pool | parked events leave the DLQ |
| `outbox_delivery` | 1 slot, 1 event, no fault | the slot waits for its own row lock |
| `outbox_starved` | 2 events, sweep of 1 | a parked event is starved by one that keeps failing |
| `outbox_orphan` | 1 slot, the sweep | a dead-lettered event whose DLQ row was released |
| `contracts` | 7 contracts, 2 accounts, clock to 2, two configurations each | solvency, quorums, timelocks, vote accounting, books, staged recovery, final challenges |
| `treasury_approved` | one transaction | an approved transaction cannot be executed |
| `backend` | 9 instances, 2 or 3 callers each | fencing (refinement of `FencedTurns`), no lost job, one outcome, exclusion, ordered publication, earned statuses, quorum of addresses, four eyes, an end of drains whose workers have stopped and what leads to it |
| `rotation_minimum` | two removals | fewer administrators than the minimum |

Bounds. Transfers share nothing but configuration, so one transfer meets every
interleaving of calls on it. Three accounts separate administrator, integration
contract and initiator and let any two coincide: any of them may be the
administrator or an initiator, two of them may be wired in as the integration
contracts, and the third is the ordinary user that must not lock its own
escrow. Accounts only occur in equality tests, so exchanging the two
integrators is sound for the safety run. A log of six rows is
enough for the whole happy path from a fast track start, or for a time-out, an
override and the way on, and makes the full log reachable. The outbox needs two
slots to race for one event, two attempts to reach both branches of
`markForRetry`, and three DLQ ids so that a wrong second row can exist. The
starvation needs two parked events and a batch of one; 50 in the code, so it
takes 50 events that keep failing. Three relay messages give the middle insertions and the
clean-up that keeps one message and goes on; lifetimes of one and two seconds let
a later message expire first. The relay and the transfers share no state, so nothing
is lost by exercising one of them at a time.

The contracts get two accounts, so that any two parties coincide or differ, and
two configurations to switch between while a call is pending. A clock of three
values separates before, at and after a delay of one. Amounts are chosen for
rounding and caps to bite: a deposit of 5 with a 20% fee leaves partial releases
of several sizes; coverage, slash and caps in basis points divide 4 and 8 unevenly.
Contracts bounded to one escrow, proposal or transaction share nothing between
two of them but configuration; pauses, claims and commitments come in twos and
threes because the code compares them.
In the backend, three callers give a holder, its successor and a third who
reclaims; two attempts reach both branches of a retry limit; thresholds of two
separate the first failure from the last. The leases run alone with three tokens
and four clock values; under the queue one worker's single lease is enough to
evict a job once, while two calls race for it. A proposal is about `node1` and made by `node2`, up to
renaming. Publishers are three with batches of two events over two aggregates:
two deadlock and a third waits for either. The runs that refute one claim of a
component take the smallest instance in which it can fail.

There is no deadlock check: a transfer that
is final stops, a relay whose bound of messages is used up stops, a settled outbox has
nothing to do, and contracts and services stop at their bounds.

Fairness. `crossing` assumes that ledgers close and that somebody calls
`handle_timeout`, which needs no signature, for a transfer that stays overdue;
nothing is assumed of initiators, administrators, verifiers or oracles. The
outbox assumes that timers fire (poll, sweep, backoff), that BullMQ hands out
and trims jobs, and that every statement that can run is run; nothing is
assumed of faults or administrators. Trimming deserves a word: BullMQ drops a
finished job only after a hundred newer ones, which a running system produces.
For messages `crossing` assumes that ledgers close and that somebody calls the
permissionless `cleanup_expired_messages` with a scan as long as the queue. `backend` assumes
only that a Node timer that was set fires and that the one await of its
handler, a write to the log, returns (`DrainFairness`). That
the workers stop is not assumed: BullMQ's `close` waits for the jobs under way. So
`StoppedDrainEnds` speaks of drains whose workers have stopped; the others may last
for ever. Nothing is assumed of requests, which may never
finish, nor of heartbeats, reapers or polls: nothing in the repository starts
`startHeartbeat`, `startLeaseReaper` or `processPendingJobs`, so no liveness of
leases or of the queue is claimed.

## What was found

Seven runs refute what the repository says of itself:

1. `advance_state` reaches `TimedOut` before the deadline (`lib.rs:580`):
   `transfer_early_timeout`.
2. `processDispatchJob` waits for ever on its own row lock: `markProcessing`
   runs on another connection (`eventDispatcher.ts:183`). Events leave this wait
   only if the transaction's connection breaks or no connection is free:
   `outbox_delivery`.
3. The redrive sweep starves old rows (`eventProducer.ts:354`): `outbox_starved`.
4. The sweep may release the row of an event that goes back to the DLQ
   (`outboxDlqRedrive.job.ts:56-60`): `outbox_orphan`.
5. `batch_relay` keeps what a failing item wrote: a message relayed in time is
   overwritten as `Expired` (`relay/mod.rs:713`): `relay_overwritten`. `RelayedOnce`
   shows that it is still never relayed again.
6. The last signature makes a treasury transaction Approved; execution and
   cancellation want Pending (`multisig_treasury.rs:300`): `treasury_approved`.
   `NothingIsExecuted` proves that no sequence of calls executes any.
7. Concurrent removals undercut the minimum of administrators
   (`adminRotation.service.ts:595`): `rotation_minimum`; by one for each call beyond
   the first (`AdministratorsRemain`) and never without overlap (`MinimumKeptAlone`).

Further disagreements between the code and what is written about it. The models have
them, since they follow the code, and no run claims either side: each passing property
near one is stated so that it does not speak of that case.

- A deposit the approvers decided to release goes back to Pending, where it can be
  refunded while no verification has been synced (`escrow_contract.rs:500`), whereas
  `docs/time-locked-escrow-contract.md:22` has refunds for failed verification and
  rejected disputes. `DisputeDecides` asks that the quorum decided, and that what it
  decided to release is refunded only while unverified.
- The restart of a recovery window on an anomaly is reverted by the panic that reports
  it (`circuit_breaker.rs:763`), whereas the comments (689-692, 731-733) and the test
  `health_anomaly_during_window_restarts_the_cooldown` expect it. `StagedRecovery`
  counts the window from the start the store has, which no anomaly moves.
- One guardian can give all approvals of a recovery (`circuit_breaker.rs:452`), whereas
  `docs/circuit-breaker-contract.md:233` speaks of other guardians. `StagedRecovery`
  says nothing of pauses the guardians lift.
- Power registered for an account that has delegated leaves its delegatee with the
  old power, and taking the delegation back is clamped at zero (`governance.rs:153`,
  696), whereas `docs/governance-best-practices.md:92` has the entire power delegated.
  `PowerConserved` holds while that has not happened.
- An operators' pause on top of the administrator's moves its unlock time to now
  (`lib.rs:3877`), whereas `lib.rs:3597` promises the timelock of the pause.
  `TimelockHolds` is stated for pauses without one in between.
- `startDrain` arms its timer only after the workers have stopped
  (`drainProtocol.service.ts:171-188`): a job that does not finish keeps the node
  DRAINING, whereas `docs/SHUTDOWN_DRAIN_PROTOCOL.md:23-25` has the timeout end it.
  `StoppedDrainEnds` starts where the workers have stopped.
- The timeout ends in DRAINED whatever is in flight (`drainProtocol.service.ts:384`),
  whereas the same lines call that FAILED.
- The approver of a rotation is an address in the request's body that no one looks
  up among the administrators (`adminRotation.service.ts:412`), whereas
  `backend/docs/admin-rotation.md:295` has other admins approve. `ExecutedWithQuorum`
  counts addresses.
- A transition of a change request checks the status it read and updates by id: a
  cancelled or rejected request comes back (`changeApproval.service.ts:191`), for which
  `backend/docs/change-approval-workflow.md:100-107` has no transition. `FourEyes` says
  who approved what is applied, not that it was still open.
- A webhook answered with a 4xx is tried again (`webhook.service.ts:1263`), whereas
  `docs/webhook-delivery-system.md:332` has no retry for any but 429.
  `StatusIsEarned` says what a status means, not how many attempts were made.

Facts of the code that a reader may not expect, and that the passing runs rest on:

- An emergency recovery may pay a deposit that was refunded already
  (`escrow_contract.rs:542-560` checks neither the status nor the fee):
  `EscrowSolvent` is exact for escrows without a recovery and bounds the rest.
- A bridge is suspended by its first challenge and no entry point reinstates it,
  a commitment found valid included (`bridge_reserve_verifier.rs:536`).
- When the last request of a draining node finishes nothing looks at the count:
  the timer ends the drain (`drainProtocol.service.ts:93`). `StoppedDrainEnds` holds
  over forgotten timers because each session arms its own; `EndUnderWay` is the part
  of it that needs no fairness: a draining node always has a call that will arm its
  timer, a timer armed, or a timeout being handled.
- `webhook_deliveries` never becomes `retrying`: BullMQ's `Queue` has no such event.
- `NoJobLost` rests on a primary key of the queue's two tables: a second insert of
  the same id fails. No migration of the repository creates these tables, so the key
  is taken from the code, which expects one row per id.
- `OneOutcome` is about the row of an effect: one report, by one who sent. The send
  itself can happen twice, when a claim is taken over while its first owner is still
  sending; migration 051 (lines 4-5) calls the delivery exactly-once.

The hazards no property covers, or covers only in part, have a note in `PROJECT.json`.
Some look covered and are not: a verdict kept over an override counts as evidence in
`StageEvidence`, as it does in the code, and no document asks for a fresh one; a BullMQ job
that is retained and swallows a redrive is in the model, but `outbox_delivery` is
refuted without it; the lost restart of the recovery window, the shortened timelock, the
power of an account registered again and the revived change request are outside what
`StagedRecovery`, `TimelockHolds`, `PowerConserved` and `FourEyes` claim.

What holds, and would be hard to test: no sequence of calls and rewirings
releases a transfer without a third party's escrow lock and both verdicts,
unless an override stands in its log; verdicts cannot be revised once consumed;
the edge from `Failed` in the override table cannot be taken; BullMQ's job id
alone keeps the DLQ free of duplicates through crashes, stalls and redrives; a
job is never lost between the two tables although neither move is a transaction;
a stale lease never writes after its successor; an approval read by a stale call
is still somebody else's approval.

## Proofs

Every invariant, action property and refinement that a passing run checks is also a
theorem, for every value of the constants that satisfies the named assumptions;
liveness is not (see the end). The pattern
is the same throughout: an inductive invariant, one lemma for the initial states,
one for each action, one for the step, one for what the invariant says. What an
invariant adds to its property is why the property is not inductive.

`TransferProofs`:

- `TypeCorrect`: `TypeOK` is inductive; lemmas per helper (`MovedType`,
  `ApplyTransitionType`, `RollbackType`), then one step per action.
- `StagesAreJustified`, `EvidenceCorrect`: what a release rests on, `SettlementEvidence`,
  speaks of the last two stages only and is not inductive: `try_auto_progress` reaches
  `ReleasePending` from `OraclePending`, where the escrow and the first verdict
  must already be there. `StageEvidence`, which the run checks, adds the evidence of
  every stage, and that the escrow role lies with an address an administrator chose;
  the first follows from it.
- `FinalityCorrect`: no edge of `transition_allowed` leaves a final state and
  overrides refuse them.
- `HistoryCorrect`: a log is a `Path` from Initiated to the stored state; a row
  that starts where it ends extends it (`PathExtends`), and `rollback_transfer`
  extends it by two.
- `ContractSettles`: the refinement, `Spec => SettlementSpec`. Outcome and grounds
  of the one transfer that moves are computed from its record and log
  (`OutcomeIs`, `GroundsBecome`), those of the others do not change; every
  allowed edge is an abstract step under `StageEvidence` (`AllowedSettles`),
  and configuration and time are stutters.

`OutboxProofs` (`OutboxTypeCorrect`, `RowsAreUnique`, `NoEventIsLost`), one invariant:

- `LockInv`: a row lock is held inside the transaction that took it; `SlotInv`:
  two busy slots have different events, because BullMQ knows a job by its id. No
  unique index keeps the DLQ free of duplicates, so `OneRowPerEvent` rests on this.
- `ParkInv`: what a slot that parks an event has found in the DLQ is still so when
  it writes, or the event has meanwhile reached its handler; `SweepInv` says it of
  the rows the sweep has read, whose ids are never used for another event.
- `LostInv`: without having been sent an event is open or has its DLQ row.
  An administrator's retry may meet a sweep or a slot between any two statements.

`RelayProofs` (`RelayTypeCorrect`, `QueueIsOrdered`, `MessagesAreRelayedOnce`, `ExpiryIsLate`):
nonces count a sender's messages in their order (`NonceInv`); each relayed message
has one event and none that is still relayable has (`EventInv`), although
`batch_relay` may overwrite a status; the counters are cardinalities of the events;
the queue is closed under insertion by priority, removal, and the clean-up's
selection, whose order `SelectedIs` gives.

`QueueProofs`:

- `LeasesAreFenced`: `LeaseSpec => LeaseFenced`, a refinement. The row's token is
  the number of turns granted and no worker holds, nor has the resource accepted,
  a number beyond it (`TokensIssued`).
- `NoJobIsLost`: between the two statements of a move the row stands in both tables
  (`MovesHoldBoth`) and one call alone moves it (`OneMover`), because the insert of
  the opposite move would meet the primary key.

`ServiceProofs`:

- `OneOutcomeHolds`: a pending row has no report yet, any other exactly one.
- `LockExcludes`: a holder within its ttl still owns the key, and the key's
  remaining time and the holder's age add up to the ttl (`YoungOwns`).
- `FourEyesHold`: a transition carries what its check established (`Carried`).
- `StatusesAreEarned`: a job that may still call has attempts left, one being buried
  has none, and a row in the window has no job (`WebhookRow`).
- `ExecutionsHaveQuorum`: a call carries approvals under different addresses, all of
  them given (`Carries`), so that a lost update loses signatures and never invents
  one. That an address belongs to an administrator is neither checked by the code nor
  claimed. `AdministratorsRemain`: the removals between count and write (`Removing`)
  are what the minimum can be undercut by (`RemovalInv`); with a single call there
  is none when another counts, which is `MinimumKeptAlone`.
- `DrainsAreAttended`: `EndUnderWay` is inductive by itself. Whoever takes the last
  timer or pending call away has also taken the node out of `DRAINING`.
- `PublishingIsOrdered`: one open transaction at most has numbered an aggregate,
  and its numbers follow the visible ones (`OrderedTo`).

`AuthorityProofs`:

- `ApprovalsHaveQuorum`, `NothingIsExecuted`: Pending means too few signatures,
  Approved enough (`Sound`); execution needs Pending and enough. The second is no
  run's property: it says how far the finding of `treasury_approved` reaches.
- `ChallengesAreFinal`: an unregistered bridge has no commitments (`Registered`), so
  that the one action that activates an operator finds none.
- `QuorumsHold`: log entries are numbered to the current nonce (`Numbered`) and each
  has its signatures (`Backed`). `TimelocksHold`: while a single-key pause is
  followed by none of the operators the unlock time is no earlier than its own.
- `RecoveryIsStaged`: a cooldown remembers when it began and when its stage did
  (`BreakerSound`). Who approved a recovery is not part of it.

`FundsProofs`:

- `EscrowPaysOnce`, `DisputesDecide`: row, payments and dispute of a deposit
  together (`EscrowSound`): what is released is what was paid out or recovered, a
  refund closes the deposit, and votes exist only where a number was required.
- `PowerIsNotMade`: the delegated power stored for an account is the sum over those
  who delegate to it (`PowerInv`); `VotesDecide`: tallies are sums over ballots
  (`Tallied`) and a status says what happened before it (`Lawful`).
- `InsuranceBooks`, `InsurancePayoutsCapped`: one tranche takes the same amount from
  pool and coverage and adds it to payouts, epoch and claim (`TrancheKeeps`), the
  queue holds the partially paid claims once each (`Queued`), and a run of the queue
  is any number of tranches (`KeptByQueue`), by induction over its positions.

The compositions. `MCContracts` and `MCBackend` let one contract or service move while
the others rest, beside a clock that any contract's step may be reading or advancing.

- `ContractsCompose`, `ServicesCompose`: each step of the composition is a step of one
  component's `Next` and changes nothing of the others (`EachContractSteps`,
  `EachServiceStays`), so its behaviours are behaviours of every component's own
  specification, and `ContractsAreSafe` and `ServicesAreSafe` carry the theorems above
  over. The constraints with which the instances keep two services small only remove
  steps. Nothing of this is about the instances' values.
- `NoJobIsLostAmongServices` is proved apart: in the composition leases are also evicted
  when no reaper listens, so `QueueSpec` is not implied, but what such an eviction leaves
  unchanged is all that `QueueInv` speaks of (`QueueKept`).
- `ContractsTypeCorrect`, `BackendTypeCorrect`: the inductive invariants above hold most
  of the types. What they lacked: approvals of a proposal name accounts
  (`ApprovalTypes`); the clock and heartbeats of the leases and what the reaper took
  (`LeaseFields`, `Reaping`); the accounts a rotation call works on (`RotationFields`);
  and the failure count of an endpoint (`WebhookFields`), which stays within the
  threshold although every delivery writes back a count it read before an await: a count
  read, however stale, is below the threshold or was read with the breaker open, and
  then the count is not written (`Counted`).

Induction. The library's induction theorems take a predicate and no backend can
instantiate them. `CollectionProofs` proves set forms instead: a set of naturals
with 0 and closed under successor has them all (`NaturalsBySteps`), a family with
the empty set and closed under adding an element has all subsets of a finite set
(`SubsetsBySteps`), both from the well-foundedness of `<`. With them a recursive
function exists and is what its equation says (`SumsExist`, `PicksExist`, `PaysExist`),
which gives the laws of totals (`TotalChange`, `TotalOfParts`) and of selections.

Assumptions. All theorems rest only on the named assumptions of the modules.
Thresholds, times, amounts and bounds are numbers, `Worker`, `Job`, `Sender` and the
other sets are arbitrary. `Account` of governance and insurance and the calls of a
rotation, `RotationCall`, are finite: a ledger has only so many accounts and a
process so many calls under way, and a sum or a count over them needs it. Basis
points lie in 0 .. 10000 as the contracts demand when they are configured.

Only model-checked: liveness, that is `TimeoutDrains`, `SentIsResolved`,
`StoppedDrainEnds` and `CalmParkedIsRedriven`. Each needs ENABLED, through its fairness, and a temporal
argument quantified over transfers, messages, calls or events, which the provers do
not give. What is proved is their safety part where they have one: `EndUnderWay` for
`StoppedDrainEnds`, `NothingLost` for the outbox, `QueueOrder` for the messages a clean-up is
to find.

## Not modelled

- `liquidity_pool.rs`, `fee_distribution.rs`: share arithmetic, one call at a time.
- `rate_limiter.rs`, `operator_rotation.rs`, `emergency_fund_recovery.rs`,
  `asset_registry.rs`, `alert_system.rs`, `reputation_system.rs` and the rest of
  `lib.rs`: keyed records and permission checks, or lifecycles like the ones here.
- `hotColdMigration`: nothing calls it outside its tests.
- Alert evaluation and escalation, the finality ledger, stream supervision, the
  provider circuit breaker, sliding-window rate limits: not reached.
- In modelled parts: premium rewards of the insurance pool, trigger
  configurations and whitelists of the circuit breaker (no recovery reads them),
  finality buffering of the ingestion queue, duplicate-suppression records of
  the effect guard (nothing writes them), signatures, filters, templates and
  rate limits of webhooks, the rest of the action engine.
- API, analytics, prices, scores, reports, frontend, SDK, infrastructure: no
  protocol state. They are most of the repository's lines, which is why the share of
  the lines mapped stays small.

## Plan

1. Done: transfers (abstract, detailed, proofs), outbox dispatch, relay.
2. Done: leases with their abstract specification, ingestion queue, effect
   guard, lock, drain, webhooks, rotation, change approval, outbox publishing.
3. Done: escrow, treasury, emergency control, governance, insurance, circuit
   breaker and reserve verifier contracts.
4. Done: theorems for every invariant, action property and refinement of the passing
   runs, and for the two compositions.
5. Next, in proof: stronger statements where a property bounds what the invariant
   states exactly (the relay's nonces, the order of an outbox row's retries).
6. Next, in modelling: the order in which the dispatcher's slots handle the events of
   one aggregate; escalation timers against acknowledgement; chain ingestion; rate
   limits; the share arithmetic of the liquidity pool.
