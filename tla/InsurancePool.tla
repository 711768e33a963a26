---------------------------- MODULE InsurancePool ----------------------------
(***************************************************************************)
(* One coverage pool of contracts/soroban/src/insurance_pool.rs: stakes,   *)
(* the queue of time-locked withdrawals, claims with their approvals, and  *)
(* payouts in tranches under a cap per claim and a cap per epoch.          *)
(*                                                                         *)
(* The administrator calls whenever the code lets him.  The premium is     *)
(* left out (rate, risk score, tier multiplier, rewards of stakers): it    *)
(* never enters the balances below.                                        *)
(***************************************************************************)
EXTENDS SorobanHost, Collections

CONSTANTS
  Approver,        \* Governance.approvers
  Amount,          \* amounts staked, withdrawn, covered and claimed
  CoverCap,        \* tier_coverage_cap_bps
  SlashBps,        \* slash_bps an administrator may name
  Caps,            \* payout caps an administrator may set
  WithdrawDelay,   \* withdrawal_delay_secs
  MaxLiquidity,    \* bound: liquidity staked at a time
  MaxWithdrawals,  \* bound: withdrawals ever requested
  MaxClaims        \* bound: claims ever submitted

ASSUME InsuranceAssumption ==
  /\ IsFiniteSet(Account) /\ Approver \subseteq Account
  /\ Amount \subseteq Nat \ {0}
  /\ \A bps \in CoverCap \cup SlashBps : bps \in Nat /\ bps <= 10000
  /\ \A c \in Caps : /\ {c.claim, c.drain, c.secs} \subseteq Nat \ {0}
                     /\ c.claim <= c.drain /\ c.drain <= 10000
  /\ {WithdrawDelay, MaxLiquidity, MaxWithdrawals, MaxClaims} \subseteq Nat

VARIABLES
  caps,       \* PayoutCapConfig
  quota,      \* Governance.approval_threshold
  pool,       \* CoveragePool
  stake,      \* StakerPosition.staked_amount
  pending,    \* StakerPosition.pending_withdrawal
  withdrawal, \* WithdrawalRequest(id)
  claim,      \* InsuranceClaim(id)
  epoch,      \* PayoutEpoch
  payQueue    \* PayoutQueue

insuranceVars == <<caps, quota, pool, stake, pending, withdrawal, claim, epoch, payQueue>>

ClaimStatus == {"Submitted", "Verified", "Approved", "PartiallyPaid", "Paid", "Rejected"}

BpsOf(amount, bps) == (amount * bps) \div 10000

\* No epoch is open before the first payout: one that ended long ago.
InsuranceInit ==
  /\ caps \in Caps /\ quota \in 1 .. Cardinality(Approver)
  /\ pool = [total |-> 0, staked |-> 0, queued |-> 0, coverage |-> 0, payout |-> 0]
  /\ stake = [a \in Account |-> 0] /\ pending = [a \in Account |-> 0]
  /\ withdrawal = <<>> /\ claim = <<>>
  /\ epoch = [open |-> FALSE, start |-> 0, opening |-> 0, paid |-> 0]
  /\ payQueue = <<>>

\* configure_governance and configure_payout_caps.
ConfigurePool ==
  /\ \/ caps' \in Caps /\ UNCHANGED quota
     \/ quota' \in 1 .. Cardinality(Approver) /\ UNCHANGED caps
  /\ UNCHANGED <<pool, stake, pending, withdrawal, claim, epoch, payQueue>>

StakeLiquidity(s, n) ==
  /\ pool.staked + n <= MaxLiquidity
  /\ stake' = [stake EXCEPT ![s] = @ + n]
  /\ pool' = [pool EXCEPT !.total = @ + n, !.staked = @ + n]
  /\ UNCHANGED <<caps, quota, pending, withdrawal, claim, epoch, payQueue>>

RequestWithdrawal(s, n) ==
  /\ Len(withdrawal) < MaxWithdrawals
  /\ stake[s] >= n
  /\ stake' = [stake EXCEPT ![s] = @ - n]
  /\ pending' = [pending EXCEPT ![s] = @ + n]
  /\ pool' = [pool EXCEPT !.staked = @ - n, !.queued = @ + n]
  /\ withdrawal' = Append(withdrawal,
       [staker |-> s, amount |-> n, unlock |-> now + WithdrawDelay, claimed |-> FALSE])
  /\ UNCHANGED <<caps, quota, claim, epoch, payQueue>>

\* BUG: the request is not marked, and pays again from another one's amount.
ExecuteWithdrawal_Unmarked(r) ==
  LET w == withdrawal[r] IN
  /\ now >= w.unlock
  /\ pending[w.staker] >= w.amount
  /\ pool.total >= w.amount /\ pool.queued >= w.amount
  /\ pending' = [pending EXCEPT ![w.staker] = @ - w.amount]
  /\ pool' = [pool EXCEPT !.total = @ - w.amount, !.queued = @ - w.amount]
  /\ UNCHANGED <<caps, quota, stake, withdrawal, claim, epoch, payQueue>>

\* Reverted while payouts have left less than the request in the pool.
ExecuteWithdrawal(r) ==
  LET w == withdrawal[r] IN
  /\ ~ w.claimed /\ now >= w.unlock
  /\ pending[w.staker] >= w.amount
  /\ pool.total >= w.amount /\ pool.queued >= w.amount
  /\ pending' = [pending EXCEPT ![w.staker] = @ - w.amount]
  /\ pool' = [pool EXCEPT !.total = @ - w.amount, !.queued = @ - w.amount]
  /\ withdrawal' = [withdrawal EXCEPT ![r].claimed = TRUE]
  /\ UNCHANGED <<caps, quota, stake, claim, epoch, payQueue>>

PurchaseCoverage(n, bps) ==
  /\ pool.coverage + n <= BpsOf(pool.staked, bps)
  /\ pool' = [pool EXCEPT !.coverage = @ + n]
  /\ UNCHANGED <<caps, quota, stake, pending, withdrawal, claim, epoch, payQueue>>

\* Anybody's claim; several may name the same coverage.
SubmitClaim(s, n) ==
  /\ Len(claim) < MaxClaims
  /\ pool.coverage >= n
  /\ claim' = Append(claim, [by |-> s, amount |-> n, status |-> "Submitted",
                             approvals |-> {}, paid |-> 0])
  /\ UNCHANGED <<caps, quota, pool, stake, pending, withdrawal, epoch, payQueue>>

\* A rejected claim costs the claimant part of a stake, of which payouts may
\* have taken the money already: the pool's total can fall below zero.
VerifyClaim(c, valid, bps) ==
  LET s == claim[c].by
      slashed == IF valid THEN 0 ELSE Min({BpsOf(claim[c].amount, bps), stake[s]}) IN
  /\ claim[c].status = "Submitted"
  /\ claim' = [claim EXCEPT ![c].status = IF valid THEN "Verified" ELSE "Rejected"]
  /\ stake' = [stake EXCEPT ![s] = @ - slashed]
  /\ pool' = [pool EXCEPT !.total = @ - slashed, !.staked = @ - slashed]
  /\ UNCHANGED <<caps, quota, pending, withdrawal, epoch, payQueue>>

ApproveClaim(a, c) ==
  /\ claim[c].status \in {"Verified", "Approved"}
  /\ a \notin claim[c].approvals
  /\ LET by == claim[c].approvals \cup {a} IN
       claim' = [claim EXCEPT ![c].approvals = by,
                   ![c].status = IF Cardinality(by) >= quota THEN "Approved" ELSE @]
  /\ UNCHANGED <<caps, quota, pool, stake, pending, withdrawal, epoch, payQueue>>

\* current_payout_epoch in state s.
CurrentEpoch(s) ==
  IF s.epoch.open /\ now < s.epoch.start + caps.secs THEN s.epoch
  ELSE [open |-> TRUE, start |-> now, opening |-> s.pool.total, paid |-> 0]

\* BUG: the epoch's budget is offered to every tranche afresh.
Payable_PerTranche(s, ep, remaining) ==
  Min({remaining, BpsOf(s.pool.total, caps.claim), s.pool.total, BpsOf(ep.opening, caps.drain)})

\* What the caps leave of the remaining amount, which may be nothing.
Payable(s, ep, remaining) ==
  LET budget == BpsOf(ep.opening, caps.drain) IN
  Min({remaining, BpsOf(s.pool.total, caps.claim), s.pool.total,
       IF budget > ep.paid THEN budget - ep.paid ELSE 0})

CanPay(s, c) == s.pool.coverage >= s.claim[c].amount - s.claim[c].paid

\* pay_claim_tranche, as a function of the state it reads and writes.
PayTranche(s, c) ==
  LET remaining == s.claim[c].amount - s.claim[c].paid
      ep == CurrentEpoch(s)
      pay == Payable(s, ep, remaining)
      some == IF pay > 0 THEN pay ELSE 0
      queued == IF c \in Range(s.queue) THEN s.queue ELSE Append(s.queue, c) IN
  [pool  |-> [s.pool EXCEPT !.total = @ - some, !.coverage = @ - some, !.payout = @ + some],
   epoch |-> [ep EXCEPT !.paid = @ + some],
   claim |-> [s.claim EXCEPT ![c].paid = @ + some,
                             ![c].status = IF some = remaining THEN "Paid" ELSE "PartiallyPaid"],
   queue |-> IF some = remaining THEN Selected(s.queue, Range(s.queue) \ {c}) ELSE queued]

Payout(s) ==
  /\ pool' = s.pool /\ epoch' = s.epoch /\ claim' = s.claim /\ payQueue' = s.queue
  /\ UNCHANGED <<caps, quota, stake, pending, withdrawal>>

Ledger == [pool |-> pool, epoch |-> epoch, claim |-> claim, queue |-> payQueue]

ExecutePayout(c) ==
  /\ claim[c].status \in {"Approved", "PartiallyPaid"}
  /\ CanPay(Ledger, c)
  /\ Payout(PayTranche(Ledger, c))

\* The queue in order until a claim gets nothing; a claim that exceeds the
\* active coverage reverts the call for all of them.
PayNext(run, c) ==
  IF ~ run.ok \/ run.stop \/ run.s.claim[c].status # "PartiallyPaid" THEN run
  ELSE IF ~ CanPay(run.s, c) THEN [run EXCEPT !.ok = FALSE]
  ELSE LET s == PayTranche(run.s, c) IN
       [run EXCEPT !.s = s, !.stop = s.claim[c].paid = run.s.claim[c].paid]

QueueRun ==
  LET run[i \in 0 .. Len(payQueue)] ==
        IF i = 0 THEN [s |-> Ledger, ok |-> TRUE, stop |-> FALSE]
        ELSE PayNext(run[i - 1], payQueue[i])
  IN run[Len(payQueue)]

ProcessPayoutQueue == payQueue # <<>> /\ QueueRun.ok /\ Payout(QueueRun.s)

InsuranceStep ==
  \/ ConfigurePool
  \/ \E n \in Amount :
       \/ \E s \in Account : StakeLiquidity(s, n) \/ RequestWithdrawal(s, n) \/ SubmitClaim(s, n)
       \/ \E bps \in CoverCap : PurchaseCoverage(n, bps)
  \/ \E r \in 1 .. Len(withdrawal) : ExecuteWithdrawal(r)
  \/ \E c \in 1 .. Len(claim) :
       \/ \E valid \in BOOLEAN, bps \in SlashBps : VerifyClaim(c, valid, bps)
       \/ \E a \in Approver : ApproveClaim(a, c)
       \/ ExecutePayout(c)
  \/ ProcessPayoutQueue

InsuranceNext == \/ InsuranceStep /\ UNCHANGED now
                 \/ CloseLedger /\ UNCHANGED insuranceVars

InsuranceSpec == now = 0 /\ InsuranceInit /\ [][InsuranceNext]_<<now, insuranceVars>>

-----------------------------------------------------------------------------
(* Properties.                                                             *)

InsuranceTypeOK ==
  /\ caps \in Caps /\ quota \in Nat
  /\ pool \in [total : Int, staked : Nat, queued : Nat, coverage : Nat, payout : Nat]
  /\ stake \in [Account -> Nat] /\ pending \in [Account -> Nat]
  /\ withdrawal \in Seq([staker : Account, amount : Nat, unlock : Nat, claimed : BOOLEAN])
  /\ claim \in Seq([by : Account, amount : Nat, status : ClaimStatus,
                    approvals : SUBSET Approver, paid : Nat])
  /\ epoch \in [open : BOOLEAN, start : Nat, opening : Int, paid : Nat]
  /\ payQueue \in Seq(1 .. MaxClaims)

Requested == [r \in 1 .. Len(withdrawal) |-> withdrawal[r].amount]
OpenRequests(s) ==
  {r \in 1 .. Len(withdrawal) : withdrawal[r].staker = s /\ ~ withdrawal[r].claimed}
PaidOn(claims) == [c \in 1 .. Len(claims) |-> claims[c].paid]

\* Through stakes, withdrawals, slashes and tranches in any order the books
\* agree: what the pool has lost to payouts is exactly what stakers are owed
\* and cannot have, and positions, requests and claims add up to the pool.
BooksAgree ==
  /\ pool.total + pool.payout = pool.staked + pool.queued
  /\ pool.staked = Total(stake, Account) /\ pool.queued = Total(pending, Account)
  /\ \A s \in Account : pending[s] = Total(Requested, OpenRequests(s))
  /\ pool.payout = Total(PaidOn(claim), 1 .. Len(claim))

\* However payouts and runs of the queue alternate, and whatever caps follow
\* each other: no epoch pays out more than the largest cap allows of the
\* liquidity it opened with, no claim more than its amount, and exactly the
\* claims still owed something stand in the queue, once.
PayoutsCapped ==
  /\ epoch.paid > 0 => \E k \in Caps : epoch.paid <= BpsOf(epoch.opening, k.drain)
  /\ \A c \in 1 .. Len(claim) : claim[c].paid <= claim[c].amount
  /\ IsInjective(payQueue)
  /\ Range(payQueue) = {c \in 1 .. Len(claim) : claim[c].status = "PartiallyPaid"}
=============================================================================
