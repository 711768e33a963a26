--------------------------- MODULE EscrowContract ---------------------------
(***************************************************************************)
(* The time-locked escrow, contracts/soroban/src/escrow_contract.rs.       *)
(*                                                                         *)
(* A deposit pays out by release, refund or emergency recovery; `paid' is  *)
(* what the events of those three entry points add up to.  Depositor,      *)
(* recipient, verification contract, fee collector and administrator are   *)
(* parties that call whenever the code lets them, so only the approvers,   *)
(* whom the contract counts, keep their identity.                          *)
(***************************************************************************)
EXTENDS SorobanHost

CONSTANTS
  Board,       \* approver lists and thresholds an administrator may set
  FeeBps,      \* fees an administrator may set, in basis points
  LockSecs,    \* lock periods, DEFAULT_LOCK_SECS included
  Deposit,     \* amounts deposited
  MaxEscrows   \* bound: escrows ever created

ASSUME EscrowAssumption ==
  /\ \A b \in Board : b.who \subseteq Account /\ b.threshold \in Nat \ {0}
  /\ FeeBps \subseteq 0 .. 2000
  /\ LockSecs \subseteq Nat \ {0}
  /\ Deposit \subseteq Nat \ {0}
  /\ MaxEscrows \in Nat

VARIABLES
  board,   \* Approvers, ApprovalThreshold
  feeBps,  \* FeeBps
  frozen,  \* EmergencyPause
  escrow,  \* Escrow(id), in order of EscrowSeq
  dispute, \* Challenge(id) and Dispute(id)
  paid,    \* totals of the esc_rel, esc_ref and esc_emg events
  fees     \* AccruedFees, and the total of the esc_fee events

escrowVars == <<board, feeBps, frozen, escrow, dispute, paid, fees>>

Escrows == 1 .. Len(escrow)

EscrowDeposit ==
  [amount : Nat, fee : Nat, released : Nat, lock : Nat, verified : BOOLEAN,
   status : {"Pending", "Challenged", "Released", "Refunded"}]

\* `by' lists the approvals; nobody has opened the dispute while it is empty.
DisputeResolution ==
  [challenged : BOOLEAN, by : SUBSET Account, release : BOOLEAN,
   required : Nat, resolved : BOOLEAN]

Closed(e) == escrow[e].status \in {"Released", "Refunded"}

\* What can still be released: amount less fee less what was released.
Remaining(e) == escrow[e].amount - escrow[e].fee - escrow[e].released

EscrowInit ==
  /\ board \in Board /\ feeBps \in FeeBps
  /\ frozen = FALSE
  /\ escrow = <<>> /\ dispute = <<>> /\ paid = <<>>
  /\ fees = [accrued |-> 0, collected |-> 0]

\* set_approvers, set_fee_config, set_emergency_pause: an open dispute keeps
\* the number of approvals it was opened with.
Configure ==
  /\ \/ board' \in Board /\ UNCHANGED <<feeBps, frozen>>
     \/ feeBps' \in FeeBps /\ UNCHANGED <<board, frozen>>
     \/ frozen' \in BOOLEAN /\ UNCHANGED <<board, feeBps>>
  /\ UNCHANGED <<escrow, dispute, paid, fees>>

CreateEscrow(amount, secs) ==
  LET fee == (amount * feeBps) \div 10000 IN
  /\ ~ frozen
  /\ Len(escrow) < MaxEscrows
  /\ escrow' = Append(escrow, [amount |-> amount, fee |-> fee, released |-> 0,
                               lock |-> now + secs, verified |-> FALSE, status |-> "Pending"])
  /\ dispute' = Append(dispute, [challenged |-> FALSE, by |-> {}, release |-> FALSE,
                                 required |-> 0, resolved |-> FALSE])
  /\ paid' = Append(paid, [release |-> 0, refund |-> 0, recovery |-> 0])
  /\ fees' = [fees EXCEPT !.accrued = @ + fee]
  /\ UNCHANGED <<board, feeBps, frozen>>

SyncVerification(e, verified) ==
  /\ ~ Closed(e)
  /\ escrow' = [escrow EXCEPT ![e].verified = verified]
  /\ UNCHANGED <<board, feeBps, frozen, dispute, paid, fees>>

\* A challenge is stored for good: an escrow is challenged once at most.
ChallengeEscrow(e) ==
  /\ ~ frozen
  /\ escrow[e].status = "Pending" /\ now < escrow[e].lock
  /\ ~ dispute[e].challenged
  /\ escrow' = [escrow EXCEPT ![e].status = "Challenged"]
  /\ dispute' = [dispute EXCEPT ![e].challenged = TRUE]
  /\ UNCHANGED <<board, feeBps, frozen, paid, fees>>

\* BUG: the first approval decides, whatever the quorum.
Approved_NoQuorum(d, approver, allowed) ==
  [d EXCEPT !.by = @ \cup {approver}, !.release = allowed, !.resolved = TRUE,
            !.required = IF d.by = {} THEN board.threshold ELSE @]

\* The dispute after an approval: the first one fixes decision and quorum.
Approved(d, approver, allowed) ==
  LET required == IF d.by = {} THEN board.threshold ELSE d.required
      by == d.by \cup {approver} IN
  [d EXCEPT !.by = by, !.release = allowed, !.required = required,
            !.resolved = Cardinality(by) >= required]

\* A resolved dispute answers Ok without a change.
ResolveChallenge(approver, e, allowed) ==
  LET d == Approved(dispute[e], approver, allowed) IN
  /\ ~ frozen
  /\ approver \in board.who
  /\ escrow[e].status = "Challenged" /\ ~ dispute[e].resolved
  /\ dispute[e].by # {} => dispute[e].release = allowed
  /\ approver \notin dispute[e].by
  /\ dispute' = [dispute EXCEPT ![e] = d]
  /\ escrow' = IF d.resolved /\ allowed THEN [escrow EXCEPT ![e].status = "Pending"] ELSE escrow
  /\ UNCHANGED <<board, feeBps, frozen, paid, fees>>

Releasable(e) ==
  /\ escrow[e].status = "Pending" /\ escrow[e].verified
  /\ now >= escrow[e].lock

\* batch_release: each item is released by the same amount, an item listed
\* twice is released twice, and one refusal reverts the whole batch.
\* release_escrow is the batch of one.
BatchRelease(times, amount) ==
  LET batch == {e \in Escrows : times[e] > 0} IN
  /\ ~ frozen
  /\ batch # {}
  /\ \A e \in batch : Releasable(e) /\ times[e] * amount <= Remaining(e)
  /\ escrow' = [e \in Escrows |->
        [escrow[e] EXCEPT !.released = @ + times[e] * amount,
           !.status = IF e \in batch /\ times[e] * amount = Remaining(e)
                      THEN "Released" ELSE @]]
  /\ paid' = [e \in Escrows |-> [paid[e] EXCEPT !.release = @ + times[e] * amount]]
  /\ UNCHANGED <<board, feeBps, frozen, dispute, fees>>

\* An escrow not verified so far, which after a dispute decided for release it
\* may still not be, or one whose dispute was decided against release.
Refundable(e) ==
  \/ /\ escrow[e].status = "Challenged"
     /\ dispute[e].resolved /\ ~ dispute[e].release
  \/ escrow[e].status = "Pending" /\ ~ escrow[e].verified

\* BUG: the fee is paid back although it was accrued.
RefundEscrow_WithFee(e) ==
  /\ ~ frozen
  /\ Refundable(e) /\ Remaining(e) > 0
  /\ escrow' = [escrow EXCEPT ![e].status = "Refunded"]
  /\ paid' = [paid EXCEPT ![e].refund = @ + Remaining(e) + escrow[e].fee]
  /\ UNCHANGED <<board, feeBps, frozen, dispute, fees>>

RefundEscrow(e) ==
  /\ ~ frozen
  /\ Refundable(e) /\ Remaining(e) > 0
  /\ escrow' = [escrow EXCEPT ![e].status = "Refunded"]
  /\ paid' = [paid EXCEPT ![e].refund = @ + Remaining(e)]
  /\ UNCHANGED <<board, feeBps, frozen, dispute, fees>>

ExtendLock(e, secs) ==
  /\ ~ Closed(e)
  /\ escrow[e].lock + secs <= MaxTime \* bound
  /\ escrow' = [escrow EXCEPT ![e].lock = @ + secs]
  /\ UNCHANGED <<board, feeBps, frozen, dispute, paid, fees>>

\* Open while the contract is frozen, whatever the status, and up to the fee.
EmergencyRecover(e, amount) ==
  /\ frozen
  /\ amount <= escrow[e].amount - escrow[e].released
  /\ escrow' = [escrow EXCEPT ![e].released = @ + amount,
                  ![e].status = IF amount >= Remaining(e) THEN "Released" ELSE @]
  /\ paid' = [paid EXCEPT ![e].recovery = @ + amount]
  /\ UNCHANGED <<board, feeBps, frozen, dispute, fees>>

CollectFees(amount) ==
  /\ amount <= fees.accrued
  /\ fees' = [accrued |-> fees.accrued - amount, collected |-> fees.collected + amount]
  /\ UNCHANGED <<board, feeBps, frozen, escrow, dispute, paid>>

MaxDeposit == CHOOSE a \in Deposit : \A b \in Deposit : b <= a

EscrowStep ==
  \/ Configure
  \/ \E a \in Deposit, s \in LockSecs : CreateEscrow(a, s)
  \/ \E e \in Escrows :
       \/ \E v \in BOOLEAN : SyncVerification(e, v)
       \/ ChallengeEscrow(e)
       \/ \E b \in Account, allowed \in BOOLEAN : ResolveChallenge(b, e, allowed)
       \/ RefundEscrow(e)
       \/ \E s \in LockSecs : ExtendLock(e, s)
       \/ \E a \in 1 .. MaxDeposit : EmergencyRecover(e, a)
  \/ \E times \in [Escrows -> 0 .. 2], a \in 1 .. MaxDeposit : BatchRelease(times, a)
  \/ \E a \in 1 .. MaxDeposit : CollectFees(a)

EscrowNext == \/ EscrowStep /\ UNCHANGED now
              \/ CloseLedger /\ UNCHANGED escrowVars

EscrowSpec == now = 0 /\ EscrowInit /\ [][EscrowNext]_<<now, escrowVars>>

-----------------------------------------------------------------------------
(* Properties.                                                             *)

EscrowTypeOK ==
  /\ board \in Board /\ feeBps \in FeeBps /\ frozen \in BOOLEAN
  /\ escrow \in Seq(EscrowDeposit) /\ dispute \in Seq(DisputeResolution)
  /\ paid \in Seq([release : Nat, refund : Nat, recovery : Nat])
  /\ fees \in [accrued : Nat, collected : Nat]
  /\ Len(dispute) = Len(escrow) /\ Len(paid) = Len(escrow)

\* No sequence of partial releases, batches, disputes and refunds pays out
\* more than the deposit less its fee, and what is refunded is not released
\* as well.  Only an emergency recovery, which looks neither at the status nor
\* at the fee, can exceed that; with it a deposit pays at most twice.
EscrowSolvent ==
  \A e \in Escrows :
    /\ paid[e].recovery = 0 =>
         /\ paid[e].release + paid[e].refund + escrow[e].fee <= escrow[e].amount
         /\ paid[e].refund > 0 => escrow[e].status = "Refunded"
    /\ paid[e].release + paid[e].recovery <= escrow[e].amount
    /\ paid[e].refund <= escrow[e].amount - escrow[e].fee

\* A challenged escrow is open again only when enough different approvers
\* agreed to its release, whatever became of the list of approvers meanwhile.
\* It is refunded only once their quorum decided, and if it decided for the
\* release (resolve_challenge, refund_escrow), only while it is not verified.
DisputeDecides ==
  \A e \in Escrows :
    /\ dispute[e].resolved => /\ Cardinality(dispute[e].by) >= dispute[e].required
                              /\ dispute[e].required > 0
    /\ dispute[e].challenged /\ escrow[e].status = "Pending" =>
         dispute[e].resolved /\ dispute[e].release
    /\ paid[e].refund > 0 /\ dispute[e].challenged =>
         dispute[e].resolved /\ ~ (dispute[e].release /\ escrow[e].verified)
=============================================================================
