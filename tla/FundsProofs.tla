---------------------------- MODULE FundsProofs -----------------------------
(***************************************************************************)
(* The contracts that keep funds and votes: what they hold covers what     *)
(* they owe, and decisions are those of the votes cast.                    *)
(***************************************************************************)
EXTENDS MCContracts, AuthorityProofs

-----------------------------------------------------------------------------
(* Deposits, for any amounts, fees, parties and approvers. A deposit's     *)
(* row, the payments made from it and its dispute are sound together.      *)

PaidRow == [release : Nat, refund : Nat, recovery : Nat]

\* What a deposit, its payments and its dispute satisfy together.
EscrowSound(d, w, r) ==
  /\ d.fee <= d.amount /\ d.released = w.release + w.recovery /\ d.released <= d.amount
  /\ w.recovery = 0 => w.release + w.refund + d.fee <= d.amount
  /\ w.refund <= d.amount - d.fee
  /\ w.refund > 0 => /\ d.status \in {"Released", "Refunded"}
                     /\ w.recovery = 0 => d.status = "Refunded"
                     /\ r.challenged => r.resolved /\ ~ (r.release /\ d.verified)
  /\ r.by # {} => r.required > 0
  /\ r.resolved => Cardinality(r.by) >= r.required /\ r.required > 0
  /\ d.status = "Challenged" => r.challenged
  /\ r.challenged /\ d.status = "Pending" => r.resolved /\ r.release

EscrowInv ==
  /\ now \in Nat /\ EscrowTypeOK
  /\ \A e \in Escrows : EscrowSound(escrow[e], paid[e], dispute[e])

LEMMA EscrowInvInit == now = 0 /\ EscrowInit => EscrowInv
<1> SUFFICES ASSUME now = 0, EscrowInit PROVE EscrowInv
  OBVIOUS
<1>1. EscrowTypeOK
  <2>1. /\ escrow \in Seq(EscrowDeposit) /\ dispute \in Seq(DisputeResolution)
        /\ paid \in Seq(PaidRow) /\ fees \in [accrued : Nat, collected : Nat]
    BY DEF EscrowInit
  <2> QED
    BY <2>1 DEF EscrowInit, EscrowTypeOK, PaidRow
<1>2. Escrows = {}
  BY DEF EscrowInit, Escrows
<1> QED
  BY <1>1, <1>2 DEF EscrowInv

\* What an action has to show: types, one more or as many rows, each sound.
LEMMA EscrowRows ==
  ASSUME EscrowInv, now' \in Nat, board' \in Board, feeBps' \in FeeBps, frozen' \in BOOLEAN,
         escrow' \in Seq(EscrowDeposit), dispute' \in Seq(DisputeResolution),
         paid' \in Seq(PaidRow), fees' \in [accrued : Nat, collected : Nat],
         Len(dispute') = Len(escrow'), Len(paid') = Len(escrow'),
         \A e \in 1 .. Len(escrow') : EscrowSound(escrow'[e], paid'[e], dispute'[e])
  PROVE  EscrowInv'
  BY DEF EscrowInv, EscrowTypeOK, PaidRow, Escrows

Fee(n, bps) == (n * bps) \div 10000

LEMMA FeeBound ==
  ASSUME NEW n \in Nat, NEW bps \in Nat, bps <= 2000
  PROVE  Fee(n, bps) \in Nat /\ Fee(n, bps) <= n
<1> DEFINE m == n * bps
<1>1. m \in Nat /\ m <= n * 10000
  OBVIOUS
<1>2. Fee(n, bps) = m \div 10000
  BY DEF Fee
<1> HIDE DEF m
<1> QED
  BY <1>1, <1>2

LEMMA CreateKeeps ==
  ASSUME EscrowInv, UNCHANGED now, NEW a \in Deposit, NEW s \in LockSecs, CreateEscrow(a, s)
  PROVE  EscrowInv'
<1>0. /\ now \in Nat /\ board \in Board /\ feeBps \in FeeBps /\ frozen \in BOOLEAN
      /\ escrow \in Seq(EscrowDeposit) /\ dispute \in Seq(DisputeResolution)
      /\ paid \in Seq(PaidRow) /\ fees \in [accrued : Nat, collected : Nat]
      /\ Len(dispute) = Len(escrow) /\ Len(paid) = Len(escrow)
      /\ \A e \in Escrows : EscrowSound(escrow[e], paid[e], dispute[e])
  BY DEF EscrowInv, EscrowTypeOK, PaidRow
<1> DEFINE fee == (a * feeBps) \div 10000
           d == [amount |-> a, fee |-> fee, released |-> 0, lock |-> now + s,
                 verified |-> FALSE, status |-> "Pending"]
           r == [challenged |-> FALSE, by |-> {}, release |-> FALSE, required |-> 0,
                 resolved |-> FALSE]
           w == [release |-> 0, refund |-> 0, recovery |-> 0]
<1>1. a \in Nat /\ s \in Nat /\ fee \in Nat /\ fee <= a
  <2>1. a \in Nat /\ s \in Nat /\ feeBps \in Nat /\ feeBps <= 2000
    BY <1>0, EscrowAssumption
  <2>2. fee = Fee(a, feeBps)
    BY DEF Fee
  <2> HIDE DEF fee
  <2>3. Fee(a, feeBps) \in Nat /\ Fee(a, feeBps) <= a
    <3> HIDE DEF fee, d, r, w
    <3> QED
      BY <2>1, FeeBound
  <2> QED
    BY <2>1, <2>2, <2>3
<1> HIDE DEF fee
<1>2. d \in EscrowDeposit /\ r \in DisputeResolution /\ w \in PaidRow
  BY <1>0, <1>1 DEF EscrowDeposit, DisputeResolution, PaidRow
<1>3. EscrowSound(d, w, r)
  BY <1>1 DEF EscrowSound
<1>4. /\ escrow' = Append(escrow, d) /\ dispute' = Append(dispute, r) /\ paid' = Append(paid, w)
      /\ fees' = [fees EXCEPT !.accrued = @ + fee]
      /\ UNCHANGED <<board, feeBps, frozen>>
  BY DEF CreateEscrow, fee
<1> HIDE DEF d, r, w
<1>5. fees' \in [accrued : Nat, collected : Nat]
  <2>1. fees \in [accrued : Nat, collected : Nat] /\ fees.accrued + fee \in Nat
    BY <1>0, <1>1
  <2>2. fees' = [fees EXCEPT !.accrued = fees.accrued + fee]
    BY <1>4
  <2> QED
    BY <2>1, <2>2
<1>6. /\ escrow' \in Seq(EscrowDeposit) /\ dispute' \in Seq(DisputeResolution)
      /\ paid' \in Seq(PaidRow)
      /\ Len(escrow') = Len(escrow) + 1 /\ Len(dispute') = Len(escrow')
      /\ Len(paid') = Len(escrow')
  BY <1>0, <1>2, <1>4
<1>7. ASSUME NEW e \in 1 .. Len(escrow') PROVE EscrowSound(escrow'[e], paid'[e], dispute'[e])
  <2>1. CASE e \in Escrows
    <3>1. escrow'[e] = escrow[e] /\ paid'[e] = paid[e] /\ dispute'[e] = dispute[e]
      BY <1>0, <1>2, <1>4, <2>1 DEF Escrows
    <3> QED
      BY <1>0, <2>1, <3>1
  <2>2. CASE e = Len(escrow) + 1
    <3>1. escrow'[e] = d /\ paid'[e] = w /\ dispute'[e] = r
      BY <1>0, <1>2, <1>4, <2>2
    <3> QED
      BY <1>3, <3>1
  <2> QED
    BY <1>0, <1>6, <2>1, <2>2 DEF Escrows
<1> QED
  BY <1>0, <1>4, <1>5, <1>6, <1>7, EscrowRows

\* A step that touches the rows of one deposit, or none.
LEMMA OneDeposit ==
  ASSUME EscrowInv, UNCHANGED <<now, board, feeBps, frozen, fees>>, NEW e \in Escrows,
         NEW d \in EscrowDeposit, NEW w \in PaidRow, NEW r \in DisputeResolution,
         escrow' = [escrow EXCEPT ![e] = d], paid' = [paid EXCEPT ![e] = w],
         dispute' = [dispute EXCEPT ![e] = r],
         EscrowSound(d, w, r)
  PROVE  EscrowInv'
<1>0. /\ escrow \in Seq(EscrowDeposit) /\ dispute \in Seq(DisputeResolution)
      /\ paid \in Seq(PaidRow) /\ e \in 1 .. Len(escrow)
      /\ Len(dispute) = Len(escrow) /\ Len(paid) = Len(escrow)
      /\ \A i \in 1 .. Len(escrow) : EscrowSound(escrow[i], paid[i], dispute[i])
  BY DEF EscrowInv, EscrowTypeOK, PaidRow, Escrows
<1>1. /\ escrow' \in Seq(EscrowDeposit) /\ dispute' \in Seq(DisputeResolution)
      /\ paid' \in Seq(PaidRow) /\ Len(escrow') = Len(escrow)
      /\ Len(dispute') = Len(escrow') /\ Len(paid') = Len(escrow')
  BY <1>0
<1>2. ASSUME NEW i \in 1 .. Len(escrow')
      PROVE  EscrowSound(escrow'[i], paid'[i], dispute'[i])
  <2>1. CASE i = e
    <3>1. escrow'[i] = d /\ paid'[i] = w /\ dispute'[i] = r
      BY <1>0, <2>1
    <3> QED
      BY <3>1
  <2>2. CASE i # e
    <3>1. i \in 1 .. Len(escrow) /\ escrow'[i] = escrow[i] /\ paid'[i] = paid[i]
          /\ dispute'[i] = dispute[i]
      BY <1>0, <1>1, <2>2
    <3> QED
      BY <1>0, <3>1
  <2> QED
    BY <2>1, <2>2
<1>3. now' \in Nat /\ board' \in Board /\ feeBps' \in FeeBps /\ frozen' \in BOOLEAN
      /\ fees' \in [accrued : Nat, collected : Nat]
  BY DEF EscrowInv, EscrowTypeOK
<1> QED
  BY <1>1, <1>2, <1>3, EscrowRows

LEMMA RowTypes ==
  ASSUME EscrowInv, NEW e \in Escrows
  PROVE  /\ escrow[e] \in EscrowDeposit /\ paid[e] \in PaidRow
         /\ dispute[e] \in DisputeResolution
         /\ EscrowSound(escrow[e], paid[e], dispute[e])
         /\ escrow = [escrow EXCEPT ![e] = escrow[e]] /\ paid = [paid EXCEPT ![e] = paid[e]]
         /\ dispute = [dispute EXCEPT ![e] = dispute[e]]
<1>1. /\ escrow \in Seq(EscrowDeposit) /\ dispute \in Seq(DisputeResolution)
      /\ paid \in Seq(PaidRow) /\ e \in 1 .. Len(escrow)
      /\ Len(dispute) = Len(escrow) /\ Len(paid) = Len(escrow)
      /\ EscrowSound(escrow[e], paid[e], dispute[e])
  BY DEF EscrowInv, EscrowTypeOK, PaidRow, Escrows
<1> QED
  BY <1>1

\* An approval decides nothing before there are as many as the first one asked.
LEMMA ApprovedRow ==
  ASSUME NEW r \in DisputeResolution, r.by # {} => r.required > 0,
         board.threshold \in Nat \ {0}, NEW b \in Account, NEW allowed \in BOOLEAN
  PROVE  LET r2 == Approved(r, b, allowed) IN
         /\ r2 \in DisputeResolution /\ r2.challenged = r.challenged
         /\ r2.by # {} /\ r2.required > 0 /\ r2.release = allowed
         /\ r2.resolved = (Cardinality(r2.by) >= r2.required)
<1> DEFINE required == IF r.by = {} THEN board.threshold ELSE r.required
           by == r.by \cup {b}
           enough == Cardinality(by) >= required
<1>1. required \in Nat /\ required > 0 /\ by \in SUBSET Account /\ by # {}
      /\ enough \in BOOLEAN /\ enough = (Cardinality(by) >= required)
  BY DEF DisputeResolution
<1>2. Approved(r, b, allowed) =
        [r EXCEPT !.by = by, !.release = allowed, !.required = required, !.resolved = enough]
  BY DEF Approved
<1> HIDE DEF required, by, enough
<1> QED
  BY <1>1, <1>2 DEF DisputeResolution

\* Money leaves a deposit: x released, recovered or refunded.
LEMMA PaymentRow ==
  ASSUME NEW d \in EscrowDeposit, NEW w \in PaidRow, NEW r \in DisputeResolution,
         EscrowSound(d, w, r), NEW x \in Nat, NEW s \in {d.status, "Released"}
  PROVE  LET d2 == [d EXCEPT !.released = @ + x, !.status = s]
             left == d.amount - d.fee - d.released IN
         /\ d2 \in EscrowDeposit
         /\ [w EXCEPT !.release = @ + x] \in PaidRow
         /\ [w EXCEPT !.recovery = @ + x] \in PaidRow
         /\ x = 0 /\ s = d.status => EscrowSound(d2, [w EXCEPT !.release = @ + x], r)
         /\ d.status = "Pending" /\ x <= left => EscrowSound(d2, [w EXCEPT !.release = @ + x], r)
         /\ 0 < x /\ x <= d.amount - d.released =>
              EscrowSound(d2, [w EXCEPT !.recovery = @ + x], r)
         /\ d.status \in {"Pending", "Challenged"} /\ left > 0
              /\ (d.status = "Challenged" => r.resolved /\ ~ r.release)
              /\ (d.status = "Pending" => ~ d.verified) =>
              /\ [d EXCEPT !.status = "Refunded"] \in EscrowDeposit
              /\ [w EXCEPT !.refund = @ + left] \in PaidRow
              /\ EscrowSound([d EXCEPT !.status = "Refunded"], [w EXCEPT !.refund = @ + left], r)
<1>1. /\ d.amount \in Nat /\ d.fee \in Nat /\ d.released \in Nat
      /\ w.release \in Nat /\ w.refund \in Nat /\ w.recovery \in Nat
      /\ d.status \in {"Pending", "Challenged", "Released", "Refunded"}
  BY DEF EscrowDeposit, PaidRow
<1> DEFINE d2 == [d EXCEPT !.released = @ + x, !.status = s]
           left == d.amount - d.fee - d.released
           w1 == [w EXCEPT !.release = @ + x]
           w2 == [w EXCEPT !.recovery = @ + x]
           d3 == [d EXCEPT !.status = "Refunded"]
           w3 == [w EXCEPT !.refund = @ + left]
<1>2. d2 \in EscrowDeposit /\ d3 \in EscrowDeposit /\ w1 \in PaidRow /\ w2 \in PaidRow
  <2>1. d.released + x \in Nat /\ w.release + x \in Nat /\ w.recovery + x \in Nat
        /\ s \in {"Pending", "Challenged", "Released", "Refunded"}
    BY <1>1
  <2>2. d2 \in EscrowDeposit
    BY <2>1 DEF EscrowDeposit
  <2>3. d3 \in EscrowDeposit
    BY DEF EscrowDeposit
  <2>4. w1 \in PaidRow /\ w2 \in PaidRow
    BY <2>1 DEF PaidRow
  <2> QED
    BY <2>2, <2>3, <2>4
<1>3. left > 0 => w3 \in PaidRow
  BY <1>1 DEF PaidRow
<1>4. /\ d2.amount = d.amount /\ d2.fee = d.fee /\ d2.released = d.released + x
      /\ d2.status = s /\ d2.verified = d.verified
      /\ w1.release = w.release + x /\ w1.refund = w.refund /\ w1.recovery = w.recovery
      /\ w2.release = w.release /\ w2.refund = w.refund /\ w2.recovery = w.recovery + x
  BY DEF EscrowDeposit, PaidRow
<1>5. /\ d3.amount = d.amount /\ d3.fee = d.fee /\ d3.released = d.released
      /\ d3.status = "Refunded" /\ d3.verified = d.verified
      /\ w3.release = w.release /\ w3.refund = w.refund + left /\ w3.recovery = w.recovery
  BY DEF EscrowDeposit, PaidRow
<1> HIDE DEF d2, d3, w1, w2, w3
<1>6. x = 0 /\ s = d.status => EscrowSound(d2, w1, r)
  BY <1>1, <1>4 DEF EscrowSound
<1>7. d.status = "Pending" /\ x <= left => EscrowSound(d2, w1, r)
  BY <1>1, <1>4 DEF EscrowSound
<1>8. 0 < x /\ x <= d.amount - d.released => EscrowSound(d2, w2, r)
  BY <1>1, <1>4 DEF EscrowSound
<1>9. d.status \in {"Pending", "Challenged"} /\ left > 0
        /\ (d.status = "Challenged" => r.resolved /\ ~ r.release)
        /\ (d.status = "Pending" => ~ d.verified) => EscrowSound(d3, w3, r)
  BY <1>1, <1>5 DEF EscrowSound
<1> QED
  BY <1>2, <1>3, <1>6, <1>7, <1>8, <1>9 DEF d2, d3, w1, w2, w3

LEMMA EscrowInvStep == EscrowInv /\ [EscrowNext]_<<now, escrowVars>> => EscrowInv'
<1> SUFFICES ASSUME EscrowInv, [EscrowNext]_<<now, escrowVars>> PROVE EscrowInv'
  OBVIOUS
<1> USE DEF Escrows
<1>1. CASE CloseLedger /\ UNCHANGED escrowVars
  BY <1>1 DEF CloseLedger, escrowVars, EscrowInv, EscrowTypeOK
<1>2. CASE UNCHANGED <<now, escrowVars>>
  BY <1>2 DEF escrowVars, EscrowInv, EscrowTypeOK
<1>3. CASE EscrowStep /\ UNCHANGED now
  <2> USE <1>3
  <2>1. CASE Configure
    BY <2>1 DEF Configure, EscrowInv, EscrowTypeOK
  <2>2. CASE \E a \in Deposit, s \in LockSecs : CreateEscrow(a, s)
    BY <2>2, CreateKeeps
  <2>3. ASSUME NEW e \in Escrows, NEW v \in BOOLEAN, SyncVerification(e, v) PROVE EscrowInv'
    <3>r. /\ escrow[e] \in EscrowDeposit /\ paid[e] \in PaidRow
          /\ dispute[e] \in DisputeResolution
          /\ EscrowSound(escrow[e], paid[e], dispute[e])
      BY RowTypes
    <3> DEFINE d == [escrow[e] EXCEPT !.verified = v]
    <3>1. d \in EscrowDeposit
      BY <3>r DEF EscrowDeposit
    <3>2. EscrowSound(d, paid[e], dispute[e])
      BY <2>3, <3>r DEF SyncVerification, Closed, EscrowDeposit, PaidRow, EscrowSound
    <3>3. escrow' = [escrow EXCEPT ![e] = d] /\ UNCHANGED <<board, feeBps, frozen, dispute, paid, fees>>
      BY <2>3 DEF SyncVerification
    <3> HIDE DEF d
    <3> QED
      BY <3>1, <3>2, <3>3, RowTypes, OneDeposit
  <2>4. ASSUME NEW e \in Escrows, ChallengeEscrow(e) PROVE EscrowInv'
    <3>r. /\ escrow[e] \in EscrowDeposit /\ paid[e] \in PaidRow
          /\ dispute[e] \in DisputeResolution
          /\ EscrowSound(escrow[e], paid[e], dispute[e])
      BY RowTypes
    <3> DEFINE d == [escrow[e] EXCEPT !.status = "Challenged"]
               r == [dispute[e] EXCEPT !.challenged = TRUE]
    <3>1. d \in EscrowDeposit /\ r \in DisputeResolution
      BY <3>r DEF EscrowDeposit, DisputeResolution
    <3>2. EscrowSound(d, paid[e], r)
      BY <2>4, <3>r DEF ChallengeEscrow, EscrowDeposit, DisputeResolution, PaidRow, EscrowSound
    <3>3. /\ escrow' = [escrow EXCEPT ![e] = d] /\ dispute' = [dispute EXCEPT ![e] = r]
          /\ UNCHANGED <<board, feeBps, frozen, paid, fees>>
      BY <2>4 DEF ChallengeEscrow
    <3> HIDE DEF d, r
    <3> QED
      BY <3>1, <3>2, <3>3, RowTypes, OneDeposit
  <2>5. ASSUME NEW e \in Escrows, NEW b \in Account, NEW allowed \in BOOLEAN,
               ResolveChallenge(b, e, allowed)
        PROVE  EscrowInv'
    <3>r. /\ escrow[e] \in EscrowDeposit /\ paid[e] \in PaidRow
          /\ dispute[e] \in DisputeResolution
          /\ EscrowSound(escrow[e], paid[e], dispute[e])
      BY RowTypes
    <3> DEFINE r == Approved(dispute[e], b, allowed)
               d == IF r.resolved /\ allowed THEN [escrow[e] EXCEPT !.status = "Pending"]
                    ELSE escrow[e]
    <3>0. board.threshold \in Nat \ {0}
      BY EscrowAssumption DEF EscrowInv, EscrowTypeOK
    <3>1. /\ r \in DisputeResolution /\ r.challenged = dispute[e].challenged
          /\ r.by # {} /\ r.required > 0 /\ r.release = allowed
          /\ r.resolved = (Cardinality(r.by) >= r.required)
      BY <3>0, <3>r, ApprovedRow DEF EscrowSound
    <3>2. escrow[e].status = "Challenged"
      BY <2>5 DEF ResolveChallenge
    <3>3. /\ escrow' = [escrow EXCEPT ![e] = d] /\ dispute' = [dispute EXCEPT ![e] = r]
          /\ UNCHANGED <<board, feeBps, frozen, paid, fees>>
      <4>1. escrow = [escrow EXCEPT ![e] = escrow[e]]
        BY RowTypes
      <4>2. r.resolved /\ allowed =>
              [escrow EXCEPT ![e].status = "Pending"]
                = [escrow EXCEPT ![e] = [escrow[e] EXCEPT !.status = "Pending"]]
        OBVIOUS
      <4> QED
        BY <2>5, <4>1 DEF ResolveChallenge
    <3> HIDE DEF r
    <3>4. d \in EscrowDeposit /\ EscrowSound(d, paid[e], r)
      BY <3>1, <3>2, <3>r DEF EscrowDeposit, DisputeResolution, PaidRow, EscrowSound
    <3> HIDE DEF d
    <3> QED
      BY <3>1, <3>3, <3>4, RowTypes, OneDeposit
  <2>6. ASSUME NEW e \in Escrows, RefundEscrow(e) PROVE EscrowInv'
    <3>r. /\ escrow[e] \in EscrowDeposit /\ paid[e] \in PaidRow
          /\ dispute[e] \in DisputeResolution
          /\ EscrowSound(escrow[e], paid[e], dispute[e])
      BY RowTypes
    <3> DEFINE d == [escrow[e] EXCEPT !.status = "Refunded"]
               w == [paid[e] EXCEPT !.refund = @ + Remaining(e)]
    <3>1. escrow[e].status \in {"Pending", "Challenged"} /\ Remaining(e) > 0
          /\ (escrow[e].status = "Challenged" => dispute[e].resolved /\ ~ dispute[e].release)
          /\ (escrow[e].status = "Pending" => ~ escrow[e].verified)
      BY <2>6 DEF RefundEscrow, Refundable
    <3>2. d \in EscrowDeposit /\ w \in PaidRow /\ EscrowSound(d, w, dispute[e])
      BY <3>1, <3>r, PaymentRow DEF Remaining
    <3>4. /\ escrow' = [escrow EXCEPT ![e] = d] /\ paid' = [paid EXCEPT ![e] = w]
          /\ UNCHANGED <<board, feeBps, frozen, dispute, fees>>
      BY <2>6 DEF RefundEscrow
    <3> HIDE DEF d, w
    <3> QED
      BY <3>2, <3>4, RowTypes, OneDeposit
  <2>7. ASSUME NEW e \in Escrows, NEW s \in LockSecs, ExtendLock(e, s) PROVE EscrowInv'
    <3>r. /\ escrow[e] \in EscrowDeposit /\ paid[e] \in PaidRow
          /\ dispute[e] \in DisputeResolution
          /\ EscrowSound(escrow[e], paid[e], dispute[e])
      BY RowTypes
    <3> DEFINE d == [escrow[e] EXCEPT !.lock = @ + s]
    <3>1. d \in EscrowDeposit /\ EscrowSound(d, paid[e], dispute[e])
      <4>1. escrow[e].lock + s \in Nat
        BY EscrowAssumption, <3>r DEF EscrowDeposit
      <4>2. d \in EscrowDeposit
        BY <4>1, <3>r DEF EscrowDeposit
      <4>3. /\ d.amount = escrow[e].amount /\ d.fee = escrow[e].fee
            /\ d.released = escrow[e].released /\ d.verified = escrow[e].verified
            /\ d.status = escrow[e].status
        BY <3>r DEF EscrowDeposit
      <4> HIDE DEF d
      <4> QED
        BY <4>2, <4>3, <3>r DEF EscrowSound
    <3>2. escrow' = [escrow EXCEPT ![e] = d] /\ UNCHANGED <<board, feeBps, frozen, dispute, paid, fees>>
      BY <2>7 DEF ExtendLock
    <3> HIDE DEF d
    <3> QED
      BY <3>1, <3>2, RowTypes, OneDeposit
  <2>8. ASSUME NEW e \in Escrows, NEW a \in 1 .. MaxDeposit, EmergencyRecover(e, a)
        PROVE  EscrowInv'
    <3>r. /\ escrow[e] \in EscrowDeposit /\ paid[e] \in PaidRow
          /\ dispute[e] \in DisputeResolution
          /\ EscrowSound(escrow[e], paid[e], dispute[e])
      BY RowTypes
    <3> DEFINE d == [escrow[e] EXCEPT !.released = @ + a,
                       !.status = IF a >= Remaining(e) THEN "Released" ELSE @]
               w == [paid[e] EXCEPT !.recovery = @ + a]
    <3>1. a \in Nat /\ a > 0 /\ a <= escrow[e].amount - escrow[e].released
      BY <2>8 DEF EmergencyRecover
    <3> DEFINE s == IF a >= Remaining(e) THEN "Released" ELSE escrow[e].status
    <3>2. d \in EscrowDeposit /\ w \in PaidRow /\ EscrowSound(d, w, dispute[e])
      <4>1. s \in {escrow[e].status, "Released"} /\ d = [escrow[e] EXCEPT !.released = @ + a, !.status = s]
        OBVIOUS
      <4> HIDE DEF s, d
      <4> QED
        BY <3>1, <3>r, <4>1, PaymentRow
    <3>4. /\ escrow' = [escrow EXCEPT ![e] = d] /\ paid' = [paid EXCEPT ![e] = w]
          /\ UNCHANGED <<board, feeBps, frozen, dispute, fees>>
      BY <2>8 DEF EmergencyRecover
    <3> HIDE DEF d, w
    <3> QED
      BY <3>2, <3>4, RowTypes, OneDeposit
  <2>9. ASSUME NEW times \in [Escrows -> 0 .. 2], NEW a \in 1 .. MaxDeposit,
               BatchRelease(times, a)
        PROVE  EscrowInv'
    <3> DEFINE d(e) == [escrow[e] EXCEPT !.released = @ + times[e] * a,
                  !.status = IF times[e] > 0 /\ times[e] * a = Remaining(e)
                             THEN "Released" ELSE @]
               w(e) == [paid[e] EXCEPT !.release = @ + times[e] * a]
    <3>1. /\ escrow' = [e \in Escrows |-> d(e)] /\ paid' = [e \in Escrows |-> w(e)]
          /\ UNCHANGED <<board, feeBps, frozen, dispute, fees>>
      BY <2>9 DEF BatchRelease
    <3>2. ASSUME NEW e \in Escrows
          PROVE  /\ d(e) \in EscrowDeposit /\ w(e) \in PaidRow
                 /\ EscrowSound(d(e), w(e), dispute[e])
      <4>r. /\ escrow[e] \in EscrowDeposit /\ paid[e] \in PaidRow
            /\ dispute[e] \in DisputeResolution
            /\ EscrowSound(escrow[e], paid[e], dispute[e])
        BY RowTypes
      <4> DEFINE x == times[e] * a
      <4>1. times[e] \in Nat /\ x \in Nat /\ (times[e] = 0 => x = 0)
        OBVIOUS
      <4>2. times[e] > 0 => escrow[e].status = "Pending" /\ x <= Remaining(e)
        BY <2>9 DEF BatchRelease, Releasable
      <4> DEFINE s == IF times[e] > 0 /\ x = Remaining(e) THEN "Released" ELSE escrow[e].status
                 d1 == [escrow[e] EXCEPT !.released = @ + x, !.status = s]
                 w1 == [paid[e] EXCEPT !.release = @ + x]
      <4>3. d(e) = d1 /\ w(e) = w1
        BY DEF x
      <4>4. s \in {escrow[e].status, "Released"} /\ (times[e] = 0 => s = escrow[e].status)
        OBVIOUS
      <4> HIDE DEF s, d, w
      <4>5. \/ x = 0 /\ s = escrow[e].status
            \/ escrow[e].status = "Pending"
               /\ x <= escrow[e].amount - escrow[e].fee - escrow[e].released
        BY <4>1, <4>2, <4>4 DEF Remaining
      <4>6. d1 \in EscrowDeposit /\ w1 \in PaidRow /\ EscrowSound(d1, w1, dispute[e])
        BY <4>1, <4>4, <4>5, <4>r, PaymentRow
      <4> HIDE DEF d1, w1
      <4> QED
        BY <4>3, <4>6
    <3> HIDE DEF d, w
    <3>3. Len(escrow) \in Nat /\ Len(dispute) = Len(escrow)
      BY DEF EscrowInv, EscrowTypeOK
    <3>4. /\ escrow' \in Seq(EscrowDeposit) /\ paid' \in Seq(PaidRow)
          /\ Len(escrow') = Len(escrow) /\ Len(paid') = Len(escrow)
      BY <3>1, <3>2, <3>3
    <3> QED
      BY <3>1, <3>2, <3>3, <3>4, EscrowRows DEF EscrowInv, EscrowTypeOK
  <2>10. ASSUME NEW a \in 1 .. MaxDeposit, CollectFees(a) PROVE EscrowInv'
    BY <2>10 DEF CollectFees, EscrowInv, EscrowTypeOK
  <2> QED
    BY <2>1, <2>2, <2>3, <2>4, <2>5, <2>6, <2>7, <2>8, <2>9, <2>10 DEF EscrowStep
<1> QED
  BY <1>1, <1>2, <1>3 DEF EscrowNext

LEMMA SoundEscrows == EscrowInv => EscrowTypeOK /\ EscrowSolvent /\ DisputeDecides
<1> SUFFICES ASSUME EscrowInv PROVE EscrowSolvent /\ DisputeDecides
  BY DEF EscrowInv
<1>1. ASSUME NEW e \in Escrows
      PROVE  /\ escrow[e] \in EscrowDeposit /\ paid[e] \in PaidRow
             /\ dispute[e] \in DisputeResolution
             /\ EscrowSound(escrow[e], paid[e], dispute[e])
  BY RowTypes
<1>2. EscrowSolvent
  BY <1>1 DEF EscrowSolvent, EscrowSound, EscrowDeposit, PaidRow
<1>3. DisputeDecides
  BY <1>1 DEF DisputeDecides, EscrowSound, EscrowDeposit, PaidRow
<1> QED
  BY <1>2, <1>3

(* Releases, batches, disputes and refunds pay no more than a deposit less *)
(* its fee; with an emergency recovery, which asks for neither, a deposit  *)
(* pays at most twice.                                                     *)
THEOREM EscrowPaysOnce == EscrowSpec => []EscrowSolvent
  BY EscrowInvInit, EscrowInvStep, SoundEscrows, PTL DEF EscrowSpec

(* A challenged deposit is open again, or refunded, only once enough       *)
(* approvers decided; after a decision for the release, it is refunded     *)
(* only while it is not verified.                                          *)
THEOREM DisputesDecide == EscrowSpec => []DisputeDecides
  BY EscrowInvInit, EscrowInvStep, SoundEscrows, PTL DEF EscrowSpec

-----------------------------------------------------------------------------
(* Voting power and proposals, for any accounts, powers and rules. Power   *)
(* is where it was delegated to, and a proposal that has passed was        *)
(* lawfully voted for.                                                     *)

(* Every natural number has an integer square root.                        *)
LEMMA IsqrtIsNatural ==
  ASSUME NEW n \in Nat PROVE Isqrt(n) \in Nat
<1> DEFINE T == {m \in Nat : \E r \in 0 .. m : r * r <= m /\ m < (r + 1) * (r + 1)}
<1>1. 0 \in T
  OBVIOUS
<1>2. ASSUME NEW m \in Nat, m \in T PROVE m + 1 \in T
  <2>1. PICK r \in 0 .. m : r * r <= m /\ m < (r + 1) * (r + 1)
    BY <1>2
  <2>2. r \in Nat /\ r <= m
    OBVIOUS
  <2>3. CASE m + 1 < (r + 1) * (r + 1)
    <3>1. r \in 0 .. m + 1 /\ r * r <= m + 1
      BY <2>1, <2>2
    <3> QED
      BY <2>3, <3>1
  <2>4. CASE ~ (m + 1 < (r + 1) * (r + 1))
    <3> DEFINE s == r + 1
    <3>0. s \in Nat /\ s * s \in Nat /\ (s + 1) * (s + 1) = s * s + 2 * s + 1
      BY <2>2
    <3>1. s * s <= m + 1 /\ m < s * s
      BY <2>1, <2>4, <3>0
    <3>2. m + 1 < (s + 1) * (s + 1)
      BY <3>0, <3>1
    <3>3. s \in 0 .. m + 1
      BY <2>2
    <3> HIDE DEF s
    <3> QED
      BY <3>1, <3>2, <3>3
  <2> QED
    BY <2>3, <2>4
<1> HIDE DEF T
<1>3. n \in T
  BY <1>1, <1>2, NaturalsBySteps
<1>4. \E r \in 0 .. n : r * r <= n /\ n < (r + 1) * (r + 1)
  BY <1>3 DEF T
<1>5. Isqrt(n) \in 0 .. n
  BY <1>4 DEF Isqrt
<1> QED
  BY <1>5

GovernanceRow ==
  [emergency : BOOLEAN, status : ProposalStatus, votes : [Choice -> Nat],
   start : Nat, end : Nat, after : Nat, executed : Nat]

BallotRow == [Account -> [choice : Choice, votes : Nat]]

Delegators(a) == {v \in Account \ {a} : delegate[v] = a}

\* What the accounts hold and have delegated.
PowerInv ==
  /\ power \in [Account -> Nat] /\ supply \in Nat /\ shifted \in BOOLEAN
  /\ delegate \in [Account -> Account] /\ received \in [Account -> Nat]
  /\ supply = Total(power, Account)
  /\ ~ shifted => \A a \in Account : received[a] = Total(power, Delegators(a))

\* Enough of the votes cast were in favour.
Won(votes) == votes["For"] > 0 /\ \E r \in Rules : ThresholdMet(votes, r.pass)

\* Where a proposal is says what has happened to it.
Lawful(d, time) ==
  /\ d.status \notin {"Pending", "Cancelled"} => d.start <= time
  /\ d.status \in {"Passed", "Queued"} => d.end < time /\ Won(d.votes)
  /\ d.status = "Queued" => d.end < d.after
  /\ d.status = "Executed" =>
       IF d.emergency THEN d.executed >= d.start
       ELSE d.end < d.after /\ d.after <= d.executed /\ Won(d.votes)

\* What the ballots say for a choice.
Count(b, c) == Total([v \in Account |-> b[v].votes], {v \in Account : b[v].choice = c})

Tallied(d, b) == \A c \in Choice : d.votes[c] = Count(b, c)

ProposalInv ==
  /\ now \in Nat /\ rules \in Rules
  /\ proposal \in Seq(GovernanceRow) /\ ballot \in Seq(BallotRow) /\ Len(ballot) = Len(proposal)
  /\ \A p \in Proposals : Lawful(proposal[p], now) /\ Tallied(proposal[p], ballot[p])

\* Nobody holds or has delegated anything.
LEMMA PowerInvInit == GovernanceInit => PowerInv
<1> SUFFICES ASSUME GovernanceInit PROVE PowerInv
  OBVIOUS
<1>1. /\ power = [a \in Account |-> 0] /\ supply = 0 /\ shifted = FALSE
      /\ delegate = [a \in Account |-> a] /\ received = [a \in Account |-> 0]
  BY DEF GovernanceInit
<1>2. IsFiniteSet(Account)
  BY GovernanceAssumption
<1>3. Total(power, Account) = 0
  BY <1>1, <1>2, TotalZero
<1>4. \A a \in Account : Delegators(a) = {}
  BY <1>1 DEF Delegators
<1>5. \A a \in Account : Total(power, Delegators(a)) = 0
  BY <1>4, TotalEmpty
<1> QED
  BY <1>1, <1>3, <1>5 DEF PowerInv

\* Those who delegate to an account can be counted.
LEMMA DelegatorsAreFinite ==
  ASSUME NEW a \in Account, power \in [Account -> Nat]
  PROVE  /\ IsFiniteSet(Delegators(a)) /\ Delegators(a) \subseteq Account /\ a \notin Delegators(a)
         /\ \A v \in Delegators(a) : power[v] \in Nat /\ power[v] \in Int
<1>1. Delegators(a) \subseteq Account
  BY DEF Delegators
<1> QED
  BY <1>1, GovernanceAssumption, FS_Subset DEF Delegators

\* Registering power: nobody who has delegated, or the history says so.
LEMMA RegistrationKeeps ==
  ASSUME PowerInv, NEW v \in Account, NEW n \in Power, SetVotingPower(v, n)
  PROVE  PowerInv'
<1>1. /\ power \in [Account -> Nat] /\ supply \in Nat /\ n \in Nat /\ IsFiniteSet(Account)
      /\ supply = Total(power, Account) /\ delegate \in [Account -> Account]
  BY GovernanceAssumption DEF PowerInv
<1>2. /\ power' = [power EXCEPT ![v] = n] /\ supply' = supply - power[v] + n
      /\ shifted' = (shifted \/ delegate[v] # v) /\ UNCHANGED <<delegate, received>>
  BY DEF SetVotingPower
<1>3. power' \in [Account -> Nat] /\ power'[v] = n /\ \A a \in Account : a # v => power'[a] = power[a]
  BY <1>1, <1>2
<1>4. /\ \A a \in Account : power[a] \in Int /\ power'[a] \in Nat /\ power'[a] \in Int
  BY <1>1, <1>3
<1>5. Total(power', Account) = Total(power, Account) - power[v] + power'[v]
  BY <1>1, <1>3, <1>4, TotalChange
<1>6. supply' = Total(power', Account)
  BY <1>1, <1>2, <1>3, <1>5
<1>7. supply' \in Nat
  BY <1>1, <1>4, <1>6, TotalNat
<1>8. ASSUME ~ shifted', NEW a \in Account PROVE received'[a] = Total(power', Delegators(a)')
  <2>1. ~ shifted /\ delegate[v] = v
    BY <1>2, <1>8 DEF PowerInv
  <2>2. Delegators(a)' = Delegators(a)
    BY <1>2 DEF Delegators
  <2>3. \A w \in Delegators(a) : w # v
    BY <2>1 DEF Delegators
  <2>4. IsFiniteSet(Delegators(a)) /\ \A w \in Delegators(a) : power[w] \in Int /\ power[w] = power'[w]
    BY <1>1, <1>3, <2>3, DelegatorsAreFinite
  <2>5. Total(power, Delegators(a)) = Total(power', Delegators(a))
    BY <2>4, TotalEqual
  <2> QED
    BY <1>2, <2>1, <2>2, <2>5 DEF PowerInv
<1>9. (~ shifted => \A a \in Account : received[a] = Total(power, Delegators(a)))'
  BY <1>8
<1>10. shifted' \in BOOLEAN /\ delegate' \in [Account -> Account] /\ received' \in [Account -> Nat]
  BY <1>2 DEF PowerInv
<1> QED
  BY <1>3, <1>6, <1>7, <1>9, <1>10 DEF PowerInv

\* Taking a delegation back never asks for more than was received.
LEMMA ReclaimedIs ==
  ASSUME PowerInv, NEW v \in Account
  PROVE  /\ Reclaimed(v) \in [Account -> Nat]
         /\ \A a \in Account : a # delegate[v] \/ a = v => Reclaimed(v)[a] = received[a]
         /\ ~ shifted /\ delegate[v] # v =>
              Reclaimed(v)[delegate[v]] = received[delegate[v]] - power[v]
<1>1. /\ power \in [Account -> Nat] /\ received \in [Account -> Nat]
      /\ delegate[v] \in Account
  BY DEF PowerInv
<1> DEFINE d == delegate[v]
           r == IF received[d] > power[v] THEN received[d] - power[v] ELSE 0
<1>2. r \in Nat
  BY <1>1
<1>3. Reclaimed(v) = IF d = v THEN received ELSE [received EXCEPT ![d] = r]
  BY Zenon DEF Reclaimed
<1>4. ASSUME ~ shifted, d # v PROVE r = received[d] - power[v]
  <2>1. v \in Delegators(d) /\ received[d] = Total(power, Delegators(d))
    BY <1>1, <1>4 DEF Delegators, PowerInv
  <2>2. power[v] <= Total(power, Delegators(d))
    BY <1>1, <2>1, DelegatorsAreFinite, TotalNat
  <2> QED
    BY <1>1, <2>1, <2>2
<1> HIDE DEF r
<1> QED
  BY <1>1, <1>2, <1>3, <1>4

\* A delegation moves its power from one account to the other.
LEMMA DelegationKeeps ==
  ASSUME PowerInv, NEW v \in Account, NEW to \in Account, DelegateVotes(v, to)
  PROVE  PowerInv'
<1> DEFINE old == delegate[v]
           left == Reclaimed(v)
<1>1. /\ power \in [Account -> Nat] /\ received \in [Account -> Nat]
      /\ delegate \in [Account -> Account] /\ old \in Account /\ power[v] \in Nat
  BY DEF PowerInv
<1>2. /\ UNCHANGED <<power, supply, shifted>>
      /\ delegate' = [delegate EXCEPT ![v] = to]
      /\ received' = IF to = v THEN left ELSE [left EXCEPT ![to] = left[to] + power[v]]
  BY DEF DelegateVotes
<1>3. /\ left \in [Account -> Nat]
      /\ \A a \in Account : a # old \/ a = v => left[a] = received[a]
      /\ ~ shifted /\ old # v => left[old] = received[old] - power[v]
  BY ReclaimedIs
<1> HIDE DEF left
<1>o. PICK o \in Account : o = old
  BY <1>1
<1>4. received' \in [Account -> Nat]
  <2>1. left[to] + power[v] \in Nat
    BY <1>1, <1>3
  <2> DEFINE sum == left[to] + power[v]
  <2>2. [left EXCEPT ![to] = sum] \in [Account -> Nat]
    <3> HIDE DEF sum
    <3> QED
      BY <1>3, <2>1 DEF sum
  <2>3. received' = left \/ received' = [left EXCEPT ![to] = sum]
    BY <1>2
  <2> HIDE DEF sum
  <2> QED
    BY <1>3, <2>2, <2>3
<1>5. delegate' \in [Account -> Account]
  BY <1>1, <1>2
<1>6. \A a \in Account : received'[a] = IF a = to /\ to # v THEN left[a] + power[v] ELSE left[a]
  BY <1>2, <1>3
<1>7. ASSUME ~ shifted, NEW a \in Account PROVE received'[a] = Total(power, Delegators(a)')
  <2>0. received[a] = Total(power, Delegators(a)) /\ received[a] \in Nat
    BY <1>1, <1>7 DEF PowerInv
  <2>1. CASE a = v \/ (a # o /\ a # to) \/ (a = o /\ a = to)
    <3>1. Delegators(a)' = Delegators(a)
      BY <1>1, <1>2, <1>o, <2>1 DEF Delegators
    <3>2. received'[a] = received[a]
      BY <1>1, <1>3, <1>6, <1>7, <1>o, <2>0, <2>1
    <3> QED
      BY <2>0, <3>1, <3>2
  <2>2. CASE a # v /\ a = o /\ a # to
    <3>1. Delegators(a)' = Delegators(a) \ {v} /\ v \in Delegators(a)
      BY <1>1, <1>2, <1>o, <2>2 DEF Delegators
    <3>2. received'[a] = received[a] - power[v]
      BY <1>3, <1>6, <1>7, <1>o, <2>2
    <3>3. Total(power, Delegators(a) \ {v}) = Total(power, Delegators(a)) - power[v]
      BY <1>1, <3>1, DelegatorsAreFinite, TotalDrop
    <3> QED
      BY <2>0, <3>1, <3>2, <3>3
  <2>3. CASE a # v /\ a # o /\ a = to
    <3>1. Delegators(a)' = Delegators(a) \cup {v} /\ v \notin Delegators(a)
      BY <1>1, <1>2, <1>o, <2>3 DEF Delegators
    <3>2. received'[a] = received[a] + power[v]
      BY <1>3, <1>6, <1>o, <2>3
    <3>3. Total(power, Delegators(a) \cup {v}) = power[v] + Total(power, Delegators(a))
      BY <1>1, <3>1, DelegatorsAreFinite, TotalAdd
    <3> QED
      BY <1>1, <2>0, <3>1, <3>2, <3>3
  <2> QED
    BY <2>1, <2>2, <2>3
<1>8. (~ shifted => \A a \in Account : received[a] = Total(power, Delegators(a)))'
  BY <1>2, <1>7
<1> QED
  BY <1>2, <1>4, <1>5, <1>8 DEF PowerInv

\* What is registered and delegated stays in balance.
LEMMA PowerInvStep == PowerInv /\ [GovernanceNext]_<<now, governanceVars>> => PowerInv'
<1> SUFFICES ASSUME PowerInv, [GovernanceNext]_<<now, governanceVars>> PROVE PowerInv'
  OBVIOUS
<1>1. UNCHANGED <<power, supply, delegate, received, shifted>> => PowerInv'
  BY DEF PowerInv, Delegators
<1>2. CASE UNCHANGED governanceVars
  BY <1>1, <1>2 DEF governanceVars
<1>3. CASE GovernanceStep
  <2>1. ASSUME NEW p \in Proposals,
               \/ ActivateProposal(p) \/ FinalizeProposal(p) \/ QueueProposal(p)
               \/ ExecuteProposal(p) \/ GuardianExecute(p) \/ CancelProposal(p)
        PROVE  UNCHANGED <<power, supply, delegate, received, shifted>>
    BY <2>1 DEF ActivateProposal, FinalizeProposal, QueueProposal, ExecuteProposal, GuardianExecute,
                CancelProposal, Becomes
  <2>2. ASSUME NEW p \in Proposals, NEW v \in Account, NEW c \in Choice, CastVote(v, p, c)
        PROVE  UNCHANGED <<power, supply, delegate, received, shifted>>
    BY <2>2 DEF CastVote
  <2>3. CASE Administer
    BY <1>1, <2>3 DEF Administer
  <2>4. ASSUME NEW v \in Account, NEW emergency \in BOOLEAN, CreateProposal(v, emergency)
        PROVE  UNCHANGED <<power, supply, delegate, received, shifted>>
    BY <2>4 DEF CreateProposal
  <2>5. ASSUME NEW g \in Watcher, NEW p \in 1 .. MaxProposals, GuardianApprove(g, p)
        PROVE  UNCHANGED <<power, supply, delegate, received, shifted>>
    BY <2>5 DEF GuardianApprove
  <2> QED
    BY <1>1, <1>3, <2>1, <2>2, <2>3, <2>4, <2>5, RegistrationKeeps, DelegationKeeps DEF GovernanceStep
<1> QED
  BY <1>2, <1>3 DEF GovernanceNext, governanceVars

\* Everybody's power is that of those who vote through it.
LEMMA PowerIsConserved == PowerInv => PowerConserved
<1> SUFFICES ASSUME PowerInv PROVE PowerConserved
  OBVIOUS
<1>1. /\ power \in [Account -> Nat] /\ delegate \in [Account -> Account] /\ received \in [Account -> Nat]
      /\ IsFiniteSet(Account) /\ supply = Total(power, Account)
      /\ \A v \in Account : power[v] \in Int
  BY GovernanceAssumption DEF PowerInv
<1> DEFINE part == [a \in Account |-> Total(power, {v \in Account : delegate[v] = a})]
           effective == [a \in Account |-> EffectivePower(a)]
<1>2. Total(part, Account) = Total(power, Account)
  BY <1>1, TotalOfParts
<1>3. ASSUME ~ shifted PROVE Total(effective, Account) = supply
  <2>1. ASSUME NEW a \in Account PROVE effective[a] = part[a] /\ effective[a] \in Int
    <3>0. received[a] = Total(power, Delegators(a)) /\ received[a] \in Nat /\ power[a] \in Nat
      BY <1>1, <1>3 DEF PowerInv
    <3>1. CASE delegate[a] = a
      <4>1. {v \in Account : delegate[v] = a} = Delegators(a) \cup {a}
        BY <3>1 DEF Delegators
      <4>2. Total(power, Delegators(a) \cup {a}) = power[a] + Total(power, Delegators(a))
        BY <1>1, DelegatorsAreFinite, TotalAdd
      <4>3. EffectivePower(a) = received[a] + power[a]
        BY <3>1 DEF EffectivePower
      <4>4. part[a] = Total(power, Delegators(a) \cup {a})
        BY <4>1
      <4>5. part[a] = power[a] + received[a]
        BY <3>0, <4>2, <4>4
      <4>6. effective[a] = EffectivePower(a)
        BY Zenon
      <4> HIDE DEF part, effective
      <4> QED
        BY <3>0, <4>3, <4>5, <4>6
    <3>2. CASE delegate[a] # a
      <4>1. {v \in Account : delegate[v] = a} = Delegators(a)
        BY <3>2 DEF Delegators
      <4>2. effective[a] = received[a]
        BY <3>0, <3>2 DEF EffectivePower
      <4> QED
        BY <3>0, <4>1, <4>2
    <3> QED
      BY <3>1, <3>2
  <2> HIDE DEF part, effective
  <2>2. Total(effective, Account) = Total(part, Account)
    BY <1>1, <2>1, TotalEqual
  <2> QED
    BY <1>1, <1>2, <2>2
<1>4. ~ shifted => \A a \in Account : received[a] = Total(power, {v \in Account \ {a} : delegate[v] = a})
  BY DEF PowerInv, Delegators
<1> QED
  BY <1>1, <1>3, <1>4 DEF PowerConserved

(* Delegating in chains and circles neither makes nor loses voting power,  *)
(* for any accounts and powers, while none is registered anew for an       *)
(* account that has delegated.                                             *)
THEOREM PowerIsNotMade == GovernanceSpec => []PowerConserved
  BY PowerInvInit, PowerInvStep, PowerIsConserved, PTL DEF GovernanceSpec

\* There are no proposals yet.
LEMMA ProposalInvInit == now = 0 /\ GovernanceInit => ProposalInv
<1> SUFFICES ASSUME now = 0, GovernanceInit PROVE ProposalInv
  OBVIOUS
<1>1. proposal = <<>> /\ ballot = <<>> /\ rules \in Rules
  BY DEF GovernanceInit
<1>2. Proposals = {}
  BY <1>1 DEF Proposals
<1>3. proposal \in Seq(GovernanceRow) /\ ballot \in Seq(BallotRow) /\ Len(ballot) = Len(proposal)
  BY <1>1
<1> QED
  BY <1>1, <1>2, <1>3 DEF ProposalInv

(* A vote adds to its choice and to no other.                              *)
LEMMA OneMoreBallot ==
  ASSUME NEW b \in BallotRow, NEW v \in Account, b[v].votes = 0, NEW n \in Nat, NEW c \in Choice,
         NEW b2 \in BallotRow, b2[v].choice = c, b2[v].votes = n,
         \A u \in Account : u # v => b2[u] = b[u], NEW x \in Choice
  PROVE  Count(b2, x) = Count(b, x) + (IF x = c THEN n ELSE 0)
<1> DEFINE w == [u \in Account |-> b[u].votes]
           w2 == [u \in Account |-> b2[u].votes]
           S == {u \in Account : b[u].choice = x}
           S2 == {u \in Account : b2[u].choice = x}
           K == S \ {v}
<1>1. \A u \in Account : w[u] \in Nat /\ w2[u] \in Nat /\ w[u] \in Int /\ w2[u] \in Int
  BY DEF BallotRow
<1>2. w[v] = 0 /\ w2[v] = n /\ \A u \in Account : u # v => w2[u] = w[u]
  OBVIOUS
<1>3. S2 = IF x = c THEN K \cup {v} ELSE K
  OBVIOUS
<1>4. S \subseteq Account /\ K \subseteq Account /\ v \notin K /\ K = S \ {v}
  OBVIOUS
<1> HIDE DEF w, w2, S, S2, K
<1>5. IsFiniteSet(S) /\ IsFiniteSet(K)
  BY <1>4, GovernanceAssumption, FS_Subset
<1>6. Total(w, K) = Total(w, S) /\ Total(w, S) \in Int
  <2>1. Total(w, S) \in Int
    BY <1>1, <1>4, <1>5, TotalStep
  <2>2. CASE v \in S
    <3>1. Total(w, S \ {v}) = Total(w, S) - w[v]
      BY <1>1, <1>4, <1>5, <2>2, TotalDrop
    <3> QED
      BY <1>2, <1>4, <2>1, <3>1
  <2>3. CASE v \notin S
    BY <1>4, <2>1, <2>3
  <2> QED
    BY <2>2, <2>3
<1>7. Total(w, K) = Total(w2, K)
  <2>1. \A u \in K : w[u] \in Int /\ w[u] = w2[u]
    BY <1>1, <1>2, <1>4
  <2> QED
    BY <1>5, <2>1, TotalEqual
<1>8. Total(w2, K \cup {v}) = w2[v] + Total(w2, K)
  BY <1>1, <1>4, <1>5, TotalAdd
<1>9. Total(w2, S2) = Total(w, S) + (IF x = c THEN n ELSE 0)
  BY <1>2, <1>3, <1>6, <1>7, <1>8
<1> QED
  BY <1>9 DEF Count, w, w2, S, S2

(* Time does not unmake the law.                                           *)
LEMMA LawfulLater ==
  ASSUME NEW d \in GovernanceRow, NEW t \in Nat, NEW t2 \in Nat, t <= t2, Lawful(d, t)
  PROVE  Lawful(d, t2)
<1>1. d.start \in Nat /\ d.end \in Nat
  BY DEF GovernanceRow
<1> QED
  BY <1>1 DEF Lawful

(* A proposal is rewritten, tallies untouched.                             *)
LEMMA BecomesKeeps ==
  ASSUME ProposalInv, NEW p \in Proposals, NEW from, NEW new \in GovernanceRow,
         Becomes(p, from, new), now' = now,
         new.votes = proposal[p].votes, Lawful(new, now)
  PROVE  ProposalInv'
<1>1. /\ proposal \in Seq(GovernanceRow) /\ ballot \in Seq(BallotRow) /\ Len(ballot) = Len(proposal)
      /\ p \in 1 .. Len(proposal)
      /\ \A q \in 1 .. Len(proposal) : Lawful(proposal[q], now) /\ Tallied(proposal[q], ballot[q])
  BY DEF ProposalInv, Proposals
<1>2. proposal' = [proposal EXCEPT ![p] = new] /\ ballot' = ballot /\ rules' = rules
  BY DEF Becomes
<1>3. /\ proposal' \in Seq(GovernanceRow) /\ Len(proposal') = Len(proposal)
      /\ proposal'[p] = new /\ \A q \in 1 .. Len(proposal) : q # p => proposal'[q] = proposal[q]
  BY <1>1, <1>2
<1>4. Proposals' = 1 .. Len(proposal)
  BY <1>3 DEF Proposals
<1>5. ASSUME NEW q \in 1 .. Len(proposal)
      PROVE  Lawful(proposal'[q], now') /\ Tallied(proposal'[q], ballot'[q])
  <2>1. CASE q = p
    <3>1. Tallied(new, ballot[p])
      BY <1>1 DEF Tallied
    <3> QED
      BY <1>2, <1>3, <2>1, <3>1
  <2>2. CASE q # p
    <3>1. proposal'[q] = proposal[q]
      BY <1>3, <2>2
    <3> QED
      BY <1>1, <1>2, <3>1
  <2> QED
    BY <2>1, <2>2
<1>6. now' \in Nat /\ rules' \in Rules /\ ballot' \in Seq(BallotRow) /\ Len(ballot') = Len(proposal')
  BY <1>1, <1>2, <1>3 DEF ProposalInv
<1> QED
  BY <1>3, <1>4, <1>5, <1>6 DEF ProposalInv

(* What the code writes of a proposal is lawful.                           *)
LEMMA MovesAreLawful ==
  ASSUME ProposalInv, NEW p \in Proposals, now' = now,
         \/ ActivateProposal(p) \/ FinalizeProposal(p) \/ QueueProposal(p)
         \/ ExecuteProposal(p) \/ GuardianExecute(p) \/ CancelProposal(p)
  PROVE  ProposalInv'
<1>0. PICK d \in GovernanceRow : d = proposal[p]
  BY DEF ProposalInv, Proposals
<1>1. /\ d.emergency \in BOOLEAN /\ d.status \in ProposalStatus /\ d.votes \in [Choice -> Nat]
      /\ d.start \in Nat /\ d.end \in Nat /\ d.after \in Nat /\ d.executed \in Nat
  BY DEF GovernanceRow
<1>2. /\ now \in Nat /\ rules \in Rules /\ Lawful(d, now)
  BY <1>0 DEF ProposalInv
<1>3. ASSUME NEW from, NEW s \in ProposalStatus, NEW a \in Nat, NEW e \in Nat,
             NEW new, new = [d EXCEPT !.status = s, !.after = a, !.executed = e],
             Becomes(p, from, new),
             Lawful([d EXCEPT !.status = s, !.after = a, !.executed = e], now)
      PROVE  ProposalInv'
  <2>1. new \in GovernanceRow /\ new.votes = proposal[p].votes
    BY <1>0, <1>3 DEF GovernanceRow
  <2> QED
    BY <1>3, <2>1, BecomesKeeps
<1>e. \A s : /\ [d EXCEPT !.status = s] = [d EXCEPT !.status = s, !.after = d.after, !.executed = d.executed]
             /\ \A a : [d EXCEPT !.status = s, !.after = a]
                       = [d EXCEPT !.status = s, !.after = a, !.executed = d.executed]
             /\ \A e : [d EXCEPT !.status = s, !.executed = e]
                       = [d EXCEPT !.status = s, !.after = d.after, !.executed = e]
  BY DEF GovernanceRow
<1>f. ASSUME NEW s, NEW a, NEW e
      PROVE  LET n == [d EXCEPT !.status = s, !.after = a, !.executed = e]
             IN  /\ n.status = s /\ n.after = a /\ n.executed = e /\ n.votes = d.votes
                 /\ n.start = d.start /\ n.end = d.end /\ n.emergency = d.emergency
  BY DEF GovernanceRow
<1>4. CASE ActivateProposal(p)
  <2> DEFINE new == [d EXCEPT !.status = "Active"]
  <2>1. Becomes(p, {"Pending"}, new) /\ d.start <= now
    BY <1>0, <1>4 DEF ActivateProposal
  <2>2. new = [d EXCEPT !.status = "Active", !.after = d.after, !.executed = d.executed]
    BY <1>e
  <2>3. Lawful([d EXCEPT !.status = "Active", !.after = d.after, !.executed = d.executed], now)
    BY <2>1, <1>f DEF Lawful
  <2> QED
    BY <1>1, <1>3, <2>1, <2>2, <2>3 DEF ProposalStatus
<1>5. CASE FinalizeProposal(p)
  <2>1. PICK s \in {"Passed", "Failed"} :
          /\ Becomes(p, {"Active"}, [d EXCEPT !.status = s])
          /\ s = "Passed" => ThresholdMet(d.votes, rules.pass)
    BY <1>0, <1>5 DEF FinalizeProposal
  <2>2. d.end < now /\ d.status = "Active"
    BY <1>0, <1>1, <1>2, <1>5 DEF FinalizeProposal, Becomes
  <2>3. s = "Passed" => Won(d.votes)
    <3> SUFFICES ASSUME s = "Passed" PROVE d.votes["For"] > 0
      BY <1>2, <2>1 DEF Won
    <3> DEFINE f == d.votes["For"]
               g == d.votes["Against"]
    <3>1. f \in Nat /\ g \in Nat
      BY <1>1 DEF Choice
    <3>2. rules.pass \in Nat /\ rules.pass > 0
      BY <1>2, GovernanceAssumption
    <3>3. f + g > 0 /\ (f * 10000) \div (f + g) >= rules.pass
      BY <2>1 DEF ThresholdMet
    <3> HIDE DEF f, g
    <3>4. ASSUME f = 0 PROVE FALSE
      <4>1. 0 * 10000 = 0 /\ f + g = g
        BY <3>1, <3>4
      <4>2. (f * 10000) \div (f + g) = 0 \div g
        BY <3>4, <4>1
      <4>3. 0 \div g = 0
        BY <3>1, <3>3, <4>1
      <4> QED
        BY <3>2, <3>3, <4>2, <4>3
    <3> QED
      BY <3>1, <3>4 DEF f
  <2>4. [d EXCEPT !.status = s] = [d EXCEPT !.status = s, !.after = d.after, !.executed = d.executed]
    BY <1>e
  <2>5. Lawful([d EXCEPT !.status = s, !.after = d.after, !.executed = d.executed], now)
    <3>1. d.start <= now
      BY <1>2, <2>2 DEF Lawful
    <3> QED
      BY <3>1, <2>2, <2>3, <1>f DEF Lawful
  <2> QED
    BY <1>1, <1>3, <2>1, <2>4, <2>5 DEF ProposalStatus
<1>6. CASE QueueProposal(p)
  <2> DEFINE a == now + rules.timelock
             new == [d EXCEPT !.status = "Queued", !.after = a]
  <2>1. Becomes(p, {"Passed"}, new) /\ d.status = "Passed"
    BY <1>0, <1>6 DEF QueueProposal, Becomes
  <2>2. a \in Nat /\ a >= now
    <3>1. rules.timelock \in Nat
      BY <1>2, GovernanceAssumption
    <3> QED
      BY <1>2, <3>1
  <2>3. new = [d EXCEPT !.status = "Queued", !.after = a, !.executed = d.executed]
    BY <1>e
  <2> HIDE DEF a
  <2>4. d.start <= now /\ d.end < now /\ Won(d.votes)
    BY <1>2, <2>1 DEF Lawful
  <2>5. Lawful([d EXCEPT !.status = "Queued", !.after = a, !.executed = d.executed], now)
    <3>1. d.end < a
      BY <1>1, <1>2, <2>2, <2>4
    <3> QED
      BY <2>4, <3>1, <1>f DEF Lawful
  <2> QED
    BY <1>1, <1>3, <2>1, <2>2, <2>3, <2>5 DEF ProposalStatus
<1>7. ASSUME NEW from, Becomes(p, from, [d EXCEPT !.status = "Executed", !.executed = now]),
             d.status \notin {"Pending", "Cancelled"},
             ~ d.emergency => d.status = "Queued" /\ d.after <= now
      PROVE  ProposalInv'
  <2>1. [d EXCEPT !.status = "Executed", !.executed = now]
        = [d EXCEPT !.status = "Executed", !.after = d.after, !.executed = now]
    BY <1>e
  <2>2. Lawful([d EXCEPT !.status = "Executed", !.after = d.after, !.executed = now], now)
    <3>1. d.start <= now
      BY <1>2, <1>7 DEF Lawful
    <3>2. ~ d.emergency => d.end < d.after /\ d.after <= now /\ Won(d.votes)
      BY <1>2, <1>7 DEF Lawful
    <3> QED
      BY <3>1, <3>2, <1>1, <1>2, <1>f DEF Lawful
  <2> QED
    BY <1>1, <1>2, <1>3, <1>7, <2>1, <2>2 DEF ProposalStatus
<1>8. CASE ExecuteProposal(p)
  BY <1>0, <1>1, <1>2, <1>7, <1>8 DEF ExecuteProposal, Becomes, Executed
<1>9. CASE GuardianExecute(p)
  BY <1>0, <1>1, <1>7, <1>9 DEF GuardianExecute, Becomes, Executed
<1>10. CASE CancelProposal(p)
  <2> DEFINE new == [d EXCEPT !.status = "Cancelled"]
             from == {"Pending", "Active", "Passed", "Queued"}
  <2>1. Becomes(p, from, new)
    BY <1>0, <1>10 DEF CancelProposal
  <2>2. new = [d EXCEPT !.status = "Cancelled", !.after = d.after, !.executed = d.executed]
    BY <1>e
  <2>3. Lawful([d EXCEPT !.status = "Cancelled", !.after = d.after, !.executed = d.executed], now)
    BY <1>f DEF Lawful
  <2> QED
    BY <1>1, <1>3, <2>1, <2>2, <2>3 DEF ProposalStatus
<1> QED
  BY <1>4, <1>5, <1>6, <1>8, <1>9, <1>10

(* A ballot counts once.                                                   *)
LEMMA VotesAreTallied ==
  ASSUME PowerInv, ProposalInv, NEW v \in Account, NEW p \in Proposals, NEW c \in Choice,
         CastVote(v, p, c), now' = now
  PROVE  ProposalInv'
<1>0. PICK d \in GovernanceRow : d = proposal[p]
  BY DEF ProposalInv, Proposals
<1>b. PICK b \in BallotRow : b = ballot[p]
  BY DEF ProposalInv, Proposals
<1>1. /\ proposal \in Seq(GovernanceRow) /\ ballot \in Seq(BallotRow) /\ Len(ballot) = Len(proposal)
      /\ p \in 1 .. Len(proposal) /\ now \in Nat /\ rules \in Rules
      /\ \A q \in 1 .. Len(proposal) : Lawful(proposal[q], now) /\ Tallied(proposal[q], ballot[q])
  BY DEF ProposalInv, Proposals
<1>2. PICK n \in Nat :
        /\ d.status = "Active" /\ now \in d.start .. d.end /\ b[v].votes = 0
        /\ ballot' = [ballot EXCEPT ![p] = [b EXCEPT ![v] = [choice |-> c, votes |-> n]]]
        /\ proposal' = [proposal EXCEPT ![p] = [d EXCEPT !.votes = [d.votes EXCEPT ![c] = @ + n]]]
        /\ rules' = rules
  <2> DEFINE e == EffectivePower(v)
             n == IF rules.quadratic THEN Isqrt(e) ELSE e
  <2>1. e \in Nat
    BY DEF EffectivePower, PowerInv
  <2>2. n \in Nat
    <3> HIDE DEF e
    <3> QED
      BY <2>1, IsqrtIsNatural
  <2>3. /\ d.status = "Active" /\ now \in d.start .. d.end /\ b[v].votes = 0
        /\ ballot' = [ballot EXCEPT ![p] = [b EXCEPT ![v] = [choice |-> c, votes |-> n]]]
        /\ proposal' = [proposal EXCEPT ![p] = [d EXCEPT !.votes = [d.votes EXCEPT ![c] = @ + n]]]
        /\ rules' = rules
    <3> HIDE DEF e
    <3> QED
      BY <1>0, <1>b DEF CastVote, e
  <2> HIDE DEF n
  <2> QED
    BY <2>2, <2>3
<1> DEFINE tally == [d.votes EXCEPT ![c] = @ + n]
           new == [d EXCEPT !.votes = tally]
           paper == [b EXCEPT ![v] = [choice |-> c, votes |-> n]]
<1>3. tally \in [Choice -> Nat] /\ \A x \in Choice : tally[x] = d.votes[x] + (IF x = c THEN n ELSE 0)
  BY DEF GovernanceRow
<1>4. /\ proposal' = [proposal EXCEPT ![p] = new] /\ ballot' = [ballot EXCEPT ![p] = paper]
  BY <1>2
<1>5. new \in GovernanceRow /\ new.votes = tally /\ new.status = "Active" /\ new.start = d.start
  <2>1. tally \in [Choice -> Nat]
    BY <1>3
  <2> HIDE DEF tally
  <2>2. new = [d EXCEPT !.votes = tally]
    OBVIOUS
  <2>3. new \in GovernanceRow
    BY <2>1, <2>2 DEF GovernanceRow
  <2>4. new.votes = tally /\ new.status = d.status /\ new.start = d.start
    BY <2>2 DEF GovernanceRow
  <2> HIDE DEF new
  <2> QED
    BY <1>2, <2>3, <2>4
<1>6. paper \in BallotRow /\ \A x \in Choice : Count(paper, x) = Count(b, x) + (IF x = c THEN n ELSE 0)
  <2>1. b[v].votes = 0
    BY <1>2
  <2> DEFINE row == [choice |-> c, votes |-> n]
  <2>2. row \in [choice : Choice, votes : Nat] /\ row.choice = c /\ row.votes = n
    OBVIOUS
  <2>3. paper \in BallotRow /\ paper[v] = row /\ \A u \in Account : u # v => paper[u] = b[u]
    <3>1. paper = [b EXCEPT ![v] = row]
      OBVIOUS
    <3> HIDE DEF row, paper
    <3> QED
      BY <2>2, <3>1 DEF BallotRow
  <2> HIDE DEF row, paper
  <2>4. paper[v].choice = c /\ paper[v].votes = n
    BY <2>2, <2>3
  <2> QED
    BY <2>1, <2>3, <2>4, OneMoreBallot
<1> HIDE DEF tally, new, paper
<1>7. Tallied(new, paper)
  <2>1. \A x \in Choice : d.votes[x] = Count(b, x)
    BY <1>0, <1>1, <1>b DEF Tallied
  <2> QED
    BY <1>3, <1>5, <1>6, <2>1 DEF Tallied
<1>8. Lawful(new, now)
  <2>1. d.start \in Nat /\ d.end \in Nat
    BY DEF GovernanceRow
  <2> QED
    BY <1>1, <1>2, <1>5, <2>1 DEF Lawful
<1>9. /\ proposal' \in Seq(GovernanceRow) /\ Len(proposal') = Len(proposal)
      /\ proposal'[p] = new /\ \A q \in 1 .. Len(proposal) : q # p => proposal'[q] = proposal[q]
  BY <1>1, <1>4, <1>5
<1>10. /\ ballot' \in Seq(BallotRow) /\ Len(ballot') = Len(proposal)
       /\ ballot'[p] = paper /\ \A q \in 1 .. Len(proposal) : q # p => ballot'[q] = ballot[q]
  BY <1>1, <1>4, <1>6
<1>11. ASSUME NEW q \in 1 .. Len(proposal)
       PROVE  Lawful(proposal'[q], now') /\ Tallied(proposal'[q], ballot'[q])
  <2>1. CASE q = p
    BY <1>7, <1>8, <1>9, <1>10, <2>1
  <2>2. CASE q # p
    <3>1. proposal'[q] = proposal[q] /\ ballot'[q] = ballot[q]
      BY <1>9, <1>10, <2>2
    <3> QED
      BY <1>1, <3>1
  <2> QED
    BY <2>1, <2>2
<1>12. Proposals' = 1 .. Len(proposal)
  BY <1>9 DEF Proposals
<1> QED
  BY <1>1, <1>2, <1>9, <1>10, <1>11, <1>12 DEF ProposalInv

(* A new proposal has no votes.                                            *)
LEMMA CreationKeeps ==
  ASSUME ProposalInv, NEW v \in Account, NEW emergency \in BOOLEAN,
         CreateProposal(v, emergency), now' = now
  PROVE  ProposalInv'
<1> DEFINE new == [emergency |-> emergency, status |-> "Pending", votes |-> [c \in Choice |-> 0],
                   start |-> now + rules.delay, end |-> now + rules.delay + rules.period,
                   after |-> 0, executed |-> 0]
           blank == [choice |-> "Abstain", votes |-> 0]
           paper == [a \in Account |-> blank]
<1>1. /\ proposal \in Seq(GovernanceRow) /\ ballot \in Seq(BallotRow) /\ Len(ballot) = Len(proposal)
      /\ now \in Nat /\ rules \in Rules
      /\ \A q \in 1 .. Len(proposal) : Lawful(proposal[q], now) /\ Tallied(proposal[q], ballot[q])
  BY DEF ProposalInv, Proposals
<1>2. proposal' = Append(proposal, new) /\ ballot' = Append(ballot, paper) /\ rules' = rules
  BY DEF CreateProposal
<1>3. new \in GovernanceRow /\ new.status = "Pending" /\ \A c \in Choice : new.votes[c] = 0
  <2>1. rules.delay \in Nat /\ rules.period \in Nat
    BY <1>1, GovernanceAssumption
  <2>2. now + rules.delay \in Nat /\ now + rules.delay + rules.period \in Nat
    BY <1>1, <2>1
  <2> QED
    BY <2>2 DEF GovernanceRow, ProposalStatus
<1>4. paper \in BallotRow /\ \A c \in Choice : Count(paper, c) = 0
  <2>1. paper \in BallotRow /\ \A a \in Account : paper[a].votes = 0
    BY DEF BallotRow, Choice
  <2>2. ASSUME NEW c \in Choice PROVE Count(paper, c) = 0
    <3> DEFINE w == [a \in Account |-> paper[a].votes]
               S == {a \in Account : paper[a].choice = c}
    <3>1. IsFiniteSet(S) /\ \A a \in S : w[a] = 0
      BY <2>1, GovernanceAssumption, FS_Subset
    <3> HIDE DEF w, S
    <3>2. Total(w, S) = 0
      BY <3>1, TotalZero
    <3> QED
      BY <3>2 DEF Count, w, S
  <2> QED
    BY <2>1, <2>2
<1> HIDE DEF new, paper
<1>5. Lawful(new, now) /\ Tallied(new, paper)
  BY <1>3, <1>4 DEF Lawful, Tallied
<1>6. /\ proposal' \in Seq(GovernanceRow) /\ Len(proposal') = Len(proposal) + 1
      /\ proposal'[Len(proposal) + 1] = new /\ \A q \in 1 .. Len(proposal) : proposal'[q] = proposal[q]
  BY <1>1, <1>2, <1>3
<1>7. /\ ballot' \in Seq(BallotRow) /\ Len(ballot') = Len(proposal) + 1
      /\ ballot'[Len(proposal) + 1] = paper /\ \A q \in 1 .. Len(proposal) : ballot'[q] = ballot[q]
  BY <1>1, <1>2, <1>4
<1>8. ASSUME NEW q \in 1 .. Len(proposal) + 1
      PROVE  Lawful(proposal'[q], now') /\ Tallied(proposal'[q], ballot'[q])
  <2>1. CASE q = Len(proposal) + 1
    BY <1>5, <1>6, <1>7, <2>1
  <2>2. CASE q # Len(proposal) + 1
    <3>1. q \in 1 .. Len(proposal)
      BY <1>1, <2>2
    <3>2. proposal'[q] = proposal[q] /\ ballot'[q] = ballot[q]
      BY <1>6, <1>7, <3>1
    <3> QED
      BY <1>1, <3>1, <3>2
  <2> QED
    BY <2>1, <2>2
<1>9. Proposals' = 1 .. Len(proposal) + 1
  BY <1>6 DEF Proposals
<1> QED
  BY <1>1, <1>2, <1>6, <1>7, <1>8, <1>9 DEF ProposalInv

\* Every step leaves each proposal lawful and its votes tallied.
LEMMA ProposalInvStep ==
  PowerInv /\ ProposalInv /\ [GovernanceNext]_<<now, governanceVars>> => ProposalInv'
<1> SUFFICES ASSUME PowerInv, ProposalInv, [GovernanceNext]_<<now, governanceVars>> PROVE ProposalInv'
  OBVIOUS
<1>1. UNCHANGED <<now, proposal, ballot>> /\ rules' \in Rules => ProposalInv'
  BY DEF ProposalInv, Proposals
<1>r. rules \in Rules
  BY DEF ProposalInv
<1>2. CASE UNCHANGED <<now, governanceVars>>
  BY <1>1, <1>2, <1>r DEF governanceVars
<1>3. CASE CloseLedger /\ UNCHANGED governanceVars
  <2>1. now' = now + 1 /\ now \in Nat
    BY <1>3 DEF CloseLedger, ProposalInv
  <2>2. UNCHANGED <<proposal, ballot, rules>>
    BY <1>3 DEF governanceVars
  <2>3. ASSUME NEW q \in Proposals PROVE Lawful(proposal[q], now')
    <3>1. Lawful(proposal[q], now) /\ proposal[q] \in GovernanceRow
      BY DEF ProposalInv, Proposals
    <3>2. now' \in Nat /\ now <= now'
      BY <2>1
    <3> QED
      BY <2>1, <3>1, <3>2, LawfulLater
  <2>4. Proposals' = Proposals
    BY <2>2 DEF Proposals
  <2> QED
    BY <2>1, <2>2, <2>3, <2>4 DEF ProposalInv
<1>4. CASE GovernanceStep /\ now' = now
  <2>1. ASSUME NEW v \in Account, NEW n \in Power, SetVotingPower(v, n) PROVE ProposalInv'
    BY <1>1, <1>4, <1>r, <2>1 DEF SetVotingPower
  <2>2. CASE Administer
    BY <1>1, <1>4, <1>r, <2>2 DEF Administer
  <2>3. ASSUME NEW v \in Account, NEW to \in Account, DelegateVotes(v, to) PROVE ProposalInv'
    BY <1>1, <1>4, <1>r, <2>3 DEF DelegateVotes
  <2>4. ASSUME NEW g \in Watcher, NEW p \in 1 .. MaxProposals, GuardianApprove(g, p) PROVE ProposalInv'
    BY <1>1, <1>4, <1>r, <2>4 DEF GuardianApprove
  <2> QED
    BY <1>4, <2>1, <2>2, <2>3, <2>4, CreationKeeps, MovesAreLawful, VotesAreTallied DEF GovernanceStep
<1> QED
  BY <1>2, <1>3, <1>4 DEF GovernanceNext

(* Tallies are what the ballots say, and nothing but an emergency is       *)
(* executed before its vote was won and its timelock had run, for any      *)
(* rules, however they change while proposals are under way.               *)
THEOREM VotesDecide == GovernanceSpec => []VoteDecides
<1>1. ProposalInv => VoteDecides
  BY Zenon DEF ProposalInv, Lawful, Tallied, Count, Won, VoteDecides
<1> QED
  BY <1>1, PowerInvInit, PowerInvStep, ProposalInvInit, ProposalInvStep, PTL DEF GovernanceSpec

-----------------------------------------------------------------------------
(* The insurance pool, for any stakers, amounts, caps and numbers of       *)
(* claims and requests. A payout finds the books sound and leaves them     *)
(* sound, one tranche or a whole run of the queue; stakes, requests and    *)
(* slashes balance.                                                        *)

\* The stored rows.
PoolRow == [total : Int, staked : Nat, queued : Nat, coverage : Nat, payout : Nat]
EpochRow == [open : BOOLEAN, start : Nat, opening : Int, paid : Nat]
ClaimRow == [by : Account, amount : Nat, status : ClaimStatus,
             approvals : SUBSET Approver, paid : Nat]
WithdrawalRow == [staker : Account, amount : Nat, unlock : Nat, claimed : BOOLEAN]

\* The queue holds the claims that are partially paid, once each.
Queued(q, cl) ==
  /\ \A i \in 1 .. Len(q) : q[i] \in 1 .. Len(cl) /\ cl[q[i]].status = "PartiallyPaid"
  /\ \A c \in 1 .. Len(cl) : cl[c].status = "PartiallyPaid" => \E i \in 1 .. Len(q) : q[i] = c
  /\ \A i, j \in 1 .. Len(q) : i # j => q[i] # q[j]

\* The pool, its epoch, its claims and its queue as a payout must find and
\* leave them.
Sound(p, e, cl, q) ==
  /\ p \in PoolRow /\ e \in EpochRow /\ cl \in Seq(ClaimRow) /\ q \in Seq(Nat)
  /\ p.total + p.payout = p.staked + p.queued
  /\ p.payout = Total(PaidOn(cl), 1 .. Len(cl))
  /\ e.paid > 0 => \E k \in Caps : e.paid <= BpsOf(e.opening, k.drain)
  /\ \A c \in 1 .. Len(cl) : cl[c].paid <= cl[c].amount
  /\ Queued(q, cl)

\* What stakers own, and what they have asked back.
StakeInv ==
  /\ stake \in [Account -> Nat] /\ pending \in [Account -> Nat]
  /\ withdrawal \in Seq(WithdrawalRow)
  /\ pool.staked = Total(stake, Account) /\ pool.queued = Total(pending, Account)
  /\ \A s \in Account : pending[s] = Total(Requested, OpenRequests(s))

\* The inductive invariant of the pool.
InsuranceInv ==
  /\ now \in Nat /\ caps \in Caps /\ quota \in Nat /\ Len(claim) <= MaxClaims
  /\ Sound(pool, epoch, claim, payQueue) /\ StakeInv

\* What the assumptions say of each constant.
LEMMA PoolConstants ==
  /\ IsFiniteSet(Account) /\ Approver \subseteq Account
  /\ \A n \in Amount : n \in Nat /\ n > 0
  /\ \A bps \in CoverCap : bps \in Nat
  /\ \A bps \in SlashBps : bps \in Nat
  /\ \A k \in Caps : k.claim \in Nat /\ k.drain \in Nat /\ k.secs \in Nat
  /\ WithdrawDelay \in Nat /\ MaxClaims \in Nat /\ MaxTime \in Nat
<1>1. /\ IsFiniteSet(Account) /\ Approver \subseteq Account
      /\ \A n \in Amount : n \in Nat /\ n > 0
      /\ WithdrawDelay \in Nat /\ MaxClaims \in Nat /\ MaxTime \in Nat
  BY InsuranceAssumption, HostAssumption
<1>2. /\ \A bps \in CoverCap : bps \in Nat
      /\ \A bps \in SlashBps : bps \in Nat
  BY InsuranceAssumption
<1>3. \A k \in Caps : k.claim \in Nat /\ k.drain \in Nat /\ k.secs \in Nat
  BY InsuranceAssumption
<1> QED
  BY <1>1, <1>2, <1>3

\* Basis points of an amount, which payouts may have made negative.
LEMMA BpsIs ==
  ASSUME NEW n \in Int, NEW bps \in Nat
  PROVE  BpsOf(n, bps) \in Int /\ (n \in Nat => BpsOf(n, bps) \in Nat)
<1> DEFINE m == n * bps
<1>1. m \in Int /\ (n \in Nat => m \in Nat)
  OBVIOUS
<1>2. BpsOf(n, bps) = m \div 10000
  BY DEF BpsOf
<1> HIDE DEF m
<1> QED
  BY <1>1, <1>2

\* The least of a few numbers is one of them.
LEMMA MinIs ==
  ASSUME NEW S, S \subseteq Int, NEW m \in S, \A x \in S : m <= x
  PROVE  Min(S) \in S /\ \A x \in S : Min(S) <= x
  BY DEF Min

\* The claims are finitely many, and what is paid on each is a number.
LEMMA PaidIs ==
  ASSUME NEW cl \in Seq(ClaimRow)
  PROVE  /\ IsFiniteSet(1 .. Len(cl)) /\ Len(cl) \in Nat
         /\ \A c \in 1 .. Len(cl) : PaidOn(cl)[c] = cl[c].paid /\ cl[c].paid \in Nat
                                    /\ cl[c] \in ClaimRow /\ cl[c].amount \in Nat
<1>1. Len(cl) \in Nat /\ \A c \in 1 .. Len(cl) : cl[c] \in ClaimRow
  BY ElementOfSeq
<1>2. IsFiniteSet(1 .. Len(cl))
  BY <1>1, FS_Interval
<1> QED
  BY <1>1, <1>2 DEF PaidOn, ClaimRow

\* An empty pool is sound.
LEMMA InsuranceInvInit == now = 0 /\ InsuranceInit => InsuranceInv
<1> SUFFICES ASSUME now = 0, InsuranceInit PROVE InsuranceInv
  OBVIOUS
<1>1. /\ claim = <<>> /\ payQueue = <<>> /\ withdrawal = <<>> /\ caps \in Caps
      /\ stake = [a \in Account |-> 0] /\ pending = [a \in Account |-> 0]
      /\ pool = [total |-> 0, staked |-> 0, queued |-> 0, coverage |-> 0, payout |-> 0]
      /\ epoch = [open |-> FALSE, start |-> 0, opening |-> 0, paid |-> 0]
  BY DEF InsuranceInit
<1>2. quota \in Nat
  <2>1. Cardinality(Approver) \in Nat
    BY PoolConstants, FS_Subset, FS_CardinalityType
  <2> QED
    BY <2>1 DEF InsuranceInit
<1>3. /\ claim \in Seq(ClaimRow) /\ payQueue \in Seq(Nat) /\ withdrawal \in Seq(WithdrawalRow)
      /\ Len(claim) = 0 /\ Len(payQueue) = 0 /\ Len(withdrawal) = 0
  BY <1>1
<1>4. 1 .. 0 = {} /\ \A f : Total(f, {}) = 0
  BY TotalEmpty
<1>5. Sound(pool, epoch, claim, payQueue)
  <2>1. Total(PaidOn(claim), 1 .. Len(claim)) = 0
    BY <1>3, <1>4
  <2>2. Queued(payQueue, claim)
    BY <1>3, <1>4 DEF Queued
  <2> QED
    BY <1>1, <1>3, <1>4, <2>1, <2>2 DEF Sound, PoolRow, EpochRow
<1>6. StakeInv
  <2>1. \A a \in Account : stake[a] = 0 /\ pending[a] = 0
    BY <1>1
  <2>2. Total(stake, Account) = 0 /\ Total(pending, Account) = 0
    BY <2>1, PoolConstants, TotalZero
  <2>3. \A s \in Account : Total(Requested, OpenRequests(s)) = 0
    BY <1>3, <1>4 DEF OpenRequests
  <2> QED
    BY <1>1, <1>3, <2>1, <2>2, <2>3 DEF StakeInv
<1> QED
  BY <1>1, <1>2, <1>3, <1>5, <1>6, PoolConstants DEF InsuranceInv

\* An epoch that payouts may go on with: the open one, or a new one.
LEMMA EpochIs ==
  ASSUME now \in Nat, NEW p, p.total \in Int, NEW e \in EpochRow, NEW s, s.pool = p, s.epoch = e,
         e.paid > 0 => \E k \in Caps : e.paid <= BpsOf(e.opening, k.drain)
  PROVE  /\ CurrentEpoch(s) \in EpochRow
         /\ CurrentEpoch(s).paid > 0 =>
              \E k \in Caps : CurrentEpoch(s).paid <= BpsOf(CurrentEpoch(s).opening, k.drain)
<1> PICK x : x = CurrentEpoch(s)
  OBVIOUS
<1>1. x = e \/ x = [open |-> TRUE, start |-> now, opening |-> p.total, paid |-> 0]
  BY DEF CurrentEpoch
<1>2. CASE x = e
  BY <1>2
<1>3. CASE x = [open |-> TRUE, start |-> now, opening |-> p.total, paid |-> 0]
  <2>1. x \in EpochRow /\ x.paid = 0
    BY <1>3 DEF EpochRow
  <2> QED
    BY <2>1
<1> QED
  BY <1>1, <1>2, <1>3

\* What a tranche may pay stays within the claim and within the epoch.
LEMMA PayableIs ==
  ASSUME caps \in Caps, NEW s, s.pool.total \in Int, NEW e \in EpochRow, NEW n \in Nat
  PROVE  /\ Payable(s, e, n) \in Int /\ Payable(s, e, n) <= n
         /\ Payable(s, e, n) > 0 => e.paid + Payable(s, e, n) <= BpsOf(e.opening, caps.drain)
<1> PICK b, x, t, y, left :
      /\ b = BpsOf(e.opening, caps.drain) /\ x = BpsOf(s.pool.total, caps.claim)
      /\ t = s.pool.total /\ y = e.paid /\ left = IF b > y THEN b - y ELSE 0
  OBVIOUS
<1>1. b \in Int /\ x \in Int /\ t \in Int /\ y \in Nat /\ left \in Int
  <2>1. caps.claim \in Nat /\ caps.drain \in Nat /\ e.opening \in Int /\ e.paid \in Nat
    BY PoolConstants DEF EpochRow
  <2>2. b \in Int /\ x \in Int
    BY <2>1, BpsIs
  <2>3. t \in Int /\ y \in Nat
    BY <2>1
  <2> QED
    BY <2>2, <2>3
<1>2. Payable(s, e, n) = Min({n, x, t, left})
  BY DEF Payable
<1> PICK S : S = {n, x, t, left}
  OBVIOUS
<1>3. S \subseteq Int /\ n \in S /\ left \in S
  BY <1>1
<1>4. \E m \in S : \A z \in S : m <= z
  BY <1>1
<1>5. Min(S) \in S /\ \A z \in S : Min(S) <= z
  BY <1>3, <1>4, MinIs
<1>6. Min(S) \in Int /\ Min(S) <= n /\ Min(S) <= left
  BY <1>3, <1>5
<1>7. Min(S) > 0 => y + Min(S) <= b
  BY <1>1, <1>6
<1> QED
  BY <1>2, <1>6, <1>7

\* A claim that leaves the queue, or joins it at its end, or stays where it is.
QueueAfter(q, c, done) ==
  IF done THEN Selected(q, Range(q) \ {c})
  ELSE IF c \in Range(q) THEN q ELSE Append(q, c)

\* A queue before and after a payment on claim c, which may be its last.
Requeued(cl, new, q, r, c, done) ==
  /\ cl \in Seq(ClaimRow) /\ q \in Seq(Nat) /\ Queued(q, cl) /\ c \in 1 .. Len(cl)
  /\ new \in Seq(ClaimRow) /\ Len(new) = Len(cl) /\ done \in BOOLEAN
  /\ \A d \in 1 .. Len(cl) : d # c => new[d].status = cl[d].status
  /\ new[c].status = IF done THEN "Paid" ELSE "PartiallyPaid"
  /\ r = QueueAfter(q, c, done)

\* The queue keeps its order and takes no claim twice.
LEMMA QueueAfterIs ==
  ASSUME NEW cl, NEW new, NEW q, NEW r, NEW c, NEW done, Requeued(cl, new, q, r, c, done)
  PROVE  r \in Seq(Nat) /\ Queued(r, new)
<1> cl \in Seq(ClaimRow) /\ q \in Seq(Nat) /\ Queued(q, cl) /\ c \in 1 .. Len(cl)
  BY DEF Requeued
<1> new \in Seq(ClaimRow) /\ Len(new) = Len(cl) /\ done \in BOOLEAN
  BY DEF Requeued
<1> /\ \A d \in 1 .. Len(cl) : d # c => new[d].status = cl[d].status
    /\ new[c].status = IF done THEN "Paid" ELSE "PartiallyPaid"
    /\ r = QueueAfter(q, c, done)
  BY DEF Requeued
<1>1. Len(q) \in Nat /\ Len(cl) \in Nat /\ Range(q) = {q[i] : i \in 1 .. Len(q)} /\ c \in Nat
  <2>1. Len(q) \in Nat /\ Len(cl) \in Nat
    OBVIOUS
  <2>2. Range(q) = {q[i] : i \in 1 .. Len(q)}
    BY RangeEquality
  <2>3. c \in Nat
    BY <2>1
  <2> QED
    BY <2>1, <2>2, <2>3
<1>2. CASE done
  <2> DEFINE K == Range(q) \ {c}
  <2>1. r = Selected(q, K)
    BY <1>2 DEF QueueAfter
  <2>2. \A i \in 1 .. Len(q) : q[i] \in K <=> q[i] # c
    BY <1>1
  <2>3. c \notin K
    OBVIOUS
  <2> HIDE DEF K
  <2>4. Selected(q, K) \in Seq(Nat) /\ Selection(q, K, Len(q), Selected(q, K))
    BY SelectedIs
  <2>5. r \in Seq(Nat) /\ Selection(q, K, Len(q), r)
    BY <2>1, <2>4
  <2>6. /\ \A i \in 1 .. Len(r) : r[i] \in K /\ \E j \in 1 .. Len(q) : q[j] = r[i]
        /\ \A j \in 1 .. Len(q) : q[j] \in K => \E i \in 1 .. Len(r) : r[i] = q[j]
    BY <2>5 DEF Selection
  <2>7. \A i, j \in 1 .. Len(r) : i < j => r[i] # r[j]
    <3> SUFFICES ASSUME NEW i \in 1 .. Len(r), NEW j \in 1 .. Len(r), i < j PROVE r[i] # r[j]
      OBVIOUS
    <3>1. PICK k \in 1 .. Len(q), l \in 1 .. Len(q) : k < l /\ q[k] = r[i] /\ q[l] = r[j]
      BY <2>5 DEF Selection
    <3>2. q[k] # q[l]
      BY <3>1 DEF Queued
    <3> QED
      BY <3>1, <3>2
  <2>8. \A i, j \in 1 .. Len(r) : i # j => r[i] # r[j]
    <3>1. \A i, j \in 1 .. Len(r) : i # j => i < j \/ j < i
      BY <2>5
    <3> QED
      BY <2>7, <3>1
  <2>9. \A i \in 1 .. Len(r) : r[i] \in 1 .. Len(new) /\ new[r[i]].status = "PartiallyPaid"
    <3> SUFFICES ASSUME NEW i \in 1 .. Len(r)
                 PROVE  r[i] \in 1 .. Len(new) /\ new[r[i]].status = "PartiallyPaid"
      OBVIOUS
    <3>1. PICK j \in 1 .. Len(q) : q[j] = r[i]
      BY <2>6
    <3>2. r[i] # c
      BY <2>3, <2>6
    <3> QED
      BY <3>1, <3>2 DEF Queued
  <2>10. \A d \in 1 .. Len(new) : new[d].status = "PartiallyPaid" => \E i \in 1 .. Len(r) : r[i] = d
    <3> SUFFICES ASSUME NEW d \in 1 .. Len(new), new[d].status = "PartiallyPaid"
                 PROVE  \E i \in 1 .. Len(r) : r[i] = d
      OBVIOUS
    <3>1. d # c
      BY <1>2
    <3>2. PICK j \in 1 .. Len(q) : q[j] = d
      BY <3>1 DEF Queued
    <3> QED
      BY <2>2, <2>6, <3>1, <3>2
  <2> QED
    BY <2>5, <2>8, <2>9, <2>10 DEF Queued
<1>3. CASE ~ done /\ c \in Range(q)
  <2>1. r = q /\ \E i \in 1 .. Len(q) : q[i] = c
    BY <1>1, <1>3 DEF QueueAfter
  <2>2. \A d \in 1 .. Len(cl) : (new[d].status = "PartiallyPaid") <=> (cl[d].status = "PartiallyPaid")
    BY <1>3, <2>1 DEF Queued
  <2> QED
    BY <2>1, <2>2 DEF Queued
<1>4. CASE ~ done /\ c \notin Range(q)
  <2>1. r = Append(q, c) /\ \A i \in 1 .. Len(q) : q[i] # c
    BY <1>1, <1>4 DEF QueueAfter
  <2>2. /\ r \in Seq(Nat) /\ Len(r) = Len(q) + 1 /\ r[Len(q) + 1] = c
        /\ \A i \in 1 .. Len(q) : i \in 1 .. Len(r) /\ r[i] = q[i]
        /\ \A i \in 1 .. Len(r) : i \in 1 .. Len(q) \/ i = Len(q) + 1
        /\ Len(q) + 1 \in 1 .. Len(r)
    BY <1>1, <2>1
  <2>3. \A i, j \in 1 .. Len(r) : i # j => r[i] # r[j]
    <3> SUFFICES ASSUME NEW i \in 1 .. Len(r), NEW j \in 1 .. Len(r), i # j PROVE r[i] # r[j]
      OBVIOUS
    <3>1. CASE i \in 1 .. Len(q) /\ j \in 1 .. Len(q)
      BY <2>2, <3>1 DEF Queued
    <3>2. CASE i = Len(q) + 1 \/ j = Len(q) + 1
      BY <2>1, <2>2, <3>2
    <3> QED
      BY <2>2, <3>1, <3>2
  <2>4. \A i \in 1 .. Len(r) : r[i] \in 1 .. Len(new) /\ new[r[i]].status = "PartiallyPaid"
    <3> SUFFICES ASSUME NEW i \in 1 .. Len(r)
                 PROVE  r[i] \in 1 .. Len(new) /\ new[r[i]].status = "PartiallyPaid"
      OBVIOUS
    <3>1. CASE i \in 1 .. Len(q)
      <4>1. r[i] = q[i] /\ q[i] # c
        BY <2>1, <2>2, <3>1
      <4>2. q[i] \in 1 .. Len(cl) /\ cl[q[i]].status = "PartiallyPaid"
        BY <3>1 DEF Queued
      <4>3. new[q[i]].status = cl[q[i]].status
        BY <4>1, <4>2
      <4> QED
        BY <4>1, <4>2, <4>3
    <3>2. CASE i = Len(q) + 1
      BY <1>4, <2>2, <3>2
    <3> QED
      BY <2>2, <3>1, <3>2
  <2>5. \A d \in 1 .. Len(new) : new[d].status = "PartiallyPaid" => \E i \in 1 .. Len(r) : r[i] = d
    <3> SUFFICES ASSUME NEW d \in 1 .. Len(new), new[d].status = "PartiallyPaid"
                 PROVE  \E i \in 1 .. Len(r) : r[i] = d
      OBVIOUS
    <3>1. CASE d = c
      BY <2>2, <3>1
    <3>2. CASE d # c
      <4>1. PICK j \in 1 .. Len(q) : q[j] = d
        BY <3>2 DEF Queued
      <4> QED
        BY <2>2, <4>1
    <3> QED
      BY <3>1, <3>2
  <2> QED
    BY <2>2, <2>3, <2>4, <2>5 DEF Queued
<1> QED
  BY <1>2, <1>3, <1>4

\* What a payout does to the pool.
PoolPaid(p, n, r) ==
  /\ r = [p EXCEPT !.total = @ - n, !.coverage = @ - n, !.payout = @ + n]
  /\ r \in PoolRow /\ r.total = p.total - n /\ r.payout = p.payout + n
  /\ r.staked = p.staked /\ r.queued = p.queued

LEMMA PoolPays ==
  ASSUME NEW p \in PoolRow, NEW n \in Nat, n <= p.coverage
  PROVE  \E r : PoolPaid(p, n, r)
<1>0. PICK r : r = [p EXCEPT !.total = @ - n, !.coverage = @ - n, !.payout = @ + n]
  OBVIOUS
<1>1. r = [total |-> r.total, staked |-> r.staked, queued |-> r.queued, coverage |-> r.coverage,
           payout |-> r.payout]
  BY <1>0 DEF PoolRow
<1>2. /\ r.total = p.total - n /\ r.coverage = p.coverage - n /\ r.payout = p.payout + n
      /\ r.staked = p.staked /\ r.queued = p.queued
  BY <1>0 DEF PoolRow
<1>3. /\ p.total \in Int /\ p.staked \in Nat /\ p.queued \in Nat /\ p.coverage \in Nat
      /\ p.payout \in Nat
  BY DEF PoolRow
<1>4. /\ r.total \in Int /\ r.staked \in Nat /\ r.queued \in Nat /\ r.coverage \in Nat
      /\ r.payout \in Nat
  BY <1>2, <1>3
<1>5. r \in PoolRow
  BY <1>1, <1>4 DEF PoolRow
<1> QED
  BY <1>0, <1>2, <1>5 DEF PoolPaid

\* The claim after n more is paid on it.
ClaimAfter(cl, c, n, st) == [cl EXCEPT ![c].paid = @ + n, ![c].status = st]

\* Only that claim changes, and it keeps its amount.
ClaimPaid(cl, c, n, st, r) ==
  /\ r = ClaimAfter(cl, c, n, st) /\ r \in Seq(ClaimRow) /\ Len(r) = Len(cl)
  /\ r[c].paid = cl[c].paid + n /\ r[c].amount = cl[c].amount /\ r[c].status = st
  /\ \A d \in 1 .. Len(cl) : d # c => r[d] = cl[d]

\* A payment on a claim is such a change.
LEMMA ClaimPays ==
  ASSUME NEW cl \in Seq(ClaimRow), NEW c \in 1 .. Len(cl), NEW n \in Nat, NEW st \in ClaimStatus
  PROVE  \E r : ClaimPaid(cl, c, n, st, r)
<1>0. cl[c] \in ClaimRow
  BY ElementOfSeq
<1>1. PICK d : d = [cl[c] EXCEPT !.paid = @ + n, !.status = st]
  OBVIOUS
<1>2. d = [by |-> d.by, amount |-> d.amount, status |-> d.status, approvals |-> d.approvals,
           paid |-> d.paid]
  BY <1>0, <1>1 DEF ClaimRow
<1>3. /\ d.paid = cl[c].paid + n /\ d.amount = cl[c].amount /\ d.status = st
      /\ d.by = cl[c].by /\ d.approvals = cl[c].approvals
  BY <1>0, <1>1 DEF ClaimRow
<1>4. d \in ClaimRow
  <2>1. /\ cl[c].by \in Account /\ cl[c].amount \in Nat /\ cl[c].approvals \in SUBSET Approver
        /\ cl[c].paid \in Nat
    BY <1>0 DEF ClaimRow
  <2>2. d.paid \in Nat
    BY <1>3, <2>1
  <2> QED
    BY <1>2, <1>3, <2>1, <2>2 DEF ClaimRow
<1>5. PICK r : r = [cl EXCEPT ![c] = d]
  OBVIOUS
<1>6. r = ClaimAfter(cl, c, n, st)
  BY <1>0, <1>1, <1>5 DEF ClaimRow, ClaimAfter
<1>7. r \in Seq(ClaimRow) /\ Len(r) = Len(cl)
  BY <1>4, <1>5, ExceptSeq
<1>8. r[c] = d /\ \A e \in 1 .. Len(cl) : e # c => r[e] = cl[e]
  BY <1>5
<1> QED
  BY <1>3, <1>6, <1>7, <1>8 DEF ClaimPaid

\* What it does to the epoch.
LEMMA EpochPays ==
  ASSUME NEW x \in EpochRow, NEW n \in Nat
  PROVE  \E r : /\ r = [x EXCEPT !.paid = @ + n]
               /\ r \in EpochRow /\ r.paid = x.paid + n /\ r.opening = x.opening
<1>1. PICK r : r = [x EXCEPT !.paid = @ + n]
  OBVIOUS
<1>2. r \in EpochRow /\ r.paid = x.paid + n /\ r.opening = x.opening
  BY <1>1 DEF EpochRow
<1> QED
  BY <1>1, <1>2

\* The function g is f but at x, over integers.
Changed(f, g, S, x) ==
  /\ IsFiniteSet(S) /\ x \in S /\ g[x] \in Int
  /\ \A y \in S : f[y] \in Int
  /\ \A y \in S : y # x => g[y] = f[y]

\* Then the totals differ by what that value does.
LEMMA ChangedTotal ==
  ASSUME NEW f, NEW g, NEW S, NEW x, Changed(f, g, S, x)
  PROVE  Total(g, S) = Total(f, S) - f[x] + g[x] /\ Total(f, S) \in Int
<1>1. /\ IsFiniteSet(S) /\ x \in S /\ g[x] \in Int
      /\ \A y \in S : f[y] \in Int
      /\ \A y \in S : y # x => g[y] = f[y]
  BY DEF Changed
<1>2. Total(g, S) = Total(f, S) - f[x] + g[x]
  BY <1>1, TotalChange
<1>3. Total(f, S) \in Int
  BY <1>1, TotalDrop
<1> QED
  BY <1>2, <1>3

\* And without x, by its value.
LEMMA ChangedDrop ==
  ASSUME NEW f, NEW g, NEW S, NEW x, Changed(f, g, S, x)
  PROVE  Total(f, S \ {x}) = Total(f, S) - f[x]
<1>1. IsFiniteSet(S) /\ x \in S /\ \A y \in S : f[y] \in Int
  BY DEF Changed
<1> QED
  BY <1>1, TotalDrop

\* One claim's tranche is all that the claims' payments grow by.
LEMMA PaidGrows ==
  ASSUME NEW cl \in Seq(ClaimRow), NEW new \in Seq(ClaimRow), Len(new) = Len(cl),
         NEW c \in 1 .. Len(cl), NEW n \in Nat, new[c].paid = cl[c].paid + n,
         \A d \in 1 .. Len(cl) : d # c => new[d].paid = cl[d].paid
  PROVE  Total(PaidOn(new), 1 .. Len(new)) = Total(PaidOn(cl), 1 .. Len(cl)) + n
<1>1. PICK S, f, g, k : /\ S = 1 .. Len(cl) /\ S = 1 .. Len(new) /\ k = c
                        /\ f = PaidOn(cl) /\ g = PaidOn(new)
  OBVIOUS
<1>2. IsFiniteSet(S) /\ k \in S
  BY <1>1, PaidIs
<1>3. \A d \in S : f[d] \in Int /\ f[d] = cl[d].paid
  BY <1>1, PaidIs
<1>4. \A d \in S : g[d] = new[d].paid
  BY <1>1, PaidIs
<1>5. g[k] \in Int /\ g[k] = f[k] + n /\ f[k] \in Int
  BY <1>1, <1>2, <1>3, <1>4
<1>6. \A d \in S : d # k => g[d] = f[d]
  BY <1>1, <1>3, <1>4
<1>7. Changed(f, g, S, k)
  BY <1>2, <1>3, <1>5, <1>6 DEF Changed
<1>8. Total(g, S) = Total(f, S) - f[k] + g[k] /\ Total(f, S) \in Int
  BY <1>7, ChangedTotal
<1> QED
  BY <1>1, <1>5, <1>8

\* The part of the state that payouts write.
Record(p, e, cl, q) == [pool |-> p, epoch |-> e, claim |-> cl, queue |-> q]

\* A tranche of claim c, from a sound state s to r.
Tranche(p, e, cl, q, s, c, r) ==
  /\ Sound(p, e, cl, q) /\ s = Record(p, e, cl, q) /\ c \in 1 .. Len(cl)
  /\ CanPay(s, c) /\ r = PayTranche(s, c)

\* It keeps the books: what it pays leaves the pool, the coverage, the
\* epoch's budget and the claim's remainder at once.
LEMMA TrancheKeeps ==
  ASSUME now \in Nat, caps \in Caps, NEW p, NEW e, NEW cl, NEW q, NEW s, NEW c, NEW r,
         Tranche(p, e, cl, q, s, c, r)
  PROVE  /\ r = Record(r.pool, r.epoch, r.claim, r.queue)
         /\ Sound(r.pool, r.epoch, r.claim, r.queue) /\ Len(r.claim) = Len(cl)
         /\ r.pool.staked = p.staked /\ r.pool.queued = p.queued
<1>t. /\ Sound(p, e, cl, q) /\ s = Record(p, e, cl, q) /\ c \in 1 .. Len(cl)
      /\ CanPay(s, c) /\ r = PayTranche(s, c)
  BY DEF Tranche
<1>0. /\ p \in PoolRow /\ e \in EpochRow /\ cl \in Seq(ClaimRow) /\ q \in Seq(Nat)
      /\ p.total + p.payout = p.staked + p.queued
      /\ p.payout = Total(PaidOn(cl), 1 .. Len(cl))
      /\ e.paid > 0 => \E k \in Caps : e.paid <= BpsOf(e.opening, k.drain)
      /\ \A d \in 1 .. Len(cl) : cl[d].paid <= cl[d].amount
      /\ Queued(q, cl)
  BY <1>t DEF Sound
<1>1. s.pool = p /\ s.epoch = e /\ s.claim = cl /\ s.queue = q
  BY <1>t DEF Record
<1>a. PICK x, n, pay, some :
      /\ x = CurrentEpoch(s) /\ n = cl[c].amount - cl[c].paid /\ pay = Payable(s, x, n)
      /\ some = IF pay > 0 THEN pay ELSE 0
  OBVIOUS
<1>b. PICK done, z, st :
      /\ done \in BOOLEAN /\ done = (some = n) /\ z = QueueAfter(q, c, done)
      /\ st = IF done THEN "Paid" ELSE "PartiallyPaid"
  OBVIOUS
<1>3. /\ cl[c] \in ClaimRow /\ cl[c].amount \in Nat /\ cl[c].paid \in Nat /\ n \in Nat
      /\ p.coverage \in Nat /\ n <= p.coverage /\ p.total \in Int
  <2>1. cl[c] \in ClaimRow /\ cl[c].amount \in Nat /\ cl[c].paid \in Nat /\ cl[c].paid <= cl[c].amount
    BY <1>0, <1>t, PaidIs
  <2>2. p.coverage \in Nat /\ p.total \in Int
    BY <1>0 DEF PoolRow
  <2>3. p.coverage >= n
    BY <1>1, <1>a, <1>t DEF CanPay
  <2>4. n \in Nat /\ n <= p.coverage
    BY <1>a, <2>1, <2>2, <2>3
  <2> QED
    BY <2>1, <2>2, <2>4
<1>4. /\ x \in EpochRow
      /\ x.paid > 0 => \E k \in Caps : x.paid <= BpsOf(x.opening, k.drain)
  BY <1>0, <1>1, <1>3, <1>a, EpochIs
<1>5. /\ some \in Nat /\ some <= n
      /\ some > 0 => x.paid + some <= BpsOf(x.opening, caps.drain)
  <2>1. /\ pay \in Int /\ pay <= n
        /\ pay > 0 => x.paid + pay <= BpsOf(x.opening, caps.drain)
    BY <1>1, <1>3, <1>4, <1>a, PayableIs
  <2> QED
    BY <1>3, <1>a, <2>1
<1>q. PICK p2 : PoolPaid(p, some, p2)
  <2>1. some <= p.coverage
    BY <1>3, <1>5
  <2> QED
    <3>1. p \in PoolRow /\ some \in Nat
      BY <1>0, <1>5
    <3> QED
      BY <2>1, <3>1, PoolPays
<1>6. /\ p2 = [p EXCEPT !.total = @ - some, !.coverage = @ - some, !.payout = @ + some]
      /\ p2 \in PoolRow /\ p2.total = p.total - some /\ p2.payout = p.payout + some
      /\ p2.staked = p.staked /\ p2.queued = p.queued
  BY <1>q DEF PoolPaid
<1>7. p2.total + p2.payout = p2.staked + p2.queued
  <2>1. p.total \in Int /\ p.payout \in Nat
    BY <1>0 DEF PoolRow
  <2> QED
    BY <1>0, <1>5, <1>6, <2>1
<1>8. PICK x2 : /\ x2 = [x EXCEPT !.paid = @ + some]
                /\ x2 \in EpochRow /\ x2.paid = x.paid + some /\ x2.opening = x.opening
  BY <1>4, <1>5, EpochPays
<1>9. x2.paid > 0 => \E k \in Caps : x2.paid <= BpsOf(x2.opening, k.drain)
  <2>1. CASE some = 0
    <3>1. x2.paid = x.paid
      BY <1>4, <1>8, <2>1 DEF EpochRow
    <3> QED
      BY <1>4, <1>8, <3>1
  <2>2. CASE some > 0
    BY <1>5, <1>8, <2>2
  <2> QED
    BY <1>5, <2>1, <2>2
<1>p. PICK cl2 : ClaimPaid(cl, c, some, st, cl2)
  <2>1. st \in ClaimStatus
    BY <1>b DEF ClaimStatus
  <2> QED
    <3>1. cl \in Seq(ClaimRow)
      BY <1>0
    <3>2. some \in Nat
      BY <1>5
    <3> QED
      BY <1>t, <2>1, <3>1, <3>2, ClaimPays
<1>10. /\ cl2 = ClaimAfter(cl, c, some, st)
       /\ cl2 \in Seq(ClaimRow) /\ Len(cl2) = Len(cl)
       /\ cl2[c].paid = cl[c].paid + some /\ cl2[c].amount = cl[c].amount
       /\ cl2[c].status = st
       /\ \A d \in 1 .. Len(cl) : d # c => cl2[d] = cl[d]
  BY <1>p DEF ClaimPaid
<1>11. r = Record(p2, x2, cl2, z)
  BY <1>1, <1>6, <1>8, <1>10, <1>a, <1>b, <1>t DEF PayTranche, QueueAfter, Record, ClaimAfter
<1>12. \A d \in 1 .. Len(cl2) : cl2[d].paid <= cl2[d].amount
  <2>1. cl2[c].paid <= cl2[c].amount
    <3>1. /\ cl[c].amount \in Nat /\ cl[c].paid \in Nat /\ cl[c].paid <= cl[c].amount
          /\ some <= cl[c].amount - cl[c].paid /\ some \in Nat
      BY <1>3, <1>5, <1>a
    <3>2. cl2[c].paid = cl[c].paid + some /\ cl2[c].amount = cl[c].amount
      BY <1>10
    <3> QED
      BY <3>1, <3>2
  <2> QED
    BY <1>0, <1>10, <2>1
<1>13. p2.payout = Total(PaidOn(cl2), 1 .. Len(cl2))
  <2>1. Total(PaidOn(cl2), 1 .. Len(cl2)) = Total(PaidOn(cl), 1 .. Len(cl)) + some
    <3>1. cl \in Seq(ClaimRow) /\ cl2 \in Seq(ClaimRow) /\ Len(cl2) = Len(cl)
      BY <1>0, <1>10
    <3>2. cl2[c].paid = cl[c].paid + some
      BY <1>10
    <3>3. \A d \in 1 .. Len(cl) : d # c => cl2[d].paid = cl[d].paid
      BY <1>10
    <3> QED
      BY <1>5, <1>t, <3>1, <3>2, <3>3, PaidGrows
  <2>2. p.payout \in Nat
    BY <1>0 DEF PoolRow
  <2> QED
    BY <1>0, <1>6, <2>1, <2>2
<1>14. z \in Seq(Nat) /\ Queued(z, cl2)
  <2>1. cl2[c].status = IF done THEN "Paid" ELSE "PartiallyPaid"
    BY <1>10, <1>b
  <2>2. \A d \in 1 .. Len(cl) : d # c => cl2[d].status = cl[d].status
    BY <1>10
  <2> QED
    <3>1. cl \in Seq(ClaimRow) /\ q \in Seq(Nat) /\ Queued(q, cl)
      BY <1>0
    <3>2. cl2 \in Seq(ClaimRow) /\ Len(cl2) = Len(cl)
      BY <1>10
    <3>3. z = QueueAfter(q, c, done)
      BY <1>b
    <3>4. Requeued(cl, cl2, q, z, c, done)
      BY <1>b, <1>t, <2>1, <2>2, <3>1, <3>2, <3>3 DEF Requeued
    <3> QED
      BY <3>4, QueueAfterIs
<1>15. Sound(p2, x2, cl2, z)
  BY <1>6, <1>7, <1>8, <1>9, <1>10, <1>12, <1>13, <1>14 DEF Sound
<1>16. r.pool = p2 /\ r.epoch = x2 /\ r.claim = cl2 /\ r.queue = z
  BY <1>11 DEF Record
<1> QED
  BY <1>6, <1>10, <1>11, <1>15, <1>16

\* A state that payouts may leave: the books are sound, the claims are as
\* many, and what stakers own is as it was.
Kept(s) ==
  /\ s = Record(s.pool, s.epoch, s.claim, s.queue)
  /\ Sound(s.pool, s.epoch, s.claim, s.queue) /\ Len(s.claim) = Len(claim)
  /\ s.pool.staked = pool.staked /\ s.pool.queued = pool.queued

\* A tranche goes from such a state to another.
LEMMA KeptByTranche ==
  ASSUME now \in Nat, caps \in Caps, NEW s, Kept(s), NEW c \in 1 .. Len(claim), CanPay(s, c)
  PROVE  Kept(PayTranche(s, c))
<1>1. PICK p, e, cl, q, r : /\ p = s.pool /\ e = s.epoch /\ cl = s.claim /\ q = s.queue
                            /\ r = PayTranche(s, c)
  OBVIOUS
<1>2. /\ Sound(p, e, cl, q) /\ s = Record(p, e, cl, q) /\ c \in 1 .. Len(cl)
      /\ Len(cl) = Len(claim) /\ p.staked = pool.staked /\ p.queued = pool.queued
  BY <1>1 DEF Kept
<1>3. r = PayTranche(s, c)
  BY <1>1
<1>4. /\ r = Record(r.pool, r.epoch, r.claim, r.queue)
      /\ Sound(r.pool, r.epoch, r.claim, r.queue) /\ Len(r.claim) = Len(cl)
      /\ r.pool.staked = p.staked /\ r.pool.queued = p.queued
  <2>1. Tranche(p, e, cl, q, s, c, r)
    BY <1>2, <1>3 DEF Tranche
  <2> QED
    BY <2>1, TrancheKeeps
<1> QED
  BY <1>2, <1>3, <1>4 DEF Kept

\* The claims and the pool before any payout.
LEMMA LedgerIsKept ==
  ASSUME Sound(pool, epoch, claim, payQueue)
  PROVE  Kept(Ledger)
<1>1. /\ Ledger = Record(pool, epoch, claim, payQueue)
      /\ Ledger.pool = pool /\ Ledger.epoch = epoch /\ Ledger.claim = claim
      /\ Ledger.queue = payQueue
  BY DEF Ledger, Record
<1> QED
  BY <1>1 DEF Kept

\* A position of the queue that is passed over.
Skips(run, c) == ~ run.ok \/ run.stop \/ run.s.claim[c].status # "PartiallyPaid"

\* One position of the queue keeps the books, whether it pays or not.
LEMMA KeptByNext ==
  ASSUME now \in Nat, caps \in Caps, NEW run, Kept(run.s),
         run = [s |-> run.s, ok |-> run.ok, stop |-> run.stop], NEW c \in 1 .. Len(claim)
  PROVE  LET r == PayNext(run, c) IN
         Kept(r.s) /\ r = [s |-> r.s, ok |-> r.ok, stop |-> r.stop]
<1>1. PICK r : r = PayNext(run, c)
  OBVIOUS
<1>2. CASE Skips(run, c)
  <2>1. r = run
    BY <1>1, <1>2 DEF PayNext, Skips
  <2> QED
    BY <1>1, <2>1
<1>3. CASE ~ Skips(run, c) /\ ~ CanPay(run.s, c)
  <2>1. r = [run EXCEPT !.ok = FALSE]
    BY <1>1, <1>3 DEF PayNext, Skips
  <2>2. r.s = run.s /\ r = [s |-> r.s, ok |-> r.ok, stop |-> r.stop]
    BY <2>1
  <2> QED
    BY <1>1, <2>2
<1>4. CASE ~ Skips(run, c) /\ CanPay(run.s, c)
  <2>1. PICK s, b : s = PayTranche(run.s, c) /\ b = (s.claim[c].paid = run.s.claim[c].paid)
    OBVIOUS
  <2>2. r = [run EXCEPT !.s = s, !.stop = b]
    BY <1>1, <1>4, <2>1 DEF PayNext, Skips
  <2>3. r.s = s /\ r = [s |-> r.s, ok |-> r.ok, stop |-> r.stop]
    BY <2>2
  <2>4. Kept(s)
    BY <1>4, <2>1, KeptByTranche
  <2> QED
    BY <1>1, <2>3, <2>4
<1> QED
  BY <1>2, <1>3, <1>4

\* `Pays' is the equation that defines the run of the queue.
Pays(n, run) ==
  run = [i \in 0 .. n |-> IF i = 0 THEN [s |-> Ledger, ok |-> TRUE, stop |-> FALSE]
                          ELSE PayNext(run[i - 1], payQueue[i])]

\* The equation has a solution.
LEMMA PaysExist == ASSUME NEW n \in Nat PROVE \E run : Pays(n, run)
<1> DEFINE T == {m \in Nat : \E run : Pays(m, run)}
           Before == [s |-> Ledger, ok |-> TRUE, stop |-> FALSE]
<1>1. 0 \in T
  <2> DEFINE run == [i \in 0 .. 0 |-> Before]
  <2>1. run = [i \in 0 .. 0 |-> IF i = 0 THEN Before ELSE PayNext(run[i - 1], payQueue[i])]
    OBVIOUS
  <2>2. Pays(0, run)
    BY <2>1 DEF Pays
  <2> QED
    BY <2>2
<1>2. ASSUME NEW m \in Nat, m \in T PROVE m + 1 \in T
  <2>1. PICK run : Pays(m, run)
    BY <1>2
  <2>2. run = [i \in 0 .. m |-> IF i = 0 THEN Before ELSE PayNext(run[i - 1], payQueue[i])]
    BY <2>1 DEF Pays
  <2> HIDE DEF Before
  <2> DEFINE new == [i \in 0 .. m + 1 |-> IF i = m + 1 THEN PayNext(run[m], payQueue[i]) ELSE run[i]]
  <2>3. ASSUME NEW i \in 0 .. m + 1
        PROVE  new[i] = IF i = 0 THEN Before ELSE PayNext(new[i - 1], payQueue[i])
    <3>1. CASE i = 0
      <4>1. 0 \in 0 .. m /\ i # m + 1
        BY <3>1
      <4> QED
        BY <2>2, <3>1, <4>1
    <3>2. CASE i = m + 1
      <4>1. new[i - 1] = run[m] /\ i # 0
        BY <3>2
      <4> QED
        BY <3>2, <4>1
    <3>3. CASE i # 0 /\ i # m + 1
      <4>1. i \in 0 .. m /\ i - 1 \in 0 .. m + 1 /\ i - 1 # m + 1
        BY <3>3
      <4>2. new[i] = run[i] /\ new[i - 1] = run[i - 1]
        BY <3>3, <4>1
      <4>3. run[i] = PayNext(run[i - 1], payQueue[i])
        BY <2>2, <3>3, <4>1
      <4> QED
        BY <3>3, <4>2, <4>3
    <3> QED
      BY <3>1, <3>2, <3>3
  <2>4. Pays(m + 1, new)
    BY <2>3, Zenon DEF Pays, Before
  <2> QED
    BY <2>4
<1> HIDE DEF T
<1>3. n \in T
  BY <1>1, <1>2, NaturalsBySteps
<1> QED
  BY <1>3 DEF T

\* Whatever the queue holds and wherever it stops, a run of it keeps the books.
LEMMA KeptByQueue ==
  ASSUME now \in Nat, caps \in Caps, Sound(pool, epoch, claim, payQueue)
  PROVE  Kept(QueueRun.s)
<1>0. /\ Len(payQueue) \in Nat /\ \A i \in 1 .. Len(payQueue) : payQueue[i] \in 1 .. Len(claim)
  BY DEF Sound, Queued
<1> DEFINE n == Len(payQueue)
           f == CHOOSE run : Pays(n, run)
<1>1. QueueRun = f[n]
  BY Zenon DEF QueueRun, Pays
<1>2. Pays(n, f)
  <2>1. \E run : Pays(n, run)
    BY <1>0, PaysExist
  <2> QED
    BY <2>1, Zenon
<1> HIDE DEF f
<1>3. ASSUME NEW i \in 0 .. n
      PROVE  f[i] = IF i = 0 THEN [s |-> Ledger, ok |-> TRUE, stop |-> FALSE]
                    ELSE PayNext(f[i - 1], payQueue[i])
  BY <1>2 DEF Pays
<1> DEFINE T == {m \in Nat : m <= n => /\ Kept(f[m].s)
                                       /\ f[m] = [s |-> f[m].s, ok |-> f[m].ok, stop |-> f[m].stop]}
<1>4. 0 \in T
  <2>1. f[0] = [s |-> Ledger, ok |-> TRUE, stop |-> FALSE]
    <3>1. 0 \in 0 .. n
      BY <1>0
    <3> QED
      BY <1>3, <3>1
  <2>2. f[0].s = Ledger /\ f[0] = [s |-> f[0].s, ok |-> f[0].ok, stop |-> f[0].stop]
    BY <2>1
  <2> QED
    BY <2>2, LedgerIsKept
<1>5. ASSUME NEW m \in Nat, m \in T PROVE m + 1 \in T
  <2> SUFFICES ASSUME m + 1 <= n
               PROVE  /\ Kept(f[m + 1].s)
                      /\ f[m + 1] = [s |-> f[m + 1].s, ok |-> f[m + 1].ok, stop |-> f[m + 1].stop]
    OBVIOUS
  <2>1. PICK run : run = f[m]
    OBVIOUS
  <2>2. Kept(run.s) /\ run = [s |-> run.s, ok |-> run.ok, stop |-> run.stop]
    BY <1>0, <1>5, <2>1
  <2>3. PICK c : c = payQueue[m + 1]
    OBVIOUS
  <2>4. c \in 1 .. Len(claim)
    BY <1>0, <2>3
  <2>5. f[m + 1] = PayNext(run, c)
    <3>1. m + 1 \in 0 .. n /\ m + 1 # 0 /\ (m + 1) - 1 = m
      BY <1>0
    <3> QED
      BY <1>3, <2>1, <2>3, <3>1
  <2> QED
    BY <2>2, <2>4, <2>5, KeptByNext
<1> HIDE DEF T
<1>6. n \in T
  BY <1>0, <1>4, <1>5, NaturalsBySteps
<1> QED
  BY <1>0, <1>1, <1>6 DEF T

\* Money may come, go back and be covered, as long as the books balance.
LEMMA SoundPool ==
  ASSUME NEW p, NEW e, NEW cl, NEW q, Sound(p, e, cl, q), NEW new \in PoolRow,
         new.total + new.payout = new.staked + new.queued, new.payout = p.payout
  PROVE  Sound(new, e, cl, q)
  BY DEF Sound

\* A claim is edited that is neither paid nor queued by it.
Edited(cl, c, d, new) ==
  /\ c \in 1 .. Len(cl) /\ d \in ClaimRow /\ d.paid = cl[c].paid /\ d.amount = cl[c].amount
  /\ d.status # "PartiallyPaid" /\ cl[c].status # "PartiallyPaid"
  /\ new = [cl EXCEPT ![c] = d]

\* The books stay sound under it.
LEMMA SoundEdited ==
  ASSUME NEW p, NEW e, NEW cl, NEW q, Sound(p, e, cl, q), NEW c, NEW d, NEW new,
         Edited(cl, c, d, new)
  PROVE  Sound(p, e, new, q) /\ Len(new) = Len(cl)
<1>e. /\ c \in 1 .. Len(cl) /\ d \in ClaimRow /\ d.paid = cl[c].paid /\ d.amount = cl[c].amount
      /\ d.status # "PartiallyPaid" /\ cl[c].status # "PartiallyPaid"
      /\ new = [cl EXCEPT ![c] = d]
  BY DEF Edited
<1>0. /\ p \in PoolRow /\ e \in EpochRow /\ cl \in Seq(ClaimRow) /\ q \in Seq(Nat)
      /\ p.total + p.payout = p.staked + p.queued
      /\ p.payout = Total(PaidOn(cl), 1 .. Len(cl))
      /\ e.paid > 0 => \E k \in Caps : e.paid <= BpsOf(e.opening, k.drain)
      /\ \A x \in 1 .. Len(cl) : cl[x].paid <= cl[x].amount
      /\ Queued(q, cl)
  BY DEF Sound
<1>1. new \in Seq(ClaimRow) /\ Len(new) = Len(cl)
  BY <1>0, <1>e, ExceptSeq
<1>2. new[c] = d /\ \A x \in 1 .. Len(cl) : x # c => new[x] = cl[x]
  BY <1>0, <1>e
<1>3. \A x \in 1 .. Len(cl) : /\ new[x].paid = cl[x].paid /\ new[x].amount = cl[x].amount
                              /\ new[x].status = "PartiallyPaid" <=> cl[x].status = "PartiallyPaid"
  BY <1>2, <1>e
<1>4. PaidOn(new) = PaidOn(cl)
  BY <1>1, <1>3 DEF PaidOn
<1>5. Queued(q, new)
  BY <1>0, <1>1, <1>3 DEF Queued
<1>6. \A x \in 1 .. Len(new) : new[x].paid <= new[x].amount
  BY <1>0, <1>1, <1>3
<1>7. p.payout = Total(PaidOn(new), 1 .. Len(new))
  BY <1>0, <1>1, <1>4
<1> QED
  BY <1>0, <1>1, <1>5, <1>6, <1>7 DEF Sound

\* Nothing else happens to stakers.
LEMMA StakeFrame ==
  ASSUME StakeInv, UNCHANGED <<stake, pending, withdrawal>>,
         pool'.staked = pool.staked, pool'.queued = pool.queued
  PROVE  StakeInv'
<1>1. UNCHANGED Requested /\ \A s \in Account : UNCHANGED OpenRequests(s)
  BY DEF Requested, OpenRequests
<1> QED
  BY <1>1 DEF StakeInv

\* An administrator changes the caps or the quorum.
LEMMA KeepsConfigurePool == InsuranceInv /\ ConfigurePool /\ UNCHANGED now => InsuranceInv'
<1> SUFFICES ASSUME InsuranceInv, ConfigurePool, UNCHANGED now PROVE InsuranceInv'
  OBVIOUS
<1>1. Cardinality(Approver) \in Nat
  BY PoolConstants, FS_Subset, FS_CardinalityType
<1>2. caps' \in Caps /\ quota' \in Nat /\ UNCHANGED <<pool, stake, pending, withdrawal, claim, epoch, payQueue>>
  BY <1>1 DEF ConfigurePool, InsuranceInv
<1>3. StakeInv'
  BY <1>2, StakeFrame DEF InsuranceInv
<1> QED
  BY <1>2, <1>3 DEF InsuranceInv

\* Time passes.
LEMMA KeepsCloseLedger == InsuranceInv /\ CloseLedger /\ UNCHANGED insuranceVars => InsuranceInv'
<1> SUFFICES ASSUME InsuranceInv, CloseLedger, UNCHANGED insuranceVars PROVE InsuranceInv'
  OBVIOUS
<1>1. /\ now' \in Nat
      /\ UNCHANGED <<caps, quota, pool, stake, pending, withdrawal, claim, epoch, payQueue>>
  BY DEF CloseLedger, insuranceVars, InsuranceInv
<1>2. StakeInv'
  BY <1>1, StakeFrame DEF InsuranceInv
<1> QED
  BY <1>1, <1>2 DEF InsuranceInv

\* A payout leaves what stakers own alone.
LEMMA KeepsPayout ==
  ASSUME InsuranceInv, UNCHANGED now, NEW s, Kept(s), Payout(s)
  PROVE  InsuranceInv'
<1>1. /\ pool' = s.pool /\ epoch' = s.epoch /\ claim' = s.claim /\ payQueue' = s.queue
      /\ UNCHANGED <<caps, quota, stake, pending, withdrawal>>
  BY DEF Payout
<1>2. Sound(pool', epoch', claim', payQueue') /\ Len(claim') = Len(claim)
  BY <1>1 DEF Kept
<1>3. pool'.staked = pool.staked /\ pool'.queued = pool.queued
  BY <1>1 DEF Kept
<1>4. StakeInv'
  BY <1>1, <1>3, StakeFrame DEF InsuranceInv
<1> QED
  BY <1>1, <1>2, <1>4 DEF InsuranceInv

\* A tranche of one claim.
LEMMA KeepsExecutePayout ==
  ASSUME InsuranceInv, UNCHANGED now, NEW c \in 1 .. Len(claim), ExecutePayout(c)
  PROVE  InsuranceInv'
<1>1. Kept(Ledger) /\ CanPay(Ledger, c) /\ now \in Nat /\ caps \in Caps
  BY LedgerIsKept DEF InsuranceInv, ExecutePayout
<1>2. Kept(PayTranche(Ledger, c))
  BY <1>1, KeptByTranche
<1>3. Payout(PayTranche(Ledger, c))
  BY DEF ExecutePayout
<1> QED
  BY <1>2, <1>3, KeepsPayout

\* A run of the queue.
LEMMA KeepsProcessPayoutQueue ==
  ASSUME InsuranceInv, UNCHANGED now, ProcessPayoutQueue
  PROVE  InsuranceInv'
<1>1. Kept(QueueRun.s)
  BY KeptByQueue DEF InsuranceInv
<1>2. Payout(QueueRun.s)
  BY DEF ProcessPayoutQueue
<1> QED
  BY <1>1, <1>2, KeepsPayout

\* The parts of the invariant that the steps of stakers use.
LEMMA InsuranceFacts ==
  ASSUME InsuranceInv
  PROVE  /\ now \in Nat /\ caps \in Caps /\ quota \in Nat /\ Len(claim) <= MaxClaims
         /\ Sound(pool, epoch, claim, payQueue) /\ StakeInv
         /\ pool \in PoolRow /\ claim \in Seq(ClaimRow)
         /\ pool.total \in Int /\ pool.staked \in Nat /\ pool.queued \in Nat
         /\ pool.coverage \in Nat /\ pool.payout \in Nat
         /\ pool.total + pool.payout = pool.staked + pool.queued
         /\ stake \in [Account -> Nat] /\ pending \in [Account -> Nat]
         /\ withdrawal \in Seq(WithdrawalRow) /\ Len(withdrawal) \in Nat
         /\ \A r \in 1 .. Len(withdrawal) : withdrawal[r] \in WithdrawalRow
         /\ pool.staked = Total(stake, Account) /\ pool.queued = Total(pending, Account)
         /\ \A s \in Account : pending[s] = Total(Requested, OpenRequests(s))
<1>1. /\ now \in Nat /\ caps \in Caps /\ quota \in Nat /\ Len(claim) <= MaxClaims
      /\ Sound(pool, epoch, claim, payQueue) /\ StakeInv
  BY DEF InsuranceInv
<1>2. /\ pool \in PoolRow /\ claim \in Seq(ClaimRow)
      /\ pool.total + pool.payout = pool.staked + pool.queued
  BY <1>1 DEF Sound
<1>3. /\ pool.total \in Int /\ pool.staked \in Nat /\ pool.queued \in Nat
      /\ pool.coverage \in Nat /\ pool.payout \in Nat
  BY <1>2 DEF PoolRow
<1>4. /\ stake \in [Account -> Nat] /\ pending \in [Account -> Nat]
      /\ withdrawal \in Seq(WithdrawalRow)
      /\ pool.staked = Total(stake, Account) /\ pool.queued = Total(pending, Account)
      /\ \A s \in Account : pending[s] = Total(Requested, OpenRequests(s))
  BY <1>1 DEF StakeInv
<1>5. Len(withdrawal) \in Nat /\ \A r \in 1 .. Len(withdrawal) : withdrawal[r] \in WithdrawalRow
  BY <1>4, ElementOfSeq
<1> QED
  BY <1>1, <1>2, <1>3, <1>4, <1>5

\* One staker's position moves.
Moved(f, g, s, n) ==
  f \in [Account -> Nat] /\ s \in Account /\ n \in Nat /\ g = [f EXCEPT ![s] = n]

\* The total moves as that position does.
LEMMA PositionMoves ==
  ASSUME NEW f, NEW g, NEW s, NEW n, Moved(f, g, s, n)
  PROVE  /\ g \in [Account -> Nat] /\ g[s] = n /\ \A a \in Account : a # s => g[a] = f[a]
         /\ Total(g, Account) = Total(f, Account) - f[s] + n /\ Total(f, Account) \in Int
<1>1. g \in [Account -> Nat] /\ g[s] = n /\ \A a \in Account : a # s => g[a] = f[a]
  BY DEF Moved
<1>2. s \in Account /\ n \in Int /\ \A a \in Account : f[a] \in Int
  BY DEF Moved
<1>3. IsFiniteSet(Account)
  BY PoolConstants
<1>4. Changed(f, g, Account, s)
  BY <1>1, <1>2, <1>3 DEF Changed
<1>5. Total(g, Account) = Total(f, Account) - f[s] + g[s] /\ Total(f, Account) \in Int
  BY <1>4, ChangedTotal
<1> QED
  BY <1>1, <1>5

\* Open requests are finitely many, and each asks for a number.
LEMMA RequestsAreFinite ==
  ASSUME withdrawal \in Seq(WithdrawalRow), NEW s
  PROVE  /\ IsFiniteSet(OpenRequests(s))
         /\ \A r \in OpenRequests(s) : r \in 1 .. Len(withdrawal) /\ Requested[r] \in Int
         /\ \A r \in 1 .. Len(withdrawal) : Requested[r] = withdrawal[r].amount /\ Requested[r] \in Nat
<1>1. Len(withdrawal) \in Nat /\ \A r \in 1 .. Len(withdrawal) : withdrawal[r] \in WithdrawalRow
  BY ElementOfSeq
<1>2. OpenRequests(s) \subseteq 1 .. Len(withdrawal) /\ IsFiniteSet(1 .. Len(withdrawal))
  BY <1>1, FS_Interval DEF OpenRequests
<1>3. \A r \in 1 .. Len(withdrawal) : Requested[r] = withdrawal[r].amount /\ Requested[r] \in Nat
  BY <1>1 DEF Requested, WithdrawalRow
<1> QED
  BY <1>2, <1>3, FS_Subset

\* The pool with other amounts of money, stakes, requests and coverage.
PoolWith(p, t, k, q, c) == [p EXCEPT !.total = t, !.staked = k, !.queued = q, !.coverage = c]

\* They balance against what has been paid out.
Balanced(p, t, k, q, c) ==
  t \in Int /\ k \in Nat /\ q \in Nat /\ c \in Nat /\ t + p.payout = k + q

\* Then the books stay sound.
LEMMA PoolMoves ==
  ASSUME NEW p, NEW e, NEW cl, NEW w, Sound(p, e, cl, w),
         NEW t, NEW k, NEW q, NEW c, Balanced(p, t, k, q, c), NEW new, new = PoolWith(p, t, k, q, c)
  PROVE  Sound(new, e, cl, w) /\ new.staked = k /\ new.queued = q
<1>0. t \in Int /\ k \in Nat /\ q \in Nat /\ c \in Nat /\ t + p.payout = k + q
  BY DEF Balanced
<1>1. p \in PoolRow
  BY DEF Sound
<1>2. /\ new.total = t /\ new.staked = k /\ new.queued = q /\ new.coverage = c
      /\ new.payout = p.payout /\ p.payout \in Nat
      /\ new = [total |-> new.total, staked |-> new.staked, queued |-> new.queued,
                coverage |-> new.coverage, payout |-> new.payout]
  BY <1>1 DEF PoolRow, PoolWith
<1>3. new \in PoolRow
  BY <1>0, <1>2 DEF PoolRow
<1>4. new.total + new.payout = new.staked + new.queued /\ new.payout = p.payout
  BY <1>0, <1>2
<1> QED
  BY <1>2, <1>3, <1>4, SoundPool

\* A stake.
LEMMA KeepsStakeLiquidity ==
  ASSUME InsuranceInv, UNCHANGED now, NEW s \in Account, NEW n \in Amount, StakeLiquidity(s, n)
  PROVE  InsuranceInv'
<1>1. /\ pool' = [pool EXCEPT !.total = @ + n, !.staked = @ + n]
      /\ stake' = [stake EXCEPT ![s] = @ + n]
      /\ UNCHANGED <<caps, quota, pending, withdrawal, claim, epoch, payQueue>>
  BY DEF StakeLiquidity
<1>2. /\ pool \in PoolRow /\ stake \in [Account -> Nat] /\ stake[s] \in Nat /\ n \in Nat
      /\ pool.staked = Total(stake, Account)
  BY InsuranceFacts, PoolConstants
<1>3. /\ pool.total \in Int /\ pool.staked \in Nat /\ pool.queued \in Nat
      /\ pool.coverage \in Nat /\ pool.payout \in Nat
      /\ pool.total + pool.payout = pool.staked + pool.queued
  BY InsuranceFacts
<1>4. PICK t, k, m : t = pool.total + n /\ k = pool.staked + n /\ m = stake[s] + n
  OBVIOUS
<1>5. t \in Int /\ k \in Nat /\ m \in Nat /\ t + pool.payout = k + pool.queued
  BY <1>2, <1>3, <1>4
<1>6. pool' = PoolWith(pool, t, k, pool.queued, pool.coverage)
  BY <1>1, <1>2, <1>4 DEF PoolWith, PoolRow
<1>7. Sound(pool', epoch, claim, payQueue) /\ pool'.staked = k /\ pool'.queued = pool.queued
  <2>1. Sound(pool, epoch, claim, payQueue)
    BY InsuranceFacts
  <2>2. Balanced(pool, t, k, pool.queued, pool.coverage)
    BY <1>3, <1>5 DEF Balanced
  <2> QED
    BY <1>6, <2>1, <2>2, PoolMoves
<1>8. /\ stake' \in [Account -> Nat]
      /\ Total(stake', Account) = Total(stake, Account) - stake[s] + m /\ Total(stake, Account) \in Int
  <2>1. stake' = [stake EXCEPT ![s] = m]
    BY <1>1, <1>4
  <2>2. stake \in [Account -> Nat] /\ m \in Nat
    BY <1>2, <1>5
  <2>3. Moved(stake, stake', s, m)
    BY <2>1, <2>2 DEF Moved
  <2> QED
    BY <2>3, PositionMoves
<1>9. k = Total(stake', Account)
  BY <1>2, <1>3, <1>4, <1>8
<1>10. StakeInv'
  <2>1. UNCHANGED Requested /\ \A a \in Account : UNCHANGED OpenRequests(a)
    BY <1>1 DEF Requested, OpenRequests
  <2> QED
    BY <1>1, <1>7, <1>8, <1>9, <2>1 DEF StakeInv, InsuranceInv
<1> QED
  BY <1>1, <1>7, <1>10 DEF InsuranceInv

\* One request more: it joins its staker's open ones.
LEMMA RequestJoins ==
  ASSUME withdrawal \in Seq(WithdrawalRow), NEW s \in Account, NEW w \in WithdrawalRow,
         w.staker = s, w.claimed = FALSE, withdrawal' = Append(withdrawal, w)
  PROVE  /\ withdrawal' \in Seq(WithdrawalRow)
         /\ (Total(Requested, OpenRequests(s)))' = Total(Requested, OpenRequests(s)) + w.amount
         /\ \A a \in Account : a # s =>
              (Total(Requested, OpenRequests(a)))' = Total(Requested, OpenRequests(a))
<1>1. PICK l : l = Len(withdrawal) + 1
  OBVIOUS
<1>2. /\ Len(withdrawal) \in Nat /\ withdrawal' \in Seq(WithdrawalRow)
      /\ Len(withdrawal') = l /\ withdrawal'[l] = w /\ l \in 1 .. l
      /\ \A r \in 1 .. Len(withdrawal) : r \in 1 .. l /\ r # l /\ withdrawal'[r] = withdrawal[r]
      /\ \A r \in 1 .. l : r \in 1 .. Len(withdrawal) \/ r = l
      /\ l \notin 1 .. Len(withdrawal)
  BY <1>1
<1>3. w.amount \in Nat /\ w.amount \in Int
  BY DEF WithdrawalRow
<1>4. \A a \in Account : a # s => OpenRequests(a)' = OpenRequests(a)
  BY <1>2 DEF OpenRequests
<1>5. OpenRequests(s)' = OpenRequests(s) \cup {l} /\ l \notin OpenRequests(s)
  BY <1>2 DEF OpenRequests
<1>6. /\ Requested'[l] = w.amount
      /\ \A r \in 1 .. Len(withdrawal) : Requested'[r] = withdrawal[r].amount
  BY <1>2 DEF Requested
<1>7. \A a : /\ IsFiniteSet(OpenRequests(a))
             /\ \A r \in OpenRequests(a) : Requested[r] \in Int /\ Requested[r] = Requested'[r]
  <2>1. \A a : /\ IsFiniteSet(OpenRequests(a))
               /\ \A r \in OpenRequests(a) : r \in 1 .. Len(withdrawal) /\ Requested[r] \in Int
    BY RequestsAreFinite
  <2>2. \A r \in 1 .. Len(withdrawal) : Requested[r] = withdrawal[r].amount
    BY RequestsAreFinite
  <2> QED
    BY <1>6, <2>1, <2>2
<1>8. \A a : Total(Requested, OpenRequests(a)) = Total(Requested', OpenRequests(a))
  BY <1>7, TotalEqual
<1>9. /\ Total(Requested', OpenRequests(s) \cup {l}) = w.amount + Total(Requested', OpenRequests(s))
      /\ Total(Requested', OpenRequests(s)) \in Int
  <2>1. \A r \in OpenRequests(s) : Requested'[r] \in Int
    BY <1>7
  <2>2. Requested'[l] \in Int /\ IsFiniteSet(OpenRequests(s)) /\ l \notin OpenRequests(s)
    BY <1>3, <1>5, <1>6, <1>7
  <2>3. /\ Total(Requested', OpenRequests(s) \cup {l}) = Requested'[l] + Total(Requested', OpenRequests(s))
        /\ Total(Requested', OpenRequests(s)) \in Int
    BY <2>1, <2>2, TotalAdd
  <2> QED
    BY <1>6, <2>3
<1>10. (Total(Requested, OpenRequests(s)))' = Total(Requested, OpenRequests(s)) + w.amount
  <2>1. (Total(Requested, OpenRequests(s)))' = Total(Requested', OpenRequests(s) \cup {l})
    BY <1>5
  <2> QED
    BY <1>3, <1>8, <1>9, <2>1
<1>11. \A a \in Account : a # s =>
         (Total(Requested, OpenRequests(a)))' = Total(Requested, OpenRequests(a))
  <2> SUFFICES ASSUME NEW a \in Account, a # s
               PROVE  (Total(Requested, OpenRequests(a)))' = Total(Requested, OpenRequests(a))
    OBVIOUS
  <2>1. (Total(Requested, OpenRequests(a)))' = Total(Requested', OpenRequests(a))
    BY <1>4
  <2> QED
    BY <1>8, <2>1
<1> QED
  BY <1>2, <1>10, <1>11

\* One request paid: it leaves its staker's open ones.
LEMMA RequestLeaves ==
  ASSUME withdrawal \in Seq(WithdrawalRow), NEW r \in 1 .. Len(withdrawal),
         ~ withdrawal[r].claimed, withdrawal' = [withdrawal EXCEPT ![r].claimed = TRUE],
         NEW s, s = withdrawal[r].staker
  PROVE  /\ withdrawal' \in Seq(WithdrawalRow)
         /\ (Total(Requested, OpenRequests(s)))'
              = Total(Requested, OpenRequests(s)) - withdrawal[r].amount
         /\ \A a \in Account : a # s =>
              (Total(Requested, OpenRequests(a)))' = Total(Requested, OpenRequests(a))
<1>1. PICK w : w = [withdrawal[r] EXCEPT !.claimed = TRUE]
  OBVIOUS
<1>2. withdrawal[r] \in WithdrawalRow /\ Len(withdrawal) \in Nat
  BY ElementOfSeq
<1>3. /\ w \in WithdrawalRow /\ w.claimed = TRUE /\ w.staker = s /\ w.amount = withdrawal[r].amount
      /\ withdrawal[r].amount \in Nat
  BY <1>1, <1>2 DEF WithdrawalRow
<1>4. withdrawal' = [withdrawal EXCEPT ![r] = w]
  BY <1>1
<1>5. /\ withdrawal' \in Seq(WithdrawalRow) /\ Len(withdrawal') = Len(withdrawal)
      /\ withdrawal'[r] = w
      /\ \A i \in 1 .. Len(withdrawal) : i # r => withdrawal'[i] = withdrawal[i]
  <2>1. withdrawal' \in Seq(WithdrawalRow) /\ Len(withdrawal') = Len(withdrawal)
    <3>1. withdrawal \in Seq(WithdrawalRow) /\ w \in WithdrawalRow
      BY <1>3
    <3>2. PICK u : u = [withdrawal EXCEPT ![r] = w]
      OBVIOUS
    <3>3. u \in Seq(WithdrawalRow) /\ Len(u) = Len(withdrawal)
      BY <3>1, <3>2, ExceptSeq
    <3> QED
      BY <1>4, <3>2, <3>3
  <2> QED
    BY <1>4, <2>1
<1>6. Requested' = Requested
  <2>1. \A i \in 1 .. Len(withdrawal) : withdrawal'[i].amount = withdrawal[i].amount
    BY <1>3, <1>5
  <2> QED
    BY <1>5, <2>1 DEF Requested
<1>7. \A a \in Account : a # s => OpenRequests(a)' = OpenRequests(a)
  BY <1>1, <1>3, <1>5 DEF OpenRequests
<1>8. OpenRequests(s)' = OpenRequests(s) \ {r} /\ r \in OpenRequests(s)
  BY <1>1, <1>3, <1>5 DEF OpenRequests
<1>9. Total(Requested, OpenRequests(s) \ {r}) = Total(Requested, OpenRequests(s)) - Requested[r]
  <2>1. /\ IsFiniteSet(OpenRequests(s))
        /\ \A i \in OpenRequests(s) : Requested[i] \in Int
    BY RequestsAreFinite
  <2>2. PICK S, f, x : S = OpenRequests(s) /\ f = Requested /\ x = r
    OBVIOUS
  <2>3. IsFiniteSet(S) /\ x \in S /\ \A i \in S : f[i] \in Int
    BY <1>8, <2>1, <2>2
  <2>4. Changed(f, f, S, x)
    BY <2>3 DEF Changed
  <2>5. Total(f, S \ {x}) = Total(f, S) - f[x]
    BY <2>4, ChangedDrop
  <2> QED
    BY <2>2, <2>5
<1>10. Requested[r] = withdrawal[r].amount
  BY RequestsAreFinite
<1>11. (Total(Requested, OpenRequests(s)))' = Total(Requested, OpenRequests(s)) - withdrawal[r].amount
  BY <1>6, <1>8, <1>9, <1>10
<1>12. \A a \in Account : a # s =>
         (Total(Requested, OpenRequests(a)))' = Total(Requested, OpenRequests(a))
  BY <1>6, <1>7
<1> QED
  BY <1>1, <1>5, <1>11, <1>12

\* A request: the stake goes into the queue of withdrawals.
LEMMA KeepsRequestWithdrawal ==
  ASSUME InsuranceInv, UNCHANGED now, NEW s \in Account, NEW n \in Amount, RequestWithdrawal(s, n)
  PROVE  InsuranceInv'
<1>1. PICK w : w = [staker |-> s, amount |-> n, unlock |-> now + WithdrawDelay, claimed |-> FALSE]
  OBVIOUS
<1>2. /\ stake[s] >= n
      /\ stake' = [stake EXCEPT ![s] = @ - n] /\ pending' = [pending EXCEPT ![s] = @ + n]
      /\ pool' = [pool EXCEPT !.staked = @ - n, !.queued = @ + n]
      /\ withdrawal' = Append(withdrawal, w)
      /\ UNCHANGED <<caps, quota, claim, epoch, payQueue>>
  BY <1>1 DEF RequestWithdrawal
<1>3. /\ pool \in PoolRow /\ n \in Nat /\ WithdrawDelay \in Nat /\ now \in Nat
      /\ stake \in [Account -> Nat] /\ stake[s] \in Nat
      /\ pending \in [Account -> Nat] /\ pending[s] \in Nat
      /\ pool.staked = Total(stake, Account) /\ pool.queued = Total(pending, Account)
      /\ pool.staked \in Nat /\ pool.queued \in Nat /\ pool.coverage \in Nat
      /\ pool.total \in Int /\ pool.payout \in Nat
      /\ pool.total + pool.payout = pool.staked + pool.queued
  BY InsuranceFacts, PoolConstants
<1>4. PICK m, j, k, q : /\ m = stake[s] - n /\ j = pending[s] + n
                        /\ k = pool.staked - n /\ q = pool.queued + n
  OBVIOUS
<1>5. m \in Nat /\ j \in Nat
  <2>1. stake[s] \in Nat /\ pending[s] \in Nat /\ n \in Nat
    BY <1>3
  <2>2. stake[s] >= n
    BY <1>2
  <2>3. m = stake[s] - n /\ j = pending[s] + n
    BY <1>4
  <2> QED
    BY <2>1, <2>2, <2>3
<1>6. /\ stake' \in [Account -> Nat] /\ Total(stake, Account) \in Int
      /\ Total(stake', Account) = Total(stake, Account) - stake[s] + m
  <2>1. Moved(stake, stake', s, m)
    BY <1>2, <1>3, <1>4, <1>5 DEF Moved
  <2> QED
    BY <2>1, PositionMoves
<1>7. /\ pending' \in [Account -> Nat] /\ Total(pending, Account) \in Int
      /\ Total(pending', Account) = Total(pending, Account) - pending[s] + j
      /\ pending'[s] = j /\ \A a \in Account : a # s => pending'[a] = pending[a]
  <2>1. Moved(pending, pending', s, j)
    BY <1>2, <1>3, <1>4, <1>5 DEF Moved
  <2> QED
    BY <2>1, PositionMoves
<1>8. k = Total(stake', Account) /\ q = Total(pending', Account)
  BY <1>3, <1>4, <1>6, <1>7
<1>9. k \in Nat
  <2>1. \A a \in Account : stake'[a] \in Nat
    BY <1>6
  <2>2. Total(stake', Account) \in Nat
    BY <2>1, PoolConstants, TotalNat
  <2> QED
    BY <1>8, <2>2
<1>10. Sound(pool', epoch, claim, payQueue) /\ pool'.staked = k /\ pool'.queued = q
  <2>1. Sound(pool, epoch, claim, payQueue)
    BY InsuranceFacts
  <2>2. Balanced(pool, pool.total, k, q, pool.coverage)
    BY <1>3, <1>4, <1>9 DEF Balanced
  <2>3. pool' = PoolWith(pool, pool.total, k, q, pool.coverage)
    BY <1>2, <1>3, <1>4 DEF PoolWith, PoolRow
  <2> QED
    BY <2>1, <2>2, <2>3, PoolMoves
<1>11. /\ withdrawal' \in Seq(WithdrawalRow)
       /\ (Total(Requested, OpenRequests(s)))' = Total(Requested, OpenRequests(s)) + n
       /\ \A a \in Account : a # s =>
            (Total(Requested, OpenRequests(a)))' = Total(Requested, OpenRequests(a))
  <2>1. w \in WithdrawalRow /\ w.staker = s /\ w.claimed = FALSE /\ w.amount = n
    BY <1>1, <1>3 DEF WithdrawalRow
  <2>2. withdrawal \in Seq(WithdrawalRow)
    BY InsuranceFacts
  <2>3. withdrawal' = Append(withdrawal, w)
    BY <1>2
  <2>4. /\ withdrawal' \in Seq(WithdrawalRow)
        /\ (Total(Requested, OpenRequests(s)))' = Total(Requested, OpenRequests(s)) + w.amount
        /\ \A a \in Account : a # s =>
             (Total(Requested, OpenRequests(a)))' = Total(Requested, OpenRequests(a))
    BY <2>1, <2>2, <2>3, RequestJoins
  <2> QED
    BY <2>1, <2>4
<1>12. \A a \in Account : pending'[a] = (Total(Requested, OpenRequests(a)))'
  <2>1. \A a \in Account : pending[a] = Total(Requested, OpenRequests(a))
    BY InsuranceFacts
  <2>2. pending'[s] = (Total(Requested, OpenRequests(s)))'
    BY <1>4, <1>7, <1>11, <2>1
  <2>3. ASSUME NEW a \in Account, a # s PROVE pending'[a] = (Total(Requested, OpenRequests(a)))'
    <3>1. pending'[a] = pending[a] /\ pending[a] = Total(Requested, OpenRequests(a))
      BY <1>7, <2>1, <2>3
    <3> QED
      BY <1>11, <2>3, <3>1
  <2> QED
    BY <2>2, <2>3
<1>13. StakeInv'
  BY <1>6, <1>7, <1>8, <1>10, <1>11, <1>12 DEF StakeInv
<1> QED
  BY <1>2, <1>10, <1>13 DEF InsuranceInv

\* A withdrawal: the money leaves the pool with its request.
LEMMA KeepsExecuteWithdrawal ==
  ASSUME InsuranceInv, UNCHANGED now, NEW r \in 1 .. Len(withdrawal), ExecuteWithdrawal(r)
  PROVE  InsuranceInv'
<1>1. PICK s, n : s = withdrawal[r].staker /\ n = withdrawal[r].amount
  OBVIOUS
<1>2. /\ ~ withdrawal[r].claimed /\ pending[s] >= n /\ pool.queued >= n
      /\ pending' = [pending EXCEPT ![s] = @ - n]
      /\ pool' = [pool EXCEPT !.total = @ - n, !.queued = @ - n]
      /\ withdrawal' = [withdrawal EXCEPT ![r].claimed = TRUE]
      /\ UNCHANGED <<caps, quota, stake, claim, epoch, payQueue>>
  BY <1>1 DEF ExecuteWithdrawal
<1>3. /\ pool \in PoolRow /\ pending \in [Account -> Nat]
      /\ pool.staked = Total(stake, Account) /\ pool.queued = Total(pending, Account)
      /\ pool.staked \in Nat /\ pool.queued \in Nat /\ pool.coverage \in Nat
      /\ pool.total \in Int /\ pool.payout \in Nat
      /\ pool.total + pool.payout = pool.staked + pool.queued
      /\ withdrawal \in Seq(WithdrawalRow) /\ withdrawal[r] \in WithdrawalRow
      /\ stake \in [Account -> Nat]
  BY InsuranceFacts
<1>4. s \in Account /\ n \in Nat /\ pending[s] \in Nat
  BY <1>1, <1>3 DEF WithdrawalRow
<1>5. PICK j, t, q : j = pending[s] - n /\ t = pool.total - n /\ q = pool.queued - n
  OBVIOUS
<1>6. j \in Nat /\ q \in Nat /\ t \in Int /\ t + pool.payout = pool.staked + q
  <2>1. pending[s] >= n /\ pool.queued >= n
    BY <1>2
  <2>2. /\ pool.staked \in Nat /\ pool.queued \in Nat /\ pool.total \in Int /\ pool.payout \in Nat
        /\ pool.total + pool.payout = pool.staked + pool.queued
    BY <1>3
  <2>3. j \in Nat
    BY <1>4, <1>5, <2>1
  <2>4. q \in Nat /\ t \in Int
    <3>1. q = pool.queued - n /\ pool.queued >= n /\ pool.queued \in Nat
      BY <1>5, <2>1, <2>2
    <3>2. t = pool.total - n /\ pool.total \in Int
      BY <1>5, <2>2
    <3>3. q \in Nat
      BY <1>4, <3>1
    <3>4. t \in Int
      BY <1>4, <3>2
    <3> QED
      BY <3>3, <3>4
  <2>5. t + pool.payout = pool.staked + q
    <3>1. PICK T, P, S, Q : T = pool.total /\ P = pool.payout /\ S = pool.staked /\ Q = pool.queued
      OBVIOUS
    <3>2. T \in Int /\ P \in Int /\ S \in Int /\ Q \in Int /\ n \in Int /\ T + P = S + Q
      BY <1>4, <2>2, <3>1
    <3>3. t = T - n /\ q = Q - n
      BY <1>5, <3>1
    <3>4. t + P = S + q
      BY <3>2, <3>3
    <3> QED
      BY <3>1, <3>4
  <2> QED
    BY <2>3, <2>4, <2>5
<1>7. /\ pending' \in [Account -> Nat] /\ Total(pending, Account) \in Int
      /\ Total(pending', Account) = Total(pending, Account) - pending[s] + j
      /\ pending'[s] = j /\ \A a \in Account : a # s => pending'[a] = pending[a]
  <2>1. Moved(pending, pending', s, j)
    BY <1>2, <1>3, <1>4, <1>5, <1>6 DEF Moved
  <2> QED
    BY <2>1, PositionMoves
<1>8. q = Total(pending', Account)
  BY <1>3, <1>4, <1>5, <1>7
<1>9. Sound(pool', epoch, claim, payQueue) /\ pool'.staked = pool.staked /\ pool'.queued = q
  <2>1. Sound(pool, epoch, claim, payQueue)
    BY InsuranceFacts
  <2>2. Balanced(pool, t, pool.staked, q, pool.coverage)
    BY <1>3, <1>6 DEF Balanced
  <2>3. pool' = PoolWith(pool, t, pool.staked, q, pool.coverage)
    BY <1>2, <1>3, <1>5 DEF PoolWith, PoolRow
  <2> QED
    BY <2>1, <2>2, <2>3, PoolMoves
<1>10. /\ withdrawal' \in Seq(WithdrawalRow)
       /\ (Total(Requested, OpenRequests(s)))'
            = Total(Requested, OpenRequests(s)) - withdrawal[r].amount
       /\ \A a \in Account : a # s =>
            (Total(Requested, OpenRequests(a)))' = Total(Requested, OpenRequests(a))
  <2>1. withdrawal \in Seq(WithdrawalRow)
    BY <1>3
  <2>2. ~ withdrawal[r].claimed /\ withdrawal' = [withdrawal EXCEPT ![r].claimed = TRUE]
    BY <1>2
  <2> QED
    BY <1>1, <2>1, <2>2, RequestLeaves
<1>11. \A a \in Account : pending'[a] = (Total(Requested, OpenRequests(a)))'
  <2>1. \A a \in Account : pending[a] = Total(Requested, OpenRequests(a))
    BY InsuranceFacts
  <2>2. pending'[s] = (Total(Requested, OpenRequests(s)))'
    <3>1. (Total(Requested, OpenRequests(s)))' = Total(Requested, OpenRequests(s)) - n
      BY <1>1, <1>10
    <3>2. pending[s] = Total(Requested, OpenRequests(s))
      BY <1>4, <2>1
    <3> QED
      BY <1>5, <1>7, <3>1, <3>2
  <2>3. ASSUME NEW a \in Account, a # s PROVE pending'[a] = (Total(Requested, OpenRequests(a)))'
    <3>1. pending'[a] = pending[a] /\ pending[a] = Total(Requested, OpenRequests(a))
      BY <1>7, <2>1, <2>3
    <3> QED
      BY <1>1, <1>10, <2>3, <3>1
  <2> QED
    BY <2>2, <2>3
<1>12. StakeInv'
  BY <1>2, <1>3, <1>7, <1>8, <1>9, <1>10, <1>11 DEF StakeInv
<1> QED
  BY <1>2, <1>9, <1>12 DEF InsuranceInv

\* Coverage moves no money.
LEMMA KeepsPurchaseCoverage ==
  ASSUME InsuranceInv, UNCHANGED now, NEW n \in Amount, NEW bps \in CoverCap,
         PurchaseCoverage(n, bps)
  PROVE  InsuranceInv'
<1>1. /\ pool' = [pool EXCEPT !.coverage = @ + n]
      /\ UNCHANGED <<caps, quota, stake, pending, withdrawal, claim, epoch, payQueue>>
  BY DEF PurchaseCoverage
<1>2. /\ pool \in PoolRow /\ n \in Nat
      /\ pool.staked \in Nat /\ pool.queued \in Nat /\ pool.coverage \in Nat
      /\ pool.total \in Int /\ pool.payout \in Nat
      /\ pool.total + pool.payout = pool.staked + pool.queued
  BY InsuranceFacts, PoolConstants
<1>3. PICK c : c = pool.coverage + n
  OBVIOUS
<1>4. Sound(pool', epoch, claim, payQueue) /\ pool'.staked = pool.staked /\ pool'.queued = pool.queued
  <2>1. Sound(pool, epoch, claim, payQueue)
    BY InsuranceFacts
  <2>2. Balanced(pool, pool.total, pool.staked, pool.queued, c)
    BY <1>2, <1>3 DEF Balanced
  <2>3. pool' = PoolWith(pool, pool.total, pool.staked, pool.queued, c)
    BY <1>1, <1>2, <1>3 DEF PoolWith, PoolRow
  <2> QED
    BY <2>1, <2>2, <2>3, PoolMoves
<1>5. StakeInv'
  BY <1>1, <1>4, StakeFrame DEF InsuranceInv
<1> QED
  BY <1>1, <1>4, <1>5 DEF InsuranceInv

\* A claim is submitted: nothing is paid on it.
LEMMA KeepsSubmitClaim ==
  ASSUME InsuranceInv, UNCHANGED now, NEW s \in Account, NEW n \in Amount, SubmitClaim(s, n)
  PROVE  InsuranceInv'
<1>1. PICK d, cl, l : /\ d = [by |-> s, amount |-> n, status |-> "Submitted", approvals |-> {}, paid |-> 0]
                      /\ cl = Append(claim, d) /\ l = Len(claim) + 1
  OBVIOUS
<1>2. /\ claim' = cl /\ Len(claim) < MaxClaims
      /\ UNCHANGED <<caps, quota, pool, stake, pending, withdrawal, epoch, payQueue>>
  BY <1>1 DEF SubmitClaim
<1>3. /\ pool \in PoolRow /\ epoch \in EpochRow /\ claim \in Seq(ClaimRow) /\ payQueue \in Seq(Nat)
      /\ pool.total + pool.payout = pool.staked + pool.queued
      /\ pool.payout = Total(PaidOn(claim), 1 .. Len(claim))
      /\ epoch.paid > 0 => \E k \in Caps : epoch.paid <= BpsOf(epoch.opening, k.drain)
      /\ \A c \in 1 .. Len(claim) : claim[c].paid <= claim[c].amount
      /\ Queued(payQueue, claim)
  BY InsuranceFacts DEF Sound
<1>4. n \in Nat /\ MaxClaims \in Nat
  BY PoolConstants
<1>5. d \in ClaimRow /\ d.paid = 0 /\ d.amount = n /\ d.status = "Submitted"
  BY <1>1, <1>4 DEF ClaimRow, ClaimStatus
<1>6. /\ cl \in Seq(ClaimRow) /\ Len(claim) \in Nat /\ Len(cl) = l /\ cl[l] = d
      /\ \A c \in 1 .. Len(claim) : c \in 1 .. l /\ cl[c] = claim[c]
      /\ \A c \in 1 .. l : c \in 1 .. Len(claim) \/ c = l
      /\ l \notin 1 .. Len(claim) /\ l \in 1 .. l
  BY <1>1, <1>3, <1>5
<1>7. Queued(payQueue, cl)
  <2>1. \A i \in 1 .. Len(payQueue) : /\ payQueue[i] \in 1 .. Len(cl)
                                      /\ cl[payQueue[i]].status = "PartiallyPaid"
    BY <1>3, <1>6 DEF Queued
  <2>2. \A c \in 1 .. Len(cl) :
          cl[c].status = "PartiallyPaid" => \E i \in 1 .. Len(payQueue) : payQueue[i] = c
    <3> SUFFICES ASSUME NEW c \in 1 .. Len(cl), cl[c].status = "PartiallyPaid"
                 PROVE  \E i \in 1 .. Len(payQueue) : payQueue[i] = c
      OBVIOUS
    <3>1. c # l
      BY <1>5, <1>6
    <3>2. c \in 1 .. Len(claim) /\ claim[c].status = "PartiallyPaid"
      BY <1>6, <3>1
    <3> QED
      BY <1>3, <3>2 DEF Queued
  <2> QED
    BY <1>3, <2>1, <2>2 DEF Queued
<1>8. \A c \in 1 .. Len(cl) : cl[c].paid <= cl[c].amount
  <2> SUFFICES ASSUME NEW c \in 1 .. Len(cl) PROVE cl[c].paid <= cl[c].amount
    OBVIOUS
  <2>1. CASE c \in 1 .. Len(claim)
    <3>1. cl[c] = claim[c] /\ claim[c].paid <= claim[c].amount
      BY <1>3, <1>6, <2>1
    <3> QED
      BY <3>1
  <2>2. CASE c = l
    <3>1. cl[c].paid = 0 /\ cl[c].amount = n
      BY <1>5, <1>6, <2>2
    <3> QED
      BY <1>4, <3>1
  <2> QED
    BY <1>6, <2>1, <2>2
<1>9. Total(PaidOn(cl), 1 .. Len(cl)) = Total(PaidOn(claim), 1 .. Len(claim))
  <2>1. PICK S, R, f, g : /\ S = 1 .. Len(claim) /\ R = 1 .. Len(cl)
                          /\ f = PaidOn(claim) /\ g = PaidOn(cl)
    OBVIOUS
  <2>2. IsFiniteSet(S) /\ l \notin S /\ R = S \cup {l}
    BY <1>3, <1>6, <2>1, PaidIs
  <2>3. \A c \in S : f[c] = claim[c].paid /\ f[c] \in Int
    BY <1>3, <2>1, PaidIs
  <2>4. \A c \in R : g[c] = cl[c].paid
    BY <1>6, <2>1, PaidIs
  <2>5. g[l] = 0 /\ \A c \in S : g[c] = f[c] /\ g[c] \in Int
    BY <1>5, <1>6, <2>1, <2>2, <2>3, <2>4
  <2>6. Total(f, S) = Total(g, S)
    <3>1. \A c \in S : f[c] \in Int /\ f[c] = g[c]
      BY <2>3, <2>5
    <3> QED
      BY <2>2, <3>1, TotalEqual
  <2>7. Total(g, S \cup {l}) = g[l] + Total(g, S) /\ Total(g, S) \in Int
    <3>1. g[l] \in Int /\ l \notin S /\ IsFiniteSet(S)
      BY <2>2, <2>5
    <3>2. \A c \in S : g[c] \in Int
      BY <2>5
    <3> QED
      BY <3>1, <3>2, TotalAdd
  <2>8. Total(g, R) = Total(f, S)
    BY <2>2, <2>5, <2>6, <2>7
  <2> QED
    BY <2>1, <2>8
<1>10. Sound(pool, epoch, cl, payQueue)
  BY <1>3, <1>6, <1>7, <1>8, <1>9 DEF Sound
<1>11. StakeInv'
  BY <1>2, StakeFrame DEF InsuranceInv
<1>12. Len(cl) <= MaxClaims
  BY <1>1, <1>2, <1>4, <1>6
<1> QED
  BY <1>2, <1>10, <1>11, <1>12 DEF InsuranceInv

\* A verdict, which may cost the claimant part of a stake.
LEMMA KeepsVerifyClaim ==
  ASSUME InsuranceInv, UNCHANGED now, NEW c \in 1 .. Len(claim), NEW valid \in BOOLEAN,
         NEW bps \in SlashBps, VerifyClaim(c, valid, bps)
  PROVE  InsuranceInv'
<1>1. PICK s, slashed, st, d :
      /\ s = claim[c].by
      /\ slashed = IF valid THEN 0 ELSE Min({BpsOf(claim[c].amount, bps), stake[s]})
      /\ st = IF valid THEN "Verified" ELSE "Rejected"
      /\ d = [claim[c] EXCEPT !.status = st]
  OBVIOUS
<1>2. /\ claim[c].status = "Submitted"
      /\ claim' = [claim EXCEPT ![c].status = st]
      /\ stake' = [stake EXCEPT ![s] = @ - slashed]
      /\ pool' = [pool EXCEPT !.total = @ - slashed, !.staked = @ - slashed]
      /\ UNCHANGED <<caps, quota, pending, withdrawal, epoch, payQueue>>
  BY <1>1 DEF VerifyClaim
<1>3. /\ pool \in PoolRow /\ claim \in Seq(ClaimRow) /\ stake \in [Account -> Nat]
      /\ pool.staked = Total(stake, Account)
      /\ pool.staked \in Nat /\ pool.queued \in Nat /\ pool.coverage \in Nat
      /\ pool.total \in Int /\ pool.payout \in Nat
      /\ pool.total + pool.payout = pool.staked + pool.queued
  BY InsuranceFacts
<1>4. /\ claim[c] \in ClaimRow /\ s \in Account /\ claim[c].amount \in Nat /\ bps \in Nat
      /\ stake[s] \in Nat
  <2>1. claim[c] \in ClaimRow
    BY <1>3, PaidIs
  <2> QED
    BY <1>1, <1>3, <2>1, PoolConstants DEF ClaimRow
<1>5. slashed \in Nat /\ slashed <= stake[s]
  <2>1. CASE valid
    BY <1>1, <1>4, <2>1
  <2>2. CASE ~ valid
    <3>1. PICK b, k, S : b = BpsOf(claim[c].amount, bps) /\ k = stake[s] /\ S = {b, k}
      OBVIOUS
    <3>2. b \in Nat
      <4>1. PICK n : n = claim[c].amount
        OBVIOUS
      <4>2. n \in Nat /\ n \in Int
        BY <1>4, <4>1
      <4>3. BpsOf(n, bps) \in Nat
        BY <1>4, <4>2, BpsIs
      <4> QED
        BY <3>1, <4>1, <4>3
    <3>3. S \subseteq Int /\ S \subseteq Nat /\ \E m \in S : \A x \in S : m <= x
      BY <1>4, <3>1, <3>2
    <3>4. Min(S) \in S /\ \A x \in S : Min(S) <= x
      BY <3>3, MinIs
    <3>5. slashed = Min(S)
      BY <1>1, <2>2, <3>1
    <3> QED
      BY <3>1, <3>3, <3>4, <3>5
  <2> QED
    BY <2>1, <2>2
<1>6. PICK t, k, m : t = pool.total - slashed /\ k = pool.staked - slashed /\ m = stake[s] - slashed
  OBVIOUS
<1>7. m \in Nat
  BY <1>4, <1>5, <1>6
<1>8. /\ stake' \in [Account -> Nat] /\ Total(stake, Account) \in Int
      /\ Total(stake', Account) = Total(stake, Account) - stake[s] + m
  <2>1. Moved(stake, stake', s, m)
    BY <1>2, <1>3, <1>4, <1>6, <1>7 DEF Moved
  <2> QED
    BY <2>1, PositionMoves
<1>9. k = Total(stake', Account)
  BY <1>3, <1>4, <1>5, <1>6, <1>8
<1>10. k \in Nat
  <2>1. \A a \in Account : stake'[a] \in Nat
    BY <1>8
  <2>2. Total(stake', Account) \in Nat
    BY <2>1, PoolConstants, TotalNat
  <2> QED
    BY <1>9, <2>2
<1>11. Balanced(pool, t, k, pool.queued, pool.coverage)
  <2>1. PICK T, P, S, Q : T = pool.total /\ P = pool.payout /\ S = pool.staked /\ Q = pool.queued
    OBVIOUS
  <2>2. T \in Int /\ P \in Int /\ S \in Int /\ Q \in Int /\ slashed \in Int /\ T + P = S + Q
    BY <1>3, <1>5, <2>1
  <2>3. t = T - slashed /\ k = S - slashed
    BY <1>6, <2>1
  <2>4. t \in Int /\ t + P = k + Q
    BY <2>2, <2>3
  <2> QED
    BY <1>3, <1>10, <2>1, <2>4 DEF Balanced
<1>12. Sound(pool', epoch, claim, payQueue) /\ pool'.staked = k /\ pool'.queued = pool.queued
  <2>1. Sound(pool, epoch, claim, payQueue)
    BY InsuranceFacts
  <2>2. pool' = PoolWith(pool, t, k, pool.queued, pool.coverage)
    BY <1>2, <1>3, <1>6 DEF PoolWith, PoolRow
  <2> QED
    BY <1>11, <2>1, <2>2, PoolMoves
<1>13. Edited(claim, c, d, claim')
  <2>1. d \in ClaimRow /\ d.paid = claim[c].paid /\ d.amount = claim[c].amount /\ d.status = st
    BY <1>1, <1>4 DEF ClaimRow, ClaimStatus
  <2>2. st # "PartiallyPaid"
    BY <1>1
  <2> QED
    BY <1>1, <1>2, <2>1, <2>2 DEF Edited
<1>15. Sound(pool', epoch, claim', payQueue) /\ Len(claim') = Len(claim)
  BY <1>12, <1>13, SoundEdited
<1>16. StakeInv'
  <2>1. UNCHANGED Requested /\ \A a \in Account : UNCHANGED OpenRequests(a)
    BY <1>2 DEF Requested, OpenRequests
  <2> QED
    BY <1>2, <1>8, <1>9, <1>12, <2>1 DEF StakeInv, InsuranceInv
<1> QED
  BY <1>2, <1>15, <1>16 DEF InsuranceInv

\* An approval, which may be the one that makes the quorum.
LEMMA KeepsApproveClaim ==
  ASSUME InsuranceInv, UNCHANGED now, NEW a \in Approver, NEW c \in 1 .. Len(claim),
         ApproveClaim(a, c)
  PROVE  InsuranceInv'
<1>1. PICK by, st, d :
      /\ by = claim[c].approvals \cup {a}
      /\ st = IF Cardinality(by) >= quota THEN "Approved" ELSE claim[c].status
      /\ d = [claim[c] EXCEPT !.approvals = by, !.status = st]
  OBVIOUS
<1>2. /\ claim[c].status \in {"Verified", "Approved"}
      /\ claim' = [claim EXCEPT ![c].approvals = by, ![c].status = st]
      /\ UNCHANGED <<caps, quota, pool, stake, pending, withdrawal, epoch, payQueue>>
  BY <1>1 DEF ApproveClaim
<1>3. claim \in Seq(ClaimRow) /\ claim[c] \in ClaimRow /\ Sound(pool, epoch, claim, payQueue)
  BY InsuranceFacts, PaidIs
<1>4. Edited(claim, c, d, claim')
  <2>1. by \in SUBSET Approver
    BY <1>1, <1>3 DEF ClaimRow
  <2>2. st \in {"Verified", "Approved"}
    BY <1>1, <1>2
  <2>3. d = [by |-> d.by, amount |-> d.amount, status |-> d.status, approvals |-> d.approvals,
             paid |-> d.paid]
    BY <1>1, <1>3 DEF ClaimRow
  <2>4. /\ d.by = claim[c].by /\ d.paid = claim[c].paid /\ d.amount = claim[c].amount
        /\ d.status = st /\ d.approvals = by
    BY <1>1, <1>3 DEF ClaimRow
  <2>5. claim[c].by \in Account /\ claim[c].paid \in Nat /\ claim[c].amount \in Nat
    BY <1>3 DEF ClaimRow
  <2>6. d \in ClaimRow
    BY <2>1, <2>2, <2>3, <2>4, <2>5 DEF ClaimRow, ClaimStatus
  <2> QED
    BY <1>1, <1>2, <2>2, <2>4, <2>6 DEF Edited
<1>6. Sound(pool, epoch, claim', payQueue) /\ Len(claim') = Len(claim)
  BY <1>3, <1>4, SoundEdited
<1>7. StakeInv'
  BY <1>2, StakeFrame DEF InsuranceInv
<1> QED
  BY <1>2, <1>6, <1>7 DEF InsuranceInv

\* Every call keeps the books, as does time.
LEMMA InsuranceInvStep ==
  InsuranceInv /\ [InsuranceNext]_<<now, insuranceVars>> => InsuranceInv'
<1> SUFFICES ASSUME InsuranceInv, [InsuranceNext]_<<now, insuranceVars>> PROVE InsuranceInv'
  OBVIOUS
<1>1. CASE InsuranceStep /\ UNCHANGED now
  <2>1. CASE ConfigurePool
    BY <1>1, <2>1, KeepsConfigurePool
  <2>2. CASE \E n \in Amount, s \in Account : StakeLiquidity(s, n)
    BY <1>1, <2>2, KeepsStakeLiquidity
  <2>3. CASE \E n \in Amount, s \in Account : RequestWithdrawal(s, n)
    BY <1>1, <2>3, KeepsRequestWithdrawal
  <2>4. CASE \E n \in Amount, s \in Account : SubmitClaim(s, n)
    BY <1>1, <2>4, KeepsSubmitClaim
  <2>5. CASE \E n \in Amount, bps \in CoverCap : PurchaseCoverage(n, bps)
    BY <1>1, <2>5, KeepsPurchaseCoverage
  <2>6. CASE \E r \in 1 .. Len(withdrawal) : ExecuteWithdrawal(r)
    BY <1>1, <2>6, KeepsExecuteWithdrawal
  <2>7. CASE \E c \in 1 .. Len(claim) : \E valid \in BOOLEAN, bps \in SlashBps :
               VerifyClaim(c, valid, bps)
    BY <1>1, <2>7, KeepsVerifyClaim
  <2>8. CASE \E c \in 1 .. Len(claim) : \E a \in Approver : ApproveClaim(a, c)
    BY <1>1, <2>8, KeepsApproveClaim
  <2>9. CASE \E c \in 1 .. Len(claim) : ExecutePayout(c)
    BY <1>1, <2>9, KeepsExecutePayout
  <2>10. CASE ProcessPayoutQueue
    BY <1>1, <2>10, KeepsProcessPayoutQueue
  <2> QED
    BY <1>1, <2>1, <2>2, <2>3, <2>4, <2>5, <2>6, <2>7, <2>8, <2>9, <2>10 DEF InsuranceStep
<1>2. CASE CloseLedger /\ UNCHANGED insuranceVars
  BY <1>2, KeepsCloseLedger
<1>3. CASE UNCHANGED <<now, insuranceVars>>
  <2>1. /\ UNCHANGED now
        /\ UNCHANGED <<caps, quota, pool, stake, pending, withdrawal, claim, epoch, payQueue>>
    BY <1>3 DEF insuranceVars
  <2>2. StakeInv'
    BY <2>1, StakeFrame DEF InsuranceInv
  <2> QED
    BY <2>1, <2>2 DEF InsuranceInv
<1> QED
  BY <1>1, <1>2, <1>3 DEF InsuranceNext

\* What the books say in the terms of the properties.
LEMMA InsuranceInvSays == InsuranceInv => BooksAgree /\ PayoutsCapped
<1> SUFFICES ASSUME InsuranceInv PROVE BooksAgree /\ PayoutsCapped
  OBVIOUS
<1>1. /\ pool.total + pool.payout = pool.staked + pool.queued
      /\ pool.payout = Total(PaidOn(claim), 1 .. Len(claim))
      /\ epoch.paid > 0 => \E k \in Caps : epoch.paid <= BpsOf(epoch.opening, k.drain)
      /\ \A c \in 1 .. Len(claim) : claim[c].paid <= claim[c].amount
      /\ Queued(payQueue, claim) /\ payQueue \in Seq(Nat)
  BY InsuranceFacts DEF Sound
<1>2. BooksAgree
  BY <1>1, InsuranceFacts DEF BooksAgree
<1>3. IsInjective(payQueue)
  BY <1>1 DEF IsInjective, Queued
<1>4. Range(payQueue) = {c \in 1 .. Len(claim) : claim[c].status = "PartiallyPaid"}
  <2>1. Range(payQueue) = {payQueue[i] : i \in 1 .. Len(payQueue)}
    BY <1>1, RangeEquality
  <2>2. \A c : c \in Range(payQueue) <=> \E i \in 1 .. Len(payQueue) : payQueue[i] = c
    BY <2>1
  <2>3. \A c : c \in Range(payQueue) <=>
               c \in 1 .. Len(claim) /\ claim[c].status = "PartiallyPaid"
    <3>1. /\ \A i \in 1 .. Len(payQueue) : /\ payQueue[i] \in 1 .. Len(claim)
                                            /\ claim[payQueue[i]].status = "PartiallyPaid"
          /\ \A c \in 1 .. Len(claim) : claim[c].status = "PartiallyPaid" =>
                \E i \in 1 .. Len(payQueue) : payQueue[i] = c
      BY <1>1 DEF Queued
    <3> QED
      BY <2>2, <3>1
  <2> QED
    BY <2>3
<1> QED
  BY <1>1, <1>2, <1>3, <1>4 DEF PayoutsCapped

\* The insurance pool's books: through stakes, requests, slashes and payouts
\* in any order, what stakers are owed and cannot have is what was paid out,
\* and positions, open requests and claims add up to the pool's figures
\* (contracts/soroban/src/insurance_pool.rs), for any stakers and amounts.
THEOREM InsuranceBooks == InsuranceSpec => []BooksAgree
<1>1. now = 0 /\ InsuranceInit => InsuranceInv
  BY InsuranceInvInit
<1>2. InsuranceInv /\ [InsuranceNext]_<<now, insuranceVars>> => InsuranceInv'
  BY InsuranceInvStep
<1>3. InsuranceInv => BooksAgree
  BY InsuranceInvSays
<1> QED
  BY <1>1, <1>2, <1>3, PTL DEF InsuranceSpec

\* However payouts and runs of the queue alternate and whatever caps are set:
\* no epoch pays more than the largest cap allows, no claim more than its
\* amount, and the queue holds the claims still owed something, once each
\* (pay_claim_tranche and process_payout_queue in insurance_pool.rs).
THEOREM InsurancePayoutsCapped == InsuranceSpec => []PayoutsCapped
<1>1. now = 0 /\ InsuranceInit => InsuranceInv
  BY InsuranceInvInit
<1>2. InsuranceInv /\ [InsuranceNext]_<<now, insuranceVars>> => InsuranceInv'
  BY InsuranceInvStep
<1>3. InsuranceInv => PayoutsCapped
  BY InsuranceInvSays
<1> QED
  BY <1>1, <1>2, <1>3, PTL DEF InsuranceSpec

-----------------------------------------------------------------------------
(* The contracts side by side on one ledger.  A step is one contract's, or *)
(* the ledger closes for all of them; what the theorems say of a contract  *)
(* by itself then holds of it among the others.                            *)


LEMMA ContractSteps ==
  ASSUME MCNext
  PROVE  (UNCHANGED now \/ CloseLedger)
<1>1. CASE subject = "escrow" /\ EscrowNext
  BY <1>1 DEF EscrowNext
<1>2. CASE subject = "treasury" /\ TreasuryNext
  BY <1>2 DEF TreasuryNext
<1>3. CASE subject = "emergency" /\ EmergencyNext
  BY <1>3 DEF EmergencyNext
<1>4. CASE subject = "governance" /\ GovernanceNext
  BY <1>4 DEF GovernanceNext
<1>5. CASE subject = "insurance" /\ InsuranceNext
  BY <1>5 DEF InsuranceNext
<1>6. CASE subject = "breaker" /\ BreakerNext
  BY <1>6 DEF BreakerNext
<1>7. CASE subject = "verifier" /\ VerifierNext
  BY <1>7 DEF VerifierNext
<1> QED
  BY <1>1, <1>2, <1>3, <1>4, <1>5, <1>6, <1>7 DEF MCNext

LEMMA EachContractSteps ==
  MCNext => /\ [EscrowNext]_<<now, escrowVars>>         /\ [TreasuryNext]_<<now, treasuryVars>>
            /\ [EmergencyNext]_<<now, emergencyVars>>   /\ [GovernanceNext]_<<now, governanceVars>>
            /\ [InsuranceNext]_<<now, insuranceVars>>   /\ [BreakerNext]_<<now, breakerVars>>
            /\ [VerifierNext]_<<now, verifierVars>>
<1> SUFFICES ASSUME MCNext
             PROVE  /\ [EscrowNext]_<<now, escrowVars>>       /\ [TreasuryNext]_<<now, treasuryVars>>
                    /\ [EmergencyNext]_<<now, emergencyVars>> /\ [GovernanceNext]_<<now, governanceVars>>
                    /\ [InsuranceNext]_<<now, insuranceVars>> /\ [BreakerNext]_<<now, breakerVars>>
                    /\ [VerifierNext]_<<now, verifierVars>>
  OBVIOUS
<1>0. UNCHANGED now \/ CloseLedger
  BY ContractSteps
<1>1. [EscrowNext]_<<now, escrowVars>>
  <2>1. subject = "escrow" => EscrowNext
    BY DEF MCNext
  <2>2. subject # "escrow" => UNCHANGED escrowVars
    BY DEF MCNext, Untouched
  <2> QED BY <1>0, <2>1, <2>2 DEF EscrowNext
<1>2. [TreasuryNext]_<<now, treasuryVars>>
  <2>1. subject = "treasury" => TreasuryNext
    BY DEF MCNext
  <2>2. subject # "treasury" => UNCHANGED treasuryVars
    BY DEF MCNext, Untouched
  <2> QED BY <1>0, <2>1, <2>2 DEF TreasuryNext
<1>3. [EmergencyNext]_<<now, emergencyVars>>
  <2>1. subject = "emergency" => EmergencyNext
    BY DEF MCNext
  <2>2. subject # "emergency" => UNCHANGED emergencyVars
    BY DEF MCNext, Untouched
  <2> QED BY <1>0, <2>1, <2>2 DEF EmergencyNext
<1>4. [GovernanceNext]_<<now, governanceVars>>
  <2>1. subject = "governance" => GovernanceNext
    BY DEF MCNext
  <2>2. subject # "governance" => UNCHANGED governanceVars
    BY DEF MCNext, Untouched
  <2> QED BY <1>0, <2>1, <2>2 DEF GovernanceNext
<1>5. [InsuranceNext]_<<now, insuranceVars>>
  <2>1. subject = "insurance" => InsuranceNext
    BY DEF MCNext
  <2>2. subject # "insurance" => UNCHANGED insuranceVars
    BY DEF MCNext, Untouched
  <2> QED BY <1>0, <2>1, <2>2 DEF InsuranceNext
<1>6. [BreakerNext]_<<now, breakerVars>>
  <2>1. subject = "breaker" => BreakerNext
    BY DEF MCNext
  <2>2. subject # "breaker" => UNCHANGED breakerVars
    BY DEF MCNext, Untouched
  <2> QED BY <1>0, <2>1, <2>2 DEF BreakerNext
<1>7. [VerifierNext]_<<now, verifierVars>>
  <2>1. subject = "verifier" => VerifierNext
    BY DEF MCNext
  <2>2. subject # "verifier" => UNCHANGED verifierVars
    BY DEF MCNext, Untouched
  <2> QED BY <1>0, <2>1, <2>2 DEF VerifierNext
<1> QED BY <1>1, <1>2, <1>3, <1>4, <1>5, <1>6, <1>7

\* contracts/soroban/src shares the ledger's time and no storage: among the
\* others, each contract still behaves as its own specification says, so that
\* every theorem about one of them is a theorem about the ledger.
THEOREM ContractsCompose ==
  MCSpec => /\ EscrowSpec /\ TreasurySpec /\ EmergencySpec /\ GovernanceSpec
            /\ InsuranceSpec /\ BreakerSpec /\ VerifierSpec
<1>1. MCInit => /\ now = 0 /\ EscrowInit /\ TreasuryInit /\ EmergencyInit /\ GovernanceInit
                /\ InsuranceInit /\ BreakerInit /\ VerifierInit
  BY DEF MCInit
<1>2. UNCHANGED <<now, subject, escrowVars, treasuryVars, emergencyVars, governanceVars,
                  insuranceVars, breakerVars, verifierVars>>
        => /\ UNCHANGED <<now, escrowVars>> /\ UNCHANGED <<now, treasuryVars>>
           /\ UNCHANGED <<now, emergencyVars>> /\ UNCHANGED <<now, governanceVars>>
           /\ UNCHANGED <<now, insuranceVars>> /\ UNCHANGED <<now, breakerVars>>
           /\ UNCHANGED <<now, verifierVars>>
  OBVIOUS
<1> QED
  BY <1>1, <1>2, EachContractSteps, PTL
     DEF MCSpec, EscrowSpec, TreasurySpec, EmergencySpec, GovernanceSpec, InsuranceSpec,
         BreakerSpec, VerifierSpec

\* Who has approved what, which no property of the votes needs.
ApprovalTypes ==
  guardian \subseteq Watcher /\ approval \in [1 .. MaxProposals -> SUBSET Watcher]

LEMMA ApprovalTypesStep ==
  ApprovalTypes /\ [GovernanceNext]_<<now, governanceVars>> => ApprovalTypes'
<1> SUFFICES ASSUME ApprovalTypes, [GovernanceNext]_<<now, governanceVars>> PROVE ApprovalTypes'
  OBVIOUS
<1>1. CASE UNCHANGED <<guardian, approval>>
  BY <1>1 DEF ApprovalTypes
<1>2. CASE Administer
  BY <1>2 DEF Administer, ApprovalTypes
<1>3. ASSUME NEW g \in Watcher, NEW p \in 1 .. MaxProposals, GuardianApprove(g, p)
      PROVE  ApprovalTypes'
  BY <1>3 DEF GuardianApprove, ApprovalTypes
<1>4. ASSUME NEW v \in Account, NEW n \in Power, SetVotingPower(v, n)
      PROVE  UNCHANGED <<guardian, approval>>
  BY <1>4 DEF SetVotingPower
<1>5. ASSUME NEW v \in Account, NEW to \in Account, DelegateVotes(v, to)
      PROVE  UNCHANGED <<guardian, approval>>
  BY <1>5 DEF DelegateVotes
<1>6. ASSUME NEW v \in Account, NEW emergency \in BOOLEAN, CreateProposal(v, emergency)
      PROVE  UNCHANGED <<guardian, approval>>
  BY <1>6 DEF CreateProposal
<1>7. ASSUME NEW p, NEW from, NEW new, Becomes(p, from, new)
      PROVE  UNCHANGED <<guardian, approval>>
  BY <1>7 DEF Becomes
<1>8. ASSUME NEW p \in Proposals,
             \/ ActivateProposal(p) \/ FinalizeProposal(p) \/ QueueProposal(p)
             \/ ExecuteProposal(p) \/ GuardianExecute(p) \/ CancelProposal(p)
      PROVE  UNCHANGED <<guardian, approval>>
  BY <1>7, <1>8 DEF ActivateProposal, FinalizeProposal, QueueProposal, ExecuteProposal,
                    GuardianExecute, CancelProposal
<1>9. ASSUME NEW v \in Account, NEW p \in Proposals, NEW c \in Choice, CastVote(v, p, c)
      PROVE  UNCHANGED <<guardian, approval>>
  BY <1>9 DEF CastVote
<1>10. CASE UNCHANGED governanceVars
  BY <1>1, <1>10 DEF governanceVars
<1> QED
  BY <1>1, <1>2, <1>3, <1>4, <1>5, <1>6, <1>8, <1>9, <1>10 DEF GovernanceNext, GovernanceStep

LEMMA GovernanceTypes == PowerInv /\ ProposalInv /\ ApprovalTypes => GovernanceTypeOK
BY DEF PowerInv, ProposalInv, ApprovalTypes, GovernanceTypeOK, GovernanceRow, BallotRow

LEMMA InsuranceTypes == InsuranceInv => InsuranceTypeOK
<1> SUFFICES ASSUME InsuranceInv PROVE InsuranceTypeOK
  OBVIOUS
<1>1. /\ epoch \in EpochRow /\ claim \in Seq(ClaimRow) /\ payQueue \in Seq(Nat)
      /\ \A i \in 1 .. Len(payQueue) : payQueue[i] \in 1 .. Len(claim)
  BY InsuranceFacts DEF Sound, Queued
<1>2. \A i \in 1 .. Len(payQueue) : payQueue[i] \in 1 .. MaxClaims
  <2>1. PICK n \in Nat : n = Len(claim) /\ n <= MaxClaims
    BY <1>1, InsuranceFacts
  <2>m. MaxClaims \in Nat
    BY InsuranceAssumption
  <2>2. \A i \in 1 .. n : i \in 1 .. MaxClaims
    BY <2>1, <2>m
  <2> QED BY <1>1, <2>1, <2>2
<1>3. payQueue \in Seq(1 .. MaxClaims)
  <2> DEFINE n == Len(payQueue)
             S == 1 .. MaxClaims
  <2>1. n \in Nat /\ payQueue \in [1 .. n -> Nat]
    BY <1>1, LenProperties
  <2>2. payQueue \in [1 .. n -> S]
    <3>1. \A i \in 1 .. n : payQueue[i] \in S
      BY <1>2
    <3> HIDE DEF n, S
    <3> QED BY <2>1, <3>1
  <2> HIDE DEF n, S
  <2>3. payQueue \in Seq(S)
    BY <2>1, <2>2
  <2> QED BY <2>3 DEF S
<1> QED
  BY <1>1, <1>3, InsuranceFacts
     DEF InsuranceTypeOK, PoolRow, EpochRow, ClaimRow, WithdrawalRow

\* Every contract's storage keeps its types while the others run beside it
\* (contracts/soroban/src), for any accounts, amounts, times and bounds.
THEOREM ContractsTypeCorrect == MCSpec => []ContractsTypeOK
<1>1. EscrowSpec => []EscrowTypeOK
  BY EscrowInvInit, EscrowInvStep, SoundEscrows, PTL DEF EscrowSpec
<1>2. TreasurySpec => []TreasuryTypeOK
  <2>1. TreasuryInv => TreasuryTypeOK
    BY DEF TreasuryInv
  <2> QED BY <2>1, TreasuryInvInit, TreasuryInvStep, PTL DEF TreasurySpec
<1>3. EmergencySpec => []EmergencyTypeOK
  <2>1. EmergencyInv => EmergencyTypeOK
    BY DEF EmergencyInv
  <2> QED BY <2>1, EmergencyInvInit, EmergencyInvStep, PTL DEF EmergencySpec
<1>4. GovernanceSpec => []GovernanceTypeOK
  <2>1. GovernanceInit => ApprovalTypes
    BY DEF GovernanceInit, ApprovalTypes
  <2> QED BY <2>1, PowerInvInit, PowerInvStep, ProposalInvInit, ProposalInvStep,
             ApprovalTypesStep, GovernanceTypes, PTL DEF GovernanceSpec
<1>5. InsuranceSpec => []InsuranceTypeOK
  BY InsuranceInvInit, InsuranceInvStep, InsuranceTypes, PTL DEF InsuranceSpec
<1>6. BreakerSpec => []BreakerTypeOK
  <2>1. BreakerInv => BreakerTypeOK
    BY DEF BreakerInv
  <2> QED BY <2>1, BreakerInvInit, BreakerInvStep, PTL DEF BreakerSpec
<1>7. VerifierSpec => []VerifierTypeOK
  <2>1. VerifierInv => VerifierTypeOK
    BY DEF VerifierInv
  <2> QED BY <2>1, VerifierInvInit, VerifierInvStep, PTL DEF VerifierSpec
<1> QED
  BY <1>1, <1>2, <1>3, <1>4, <1>5, <1>6, <1>7, ContractsCompose, PTL DEF ContractsTypeOK

\* With all of them on one ledger, whatever clock time passes between their
\* calls: no contract loses what the theorems above say of it by itself.
THEOREM ContractsAreSafe ==
  MCSpec => [](/\ EscrowSolvent /\ DisputeDecides /\ ApprovalHasQuorum
               /\ QuorumBound /\ TimelockHolds /\ PowerConserved /\ VoteDecides /\ BooksAgree
               /\ PayoutsCapped /\ StagedRecovery /\ ChallengeIsFinal)
BY ContractsCompose, EscrowPaysOnce, DisputesDecide, ApprovalsHaveQuorum,
   QuorumsHold, TimelocksHold, PowerIsNotMade, VotesDecide, InsuranceBooks,
   InsurancePayoutsCapped, RecoveryIsStaged, ChallengesAreFinal, PTL
=============================================================================
