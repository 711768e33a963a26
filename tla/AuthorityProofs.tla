-------------------------- MODULE AuthorityProofs ---------------------------
(***************************************************************************)
(* The contracts that decide who may act: the signatures of the treasury   *)
(* and of the emergency operators, the challenges against a bridge, the    *)
(* pauses and their recovery.                                              *)
(***************************************************************************)
EXTENDS MultisigTreasury, ReserveVerifier, EmergencyControl, CircuitBreaker, CollectionProofs,
        TLAPS

-----------------------------------------------------------------------------
(* The treasury's transactions, for any accounts, thresholds, delays and   *)
(* numbers of transactions.  Signing closes the gate that execution wants  *)
(* open: a transaction that is still Pending lacks signatures, and one     *)
(* that is Approved has them and keeps them.                               *)

TransactionRows == [by : SUBSET Account, required : Nat, due : Nat, status : TransactionStatus]

\* What a stored transaction satisfies.
SoundTransaction(t) ==
  /\ t \in TransactionRows /\ IsFiniteSet(t.by)
  /\ t.status = "Pending" => Cardinality(t.by) < t.required
  /\ t.status = "Approved" => Cardinality(t.by) >= t.required
  /\ t.status # "Executed"

TreasuryInv ==
  /\ now \in Nat /\ TreasuryTypeOK /\ threshold <= signerCount
  /\ \A t \in Transactions : SoundTransaction(transaction[t])

LEMMA TreasuryInvInit == now = 0 /\ TreasuryInit => TreasuryInv
<1> SUFFICES ASSUME now = 0, TreasuryInit PROVE TreasuryInv
  OBVIOUS
<1>1. /\ transaction = <<>> /\ nonce = 0 /\ whitelisted = FALSE /\ signer \subseteq Account
      /\ signerCount \in Nat /\ threshold \in Nat /\ threshold <= signerCount
  BY TreasuryAssumption DEF TreasuryInit, Configuration
<1>2. TreasuryTypeOK
  <2>1. transaction \in Seq(TransactionRows) /\ nonce \in 0 .. Len(transaction)
    BY <1>1
  <2> QED BY <1>1, <2>1 DEF TreasuryTypeOK, TransactionRows
<1>3. Transactions = {}
  BY <1>1 DEF Transactions
<1> QED BY <1>1, <1>2, <1>3 DEF TreasuryInv

\* sign_transaction_internal on a sound row, or on a new one without signatures.
LEMMA SigningIsSound ==
  ASSUME NEW t \in TransactionRows, IsFiniteSet(t.by), NEW who \in Account,
         t.status = "Approved" => Cardinality(t.by) >= t.required,
         t.status # "Executed"
  PROVE  SoundTransaction(Signed(t, who))
<1> DEFINE by == t.by \cup {who}
           status == IF Cardinality(by) >= t.required THEN "Approved" ELSE t.status
<1>1. Signed(t, who) = [t EXCEPT !.by = by, !.status = status]
  BY DEF Signed
<1>2. by \in SUBSET Account /\ t.status \in TransactionStatus /\ t.required \in Nat
  BY DEF TransactionRows
<1>3. IsFiniteSet(by) /\ Cardinality(by) \in Nat /\ Cardinality(by) >= Cardinality(t.by)
      /\ Cardinality(t.by) \in Nat
  <2>1. IsFiniteSet(by)
        /\ Cardinality(by) = IF who \in t.by THEN Cardinality(t.by) ELSE Cardinality(t.by) + 1
    BY FS_AddElement
  <2>2. Cardinality(t.by) \in Nat
    BY FS_CardinalityType
  <2> QED BY <2>1, <2>2
<1>4. status \in TransactionStatus
  BY <1>2 DEF TransactionStatus
<1>5. /\ status = "Pending" => Cardinality(by) < t.required
      /\ status = "Approved" => Cardinality(by) >= t.required
      /\ status # "Executed"
  BY <1>2, <1>3
<1> HIDE DEF by, status
<1>6. [t EXCEPT !.by = by, !.status = status] \in TransactionRows
  BY <1>2, <1>4 DEF TransactionRows
<1> QED BY <1>1, <1>3, <1>5, <1>6 DEF SoundTransaction, TransactionRows

\* A sound row replaces one transaction; the signers stay.
LEMMA RowReplaced ==
  ASSUME TreasuryInv, NEW t \in Transactions, NEW row, SoundTransaction(row),
         transaction' = [transaction EXCEPT ![t] = row],
         UNCHANGED <<signer, signerCount, threshold, whitelisted, nonce, now>>
  PROVE  TreasuryInv'
<1>1. transaction \in Seq(TransactionRows) /\ row \in TransactionRows /\ t \in 1 .. Len(transaction)
  BY DEF TreasuryInv, TreasuryTypeOK, TransactionRows, SoundTransaction, Transactions
<1>2. transaction' \in Seq(TransactionRows) /\ Len(transaction') = Len(transaction)
  BY <1>1
<1>3. \A u \in Transactions' : SoundTransaction(transaction'[u])
  BY <1>1, <1>2 DEF TreasuryInv, Transactions
<1>4. TreasuryTypeOK'
  BY <1>2 DEF TreasuryInv, TreasuryTypeOK, TransactionRows
<1> QED BY <1>3, <1>4 DEF TreasuryInv

\* Signers, thresholds and the clock change; the transactions stay.
LEMMA TransactionsKept ==
  ASSUME TreasuryInv, transaction' = transaction, now' \in Nat,
         signer' \subseteq Account, signerCount' \in Nat, threshold' \in Nat,
         whitelisted' \in BOOLEAN, nonce' \in 0 .. Len(transaction), threshold' <= signerCount'
  PROVE  TreasuryInv'
<1>1. Transactions' = Transactions
  BY DEF Transactions
<1>2. \A u \in Transactions' : SoundTransaction(transaction'[u])
  BY <1>1 DEF TreasuryInv
<1>3. TreasuryTypeOK'
  BY DEF TreasuryInv, TreasuryTypeOK
<1> QED BY <1>2, <1>3 DEF TreasuryInv

LEMMA ProposalKeeps ==
  ASSUME TreasuryInv, NEW a \in Account, NEW emergency \in BOOLEAN, NEW large \in BOOLEAN,
         ProposeTransaction(a, emergency, large), UNCHANGED now
  PROVE  TreasuryInv'
<1> DEFINE new == [by |-> {}, status |-> "Pending",
                   required |-> IF emergency THEN Emergency ELSE threshold,
                   due |-> now + IF large THEN Delay ELSE 0]
<1>1. new \in TransactionRows /\ IsFiniteSet(new.by)
  BY TreasuryAssumption, FS_EmptySet
     DEF TreasuryInv, TreasuryTypeOK, TransactionRows, TransactionStatus
<1>2. SoundTransaction(Signed(new, a))
  BY <1>1, SigningIsSound
<1>3. /\ nonce' = nonce + 1
      /\ transaction' = [t \in Transactions \cup {nonce'} |->
            IF t = nonce' THEN Signed(new, a) ELSE transaction[t]]
      /\ UNCHANGED <<signer, signerCount, threshold, whitelisted>>
  BY DEF ProposeTransaction
<1> HIDE DEF new
<1>4. /\ transaction \in Seq(TransactionRows) /\ Len(transaction) \in Nat
      /\ nonce \in 0 .. Len(transaction)
  BY DEF TreasuryInv, TreasuryTypeOK, TransactionRows
<1>5. PICK n \in Nat : Transactions \cup {nonce'} = 1 .. n /\ nonce' \in 1 .. n
  <2>1. CASE nonce = Len(transaction)
    <3>1. Transactions \cup {nonce'} = 1 .. Len(transaction) + 1
      BY <1>3, <1>4, <2>1 DEF Transactions
    <3> QED BY <1>3, <1>4, <2>1, <3>1
  <2>2. CASE nonce < Len(transaction)
    <3>1. Transactions \cup {nonce'} = 1 .. Len(transaction)
      BY <1>3, <1>4, <2>2 DEF Transactions
    <3> QED BY <1>3, <1>4, <2>2, <3>1
  <2> QED BY <1>4, <2>1, <2>2
<1>6. \A t \in 1 .. n : SoundTransaction(transaction'[t])
  BY <1>2, <1>3, <1>5 DEF TreasuryInv
<1>7. transaction' \in [1 .. n -> TransactionRows]
  <2>1. \A t \in 1 .. n : transaction'[t] \in TransactionRows
    BY <1>6 DEF SoundTransaction
  <2> QED BY <1>3, <1>5, <2>1
<1>8. transaction' \in Seq(TransactionRows) /\ Len(transaction') = n
  BY <1>7
<1>9. TreasuryTypeOK'
  <2>1. nonce' \in 0 .. Len(transaction')
    BY <1>5, <1>8
  <2>2. /\ signer' \subseteq Account /\ signerCount' \in Nat
        /\ threshold' \in Nat /\ whitelisted' \in BOOLEAN
    BY <1>3 DEF TreasuryInv, TreasuryTypeOK
  <2> QED BY <1>8, <2>1, <2>2 DEF TreasuryTypeOK, TransactionRows
<1> QED BY <1>3, <1>6, <1>8, <1>9 DEF TreasuryInv, Transactions

LEMMA TreasuryInvStep == TreasuryInv /\ [TreasuryNext]_<<now, treasuryVars>> => TreasuryInv'
<1> SUFFICES ASSUME TreasuryInv, [TreasuryNext]_<<now, treasuryVars>> PROVE TreasuryInv'
  OBVIOUS
<1>0. /\ now \in Nat /\ signer \subseteq Account /\ signerCount \in Nat /\ threshold \in Nat
      /\ whitelisted \in BOOLEAN /\ nonce \in 0 .. Len(transaction) /\ threshold <= signerCount
      /\ Len(transaction) \in Nat
  BY DEF TreasuryInv, TreasuryTypeOK
<1>1. ASSUME NEW S \in SUBSET Account, NEW c \in 0 .. Cardinality(Account) + 1,
             NEW n \in 0 .. MaxThreshold, Initialize(S, c, n), UNCHANGED now
      PROVE  TreasuryInv'
  <2>1. /\ signer' = signer \cup S /\ signerCount' = c /\ threshold' = n /\ nonce' = 0 /\ n <= c
        /\ UNCHANGED <<whitelisted, transaction>>
    BY <1>1 DEF Initialize, Configuration
  <2>2. c \in Nat /\ n \in Nat
    BY <1>1, TreasuryAssumption
  <2> QED BY <1>0, <1>1, <2>1, <2>2, TransactionsKept
<1>2. ASSUME NEW a \in Account, NEW emergency \in BOOLEAN, NEW large \in BOOLEAN,
             ProposeTransaction(a, emergency, large), UNCHANGED now
      PROVE  TreasuryInv'
  BY <1>2, ProposalKeeps
<1>3. ASSUME NEW t \in Transactions, NEW a \in Account, SignTransaction(t, a), UNCHANGED now
      PROVE  TreasuryInv'
  <2>1. SoundTransaction(transaction[t])
    BY DEF TreasuryInv
  <2>2. SoundTransaction(Signed(transaction[t], a))
    BY <2>1, SigningIsSound DEF SoundTransaction
  <2> QED BY <1>3, <2>2, RowReplaced DEF SignTransaction
<1>4. ASSUME NEW t \in Transactions, NEW o \in {"Executed", "Cancelled"},
             CloseTransaction(t, o), UNCHANGED now
      PROVE  TreasuryInv'
  <2>1. SoundTransaction(transaction[t]) /\ transaction[t].status = "Pending"
    BY <1>4 DEF TreasuryInv, CloseTransaction
  <2>2. Cardinality(transaction[t].by) \in Nat /\ transaction[t].required \in Nat
    BY <2>1, FS_CardinalityType DEF SoundTransaction, TransactionRows
  <2>3. o = "Cancelled"
    BY <1>4, <2>1, <2>2 DEF CloseTransaction, Due, SoundTransaction
  <2>4. SoundTransaction([transaction[t] EXCEPT !.status = o])
    BY <2>1, <2>3 DEF SoundTransaction, TransactionRows, TransactionStatus
  <2>5. transaction' = [transaction EXCEPT ![t] = [transaction[t] EXCEPT !.status = o]]
    BY <1>4 DEF CloseTransaction
  <2> QED BY <1>4, <2>4, <2>5, RowReplaced DEF CloseTransaction
<1>5. ASSUME NEW a \in Account, AddSigner(a) \/ RemoveSigner(a), UNCHANGED now PROVE TreasuryInv'
  BY <1>0, <1>5, TransactionsKept DEF AddSigner, RemoveSigner
<1>6. CASE WhitelistAsset /\ UNCHANGED now
  BY <1>0, <1>6, TransactionsKept DEF WhitelistAsset
<1>7. ASSUME NEW n \in 1 .. MaxThreshold, UpdateThreshold(n), UNCHANGED now PROVE TreasuryInv'
  BY <1>0, <1>7, TreasuryAssumption, TransactionsKept DEF UpdateThreshold
<1>8. CASE CloseLedger /\ UNCHANGED treasuryVars
  BY <1>0, <1>8, TransactionsKept DEF CloseLedger, treasuryVars
<1>9. CASE UNCHANGED <<now, treasuryVars>>
  BY <1>0, <1>9, TransactionsKept DEF treasuryVars
<1> QED BY <1>1, <1>2, <1>3, <1>4, <1>5, <1>6, <1>7, <1>8, <1>9 DEF TreasuryNext, TreasuryStep

NeverExecuted == \A t \in Transactions : transaction[t].status # "Executed"

LEMMA SoundTransactions == TreasuryInv => ApprovalHasQuorum /\ NeverExecuted
BY DEF TreasuryInv, ApprovalHasQuorum, NeverExecuted, SoundTransaction

\* sign_transaction: an approval has the signatures its configuration asked
\* for, and the threshold can be reached.
THEOREM ApprovalsHaveQuorum == TreasurySpec => []ApprovalHasQuorum
BY TreasuryInvInit, TreasuryInvStep, SoundTransactions, PTL DEF TreasurySpec

\* execute_transaction: it is open to transactions that cannot have their
\* signatures yet, so no sequence of calls ever executes one.
THEOREM NothingIsExecuted == TreasurySpec => []NeverExecuted
BY TreasuryInvInit, TreasuryInvStep, SoundTransactions, PTL DEF TreasurySpec

-----------------------------------------------------------------------------
(* A challenge is final, for any terms, stakes and number of commitments.  *)
(* Nothing but the registration makes an operator active, and a bridge is  *)
(* registered before it commits to anything; every slashed commitment has  *)
(* added one to the operator's slashes.                                    *)

Operators == [known : BOOLEAN, active : BOOLEAN, stake : Nat, slashes : Nat]

CommitmentRows ==
  [ledger : Nat,
   status : {"PendingVerification", "Verified", "Challenged", "Slashed", "Resolved"}]

SlashedOnes == {c \in Commitments : commitment[c].status = "Slashed"}

\* Commitments are made by a registered operator.
Registered == ~ operator.known => ~ operator.active /\ commitment = <<>>

VerifierInv == now \in Nat /\ VerifierTypeOK /\ Registered /\ ChallengeIsFinal

LEMMA VerifierInvInit == now = 0 /\ VerifierInit => VerifierInv
<1> SUFFICES ASSUME now = 0, VerifierInit PROVE VerifierInv
  OBVIOUS
<1>1. SlashedOnes = {}
  BY DEF VerifierInit, SlashedOnes, Commitments
<1>2. Cardinality(SlashedOnes) = 0
  BY <1>1, FS_EmptySet
<1> QED BY <1>2 DEF VerifierInit, VerifierInv, VerifierTypeOK, Registered, ChallengeIsFinal,
           SlashedOnes, Commitments

\* The set of slashed commitments is finite.
LEMMA SlashedFinite ==
  ASSUME VerifierTypeOK PROVE IsFiniteSet(SlashedOnes) /\ Cardinality(SlashedOnes) \in Nat
<1>1. Len(commitment) \in Nat
  BY DEF VerifierTypeOK
<1>2. IsFiniteSet(1 .. Len(commitment))
  BY <1>1, FS_Interval
<1>3. SlashedOnes \in SUBSET (1 .. Len(commitment))
  BY DEF SlashedOnes, Commitments
<1>4. IsFiniteSet(SlashedOnes)
  BY <1>2, <1>3, FS_Subset
<1> QED BY <1>4, FS_CardinalityType

\* One commitment changes its status, and the operator is slashed or as it was.
LEMMA OneRowChanges ==
  ASSUME VerifierInv, NEW c \in Commitments, NEW s,
         s \in {"Verified", "Challenged", "Slashed", "Resolved"},
         commitment[c].status \in {"PendingVerification", "Challenged"},
         commitment' = [commitment EXCEPT ![c].status = s],
         operator' \in Operators, operator'.known = operator.known, ~ operator'.active,
         operator'.slashes = IF s = "Slashed" THEN operator.slashes + 1 ELSE operator.slashes,
         UNCHANGED <<terms, now>>
  PROVE  VerifierInv'
<1> USE DEF VerifierInv
<1>1. commitment' \in Seq(CommitmentRows) /\ Len(commitment') = Len(commitment)
  <2>1. commitment \in Seq(CommitmentRows) /\ c \in 1 .. Len(commitment)
    BY DEF VerifierTypeOK, CommitmentRows, Commitments
  <2>2. [commitment[c] EXCEPT !.status = s] \in CommitmentRows
    <3>1. commitment[c] \in CommitmentRows
      BY <2>1
    <3> QED BY <3>1 DEF CommitmentRows
  <2>3. commitment' = [commitment EXCEPT ![c] = [commitment[c] EXCEPT !.status = s]]
    OBVIOUS
  <2> QED BY <2>1, <2>2, <2>3
<1>2. VerifierTypeOK'
  BY <1>1 DEF VerifierTypeOK, CommitmentRows, Operators
<1>3. Registered'
  <2>1. commitment # <<>>
    BY DEF Commitments, VerifierTypeOK
  <2> QED BY <2>1 DEF Registered
<1>4. SlashedOnes' = IF s = "Slashed" THEN SlashedOnes \cup {c} ELSE SlashedOnes
  BY <1>1 DEF SlashedOnes, Commitments, VerifierTypeOK
<1>5. c \notin SlashedOnes
  BY DEF SlashedOnes
<1>6. Cardinality(SlashedOnes') <= operator'.slashes
  <2>1. Cardinality(SlashedOnes) <= operator.slashes
    BY DEF ChallengeIsFinal, SlashedOnes
  <2>2. operator.slashes \in Nat /\ Cardinality(SlashedOnes) \in Nat /\ IsFiniteSet(SlashedOnes)
    BY SlashedFinite DEF VerifierTypeOK
  <2>3. Cardinality(SlashedOnes \cup {c}) = Cardinality(SlashedOnes) + 1
    BY <1>5, <2>2, FS_AddElement
  <2> QED BY <1>4, <2>1, <2>2, <2>3
<1> QED BY <1>2, <1>3, <1>6 DEF ChallengeIsFinal, SlashedOnes

\* slash_operator_internal never activates, and counts.
LEMMA SlashedCounts ==
  ASSUME VerifierTypeOK
  PROVE  /\ Slashed \in Operators /\ Slashed.known = operator.known
         /\ Slashed.slashes = operator.slashes + 1
         /\ Slashed.active => operator.active
<1> DEFINE left == IF operator.stake >= terms.slash THEN operator.stake - terms.slash ELSE 0
           on == operator.active /\ left >= terms.minStake
<1>1. terms.slash \in Nat /\ operator \in Operators
  BY VerifierAssumption DEF VerifierTypeOK, Operators
<1>2. left \in Nat
  BY <1>1 DEF Operators
<1>3. Slashed = [operator EXCEPT !.stake = left, !.slashes = @ + 1, !.active = on]
  BY DEF Slashed
<1>4. on \in BOOLEAN /\ (on => operator.active)
  OBVIOUS
<1> HIDE DEF left, on
<1>5. operator.slashes + 1 \in Nat
  BY <1>1 DEF Operators
<1> QED BY <1>1, <1>2, <1>3, <1>4, <1>5 DEF Operators

LEMMA VerifierInvStep == VerifierInv /\ [VerifierNext]_<<now, verifierVars>> => VerifierInv'
<1> SUFFICES ASSUME VerifierInv, [VerifierNext]_<<now, verifierVars>> PROVE VerifierInv'
  OBVIOUS
<1> USE DEF VerifierInv
<1> DEFINE Keeps == commitment' = commitment /\ now' = now
<1>1. ASSUME Keeps, operator' = operator, terms' \in Terms PROVE VerifierInv'
  BY <1>1 DEF VerifierTypeOK, Registered, ChallengeIsFinal, Commitments
<1>2. CASE UpdateTerms /\ UNCHANGED now
  BY <1>1, <1>2 DEF UpdateTerms
<1>3. CASE CommitReserves /\ UNCHANGED now
  <2> DEFINE new == [ledger |-> now, status |-> "PendingVerification"]
  <2>1. commitment' = Append(commitment, new) /\ new \in CommitmentRows
    BY <1>3 DEF CommitReserves, CommitmentRows
  <2>2. commitment \in Seq(CommitmentRows)
    BY DEF VerifierTypeOK, CommitmentRows
  <2>3. /\ commitment' \in Seq(CommitmentRows) /\ Len(commitment') = Len(commitment) + 1
        /\ \A c \in Commitments : commitment'[c] = commitment[c]
        /\ commitment'[Len(commitment) + 1] = new
    BY <2>1, <2>2 DEF Commitments
  <2>4. VerifierTypeOK'
    BY <1>3, <2>3 DEF CommitReserves, VerifierTypeOK, CommitmentRows
  <2>5. SlashedOnes' = SlashedOnes
    BY <2>2, <2>3 DEF SlashedOnes, Commitments
  <2>6. Registered'
    BY <1>3 DEF CommitReserves, Registered, VerifierTypeOK
  <2>7. ChallengeIsFinal'
    <3>1. Commitments' = Commitments \cup {Len(commitment) + 1}
      BY <2>2, <2>3 DEF Commitments
    <3>2. operator' = operator
      BY <1>3 DEF CommitReserves
    <3>3. Cardinality(SlashedOnes') <= operator'.slashes
      BY <2>5, <3>2 DEF ChallengeIsFinal, SlashedOnes
    <3>4. ASSUME operator'.active, NEW c \in Commitments'
          PROVE  commitment'[c].status \in {"PendingVerification", "Verified"}
      BY <2>3, <3>1, <3>2, <3>4 DEF ChallengeIsFinal
    <3> QED BY <3>3, <3>4 DEF ChallengeIsFinal, SlashedOnes
  <2> QED BY <1>3, <2>4, <2>6, <2>7
<1>4. CASE SlashOperator /\ UNCHANGED now
  <2>1. /\ operator' \in Operators /\ operator'.known = operator.known
        /\ operator'.slashes = operator.slashes + 1
        /\ operator'.active => operator.active
        /\ UNCHANGED <<terms, commitment, now>>
    BY <1>4, SlashedCounts DEF SlashOperator
  <2>2. operator.slashes \in Nat /\ Cardinality(SlashedOnes) \in Nat
    BY SlashedFinite DEF VerifierTypeOK
  <2>3. Cardinality(SlashedOnes') <= operator'.slashes
    <3>1. SlashedOnes' = SlashedOnes
      BY <2>1 DEF SlashedOnes, Commitments
    <3>2. Cardinality(SlashedOnes) <= operator.slashes
      BY DEF ChallengeIsFinal, SlashedOnes
    <3> QED BY <2>1, <2>2, <3>1, <3>2
  <2>4. ChallengeIsFinal'
    BY <2>1, <2>3 DEF ChallengeIsFinal, SlashedOnes, Commitments
  <2> QED BY <2>1, <2>4 DEF VerifierTypeOK, Registered, Operators
<1>5. ASSUME NEW n \in Stake, RegisterBridge(n), UNCHANGED now PROVE VerifierInv'
  <2>1. n \in Nat /\ commitment = <<>>
    BY <1>5, VerifierAssumption DEF RegisterBridge, Registered
  <2>2. SlashedOnes' = {}
    BY <1>5, <2>1 DEF RegisterBridge, SlashedOnes, Commitments
  <2>3. Cardinality(SlashedOnes') = 0
    BY <2>2, FS_EmptySet
  <2> QED BY <1>5, <2>1, <2>3
          DEF RegisterBridge, VerifierTypeOK, Registered, ChallengeIsFinal, SlashedOnes, Commitments
<1>6. ASSUME NEW S \in SUBSET Commitments, Confirm(S), UNCHANGED now PROVE VerifierInv'
  <2>1. /\ \A c \in S : commitment[c].status = "PendingVerification"
        /\ commitment' = [c \in Commitments |->
              IF c \in S THEN [commitment[c] EXCEPT !.status = "Verified"] ELSE commitment[c]]
        /\ UNCHANGED <<terms, operator>>
    BY <1>6 DEF Confirm, Confirmable
  <2>2. commitment \in Seq(CommitmentRows) /\ Len(commitment) \in Nat
    BY DEF VerifierTypeOK, CommitmentRows
  <2>3. commitment' \in [1 .. Len(commitment) -> CommitmentRows]
    <3>1. ASSUME NEW c \in Commitments
          PROVE  (IF c \in S THEN [commitment[c] EXCEPT !.status = "Verified"] ELSE commitment[c])
                 \in CommitmentRows
      <4>1. commitment[c] \in CommitmentRows
        BY <2>2 DEF Commitments
      <4> QED BY <4>1 DEF CommitmentRows
    <3> QED BY <2>1, <3>1 DEF Commitments
  <2>4. commitment' \in Seq(CommitmentRows) /\ Len(commitment') = Len(commitment)
    BY <2>2, <2>3
  <2>5. VerifierTypeOK'
    BY <2>1, <2>4 DEF VerifierTypeOK, CommitmentRows
  <2>6. SlashedOnes' = SlashedOnes
    BY <2>1, <2>4 DEF SlashedOnes, Commitments, VerifierTypeOK
  <2>7. ChallengeIsFinal'
    <3>1. Cardinality(SlashedOnes') <= operator'.slashes
      BY <2>1, <2>6 DEF ChallengeIsFinal, SlashedOnes
    <3>2. ASSUME operator'.active, NEW c \in Commitments'
          PROVE  commitment'[c].status \in {"PendingVerification", "Verified"}
      BY <2>1, <2>2, <2>4, <3>2 DEF ChallengeIsFinal, Commitments, CommitmentRows
    <3> QED BY <3>1, <3>2 DEF ChallengeIsFinal, SlashedOnes
  <2>8. Registered'
    BY <1>6, <2>1, <2>2 DEF Confirm, Commitments, Registered
  <2> QED BY <1>6, <2>5, <2>7, <2>8
<1>7. ASSUME NEW c \in Commitments, ChallengeCommitment(c), UNCHANGED now PROVE VerifierInv'
  <2>1. operator' \in Operators /\ operator'.known = operator.known /\ ~ operator'.active
        /\ operator'.slashes = operator.slashes
    BY <1>7 DEF ChallengeCommitment, VerifierTypeOK, Operators
  <2> QED BY <1>7, <2>1, OneRowChanges DEF ChallengeCommitment
<1>8. ASSUME NEW c \in Commitments, NEW valid \in BOOLEAN, ResolveDispute(c, valid), UNCHANGED now
      PROVE  VerifierInv'
  <2>1. ~ operator.active /\ operator \in Operators
    BY <1>8 DEF ResolveDispute, ChallengeIsFinal, VerifierTypeOK, Operators
  <2>2. CASE valid
    BY <1>8, <2>1, <2>2, OneRowChanges DEF ResolveDispute
  <2>3. CASE ~ valid
    BY <1>8, <2>1, <2>3, OneRowChanges, SlashedCounts DEF ResolveDispute
  <2> QED BY <2>2, <2>3
<1>9. CASE CloseLedger /\ UNCHANGED verifierVars
  BY <1>9 DEF CloseLedger, verifierVars, VerifierTypeOK, Registered, ChallengeIsFinal, Commitments
<1>10. CASE UNCHANGED <<now, verifierVars>>
  BY <1>1, <1>10 DEF verifierVars, VerifierTypeOK
<1> QED BY <1>2, <1>3, <1>4, <1>5, <1>6, <1>7, <1>8, <1>9, <1>10 DEF VerifierNext, VerifierStep

\* resolve_challenge and slash_operator: whatever is decided, a challenged
\* bridge has no active operator, and each commitment found wrong was slashed.
THEOREM ChallengesAreFinal == VerifierSpec => []ChallengeIsFinal
<1>1. VerifierInv => ChallengeIsFinal
  BY DEF VerifierInv
<1> QED BY VerifierInvInit, VerifierInvStep, <1>1, PTL DEF VerifierSpec

-----------------------------------------------------------------------------
(* Emergency actions and pauses, for any operators, signatures and number  *)
(* of pauses. A single-key pause that no pause of the operators has        *)
(* followed keeps its timelock.                                            *)

ActionEntry ==
  [nonce : Nat, action : EmergencyAction, approvers : SUBSET Operator, needed : Nat \ {0}]

\* What a logged action rests on.
Backed(entry) ==
  /\ Cardinality(entry.approvers) >= entry.needed
  /\ \A o \in entry.approvers :
       [by |-> o, action |-> entry.action, nonce |-> entry.nonce] \in signature

Numbered(log, last) == \A i \in 1 .. Len(log) : log[i].nonce = last - Len(log) + i

\* A single-key pause that no pause of the operators has followed.
Standing(i) ==
  /\ history[i].paused /\ history[i].by # "operators"
  /\ \A k \in i + 1 .. Len(history) : history[k].paused => history[k].by # "operators"

EmergencyInv ==
  /\ now \in Nat /\ EmergencyTypeOK
  /\ Numbered(actionLog, msigNonce)
  /\ \A i \in 1 .. Len(actionLog) : Backed(actionLog[i])
  /\ \A i \in 1 .. Len(history) : Standing(i) => available >= history[i].at + Timelock
  /\ \A i \in 1 .. Len(history) : history[i].at <= now
  /\ TimelockHolds

LEMMA EmergencyInvInit == now = 0 /\ EmergencyInit => EmergencyInv
<1> SUFFICES ASSUME now = 0, EmergencyInit PROVE EmergencyInv
  OBVIOUS
<1>1. actionLog = <<>> /\ history = <<>> /\ halted = FALSE /\ Len(actionLog) = 0 /\ Len(history) = 0
  BY DEF EmergencyInit
<1>2. EmergencyTypeOK
  <2>1. actionLog \in Seq(ActionEntry) /\ history \in Seq(PauseRecord)
    BY <1>1
  <2>2. quorum \in [keys : SUBSET Operator, threshold : Nat \ {0}]
    BY DEF EmergencyInit
  <2>3. msigNonce \in Nat /\ signature \subseteq Signature /\ available \in Nat
        /\ halted \in BOOLEAN
    BY DEF EmergencyInit
  <2>4. Len(actionLog) <= MaxLogEntries
    BY <1>1, EmergencyAssumption
  <2> QED
    BY <2>1, <2>2, <2>3, <2>4 DEF EmergencyTypeOK, ActionEntry
<1>3. TimelockHolds
  <2>1. halted = (history # <<>> /\ history[Len(history)].paused)
    BY <1>1, Zenon
  <2> QED
    BY <1>1, <2>1 DEF TimelockHolds
<1> QED
  BY <1>1, <1>2, <1>3 DEF EmergencyInv, Numbered

\* The log after an entry with the next number.
LEMMA LogKeeps ==
  ASSUME EmergencyInv, NEW entry \in ActionEntry, Backed(entry), entry.nonce = msigNonce + 1
  PROVE  /\ Logged(entry) \in Seq(ActionEntry) /\ Len(Logged(entry)) <= MaxLogEntries
         /\ Numbered(Logged(entry), msigNonce + 1)
         /\ \A i \in 1 .. Len(Logged(entry)) : Backed(Logged(entry)[i])
<1>1. /\ actionLog \in Seq(ActionEntry) /\ msigNonce \in Nat /\ Len(actionLog) <= MaxLogEntries
      /\ MaxLogEntries \in Nat \ {0}
      /\ \A i \in 1 .. Len(actionLog) : Backed(actionLog[i])
      /\ \A i \in 1 .. Len(actionLog) : actionLog[i].nonce = msigNonce - Len(actionLog) + i
  BY EmergencyAssumption DEF EmergencyInv, EmergencyTypeOK, ActionEntry, Numbered
<1> DEFINE log == Append(actionLog, entry)
<1>2. /\ log \in Seq(ActionEntry) /\ Len(log) = Len(actionLog) + 1
      /\ \A i \in 1 .. Len(actionLog) : log[i] = actionLog[i]
      /\ log[Len(actionLog) + 1] = entry
  BY <1>1
<1>3. \A i \in 1 .. Len(log) : Backed(log[i]) /\ log[i].nonce = (msigNonce + 1) - Len(log) + i
  <2> SUFFICES ASSUME NEW i \in 1 .. Len(log)
               PROVE  Backed(log[i]) /\ log[i].nonce = (msigNonce + 1) - Len(log) + i
    OBVIOUS
  <2>1. CASE i \in 1 .. Len(actionLog)
    BY <1>1, <1>2, <2>1
  <2>2. CASE i = Len(actionLog) + 1
    BY <1>1, <1>2, <2>2
  <2> QED
    BY <1>1, <1>2, <2>1, <2>2
<1> HIDE DEF log
<1>4. CASE Len(log) <= MaxLogEntries
  <2>1. Logged(entry) = log
    BY <1>1, <1>2, <1>4 DEF Logged, log
  <2> QED
    BY <1>2, <1>3, <1>4, <2>1 DEF Numbered
<1>5. CASE Len(log) > MaxLogEntries
  <2>1. Logged(entry) = Tail(log)
    BY <1>1, <1>2, <1>5 DEF Logged, log
  <2>2. /\ Tail(log) \in Seq(ActionEntry) /\ Len(Tail(log)) = Len(log) - 1
        /\ \A i \in 1 .. Len(Tail(log)) : Tail(log)[i] = log[i + 1]
    BY <1>1, <1>2
  <2> QED
    BY <1>1, <1>2, <1>3, <1>5, <2>1, <2>2 DEF Numbered
<1> QED
  BY <1>1, <1>2, <1>4, <1>5

\* verify_and_execute, and the invariant's part about the log.
LEMMA ExecuteKeeps ==
  ASSUME EmergencyInv, NEW action \in EmergencyAction, NEW S \in SUBSET Operator,
         VerifyAndExecute(action, S), signature' = signature
  PROVE  /\ msigNonce' \in Nat
         /\ actionLog' \in Seq(ActionEntry) /\ Len(actionLog') <= MaxLogEntries
         /\ Numbered(actionLog', msigNonce')
         /\ (\A i \in 1 .. Len(actionLog) : Backed(actionLog[i]))'
<1> DEFINE entry == [nonce |-> msigNonce + 1, action |-> action, approvers |-> S,
                     needed |-> quorum.threshold]
<1>1. msigNonce \in Nat /\ quorum.threshold \in Nat \ {0}
  BY DEF EmergencyInv, EmergencyTypeOK
<1>2. /\ actionLog' = Logged(entry) /\ msigNonce' = msigNonce + 1
      /\ Cardinality(S) >= quorum.threshold
      /\ \A o \in S : Valid(o, action, msigNonce + 1)
  BY DEF VerifyAndExecute
<1>3. entry \in ActionEntry /\ Backed(entry) /\ entry.nonce = msigNonce + 1
  BY <1>1, <1>2 DEF ActionEntry, Backed, Valid
<1> HIDE DEF entry
<1> QED
  <2>1. /\ actionLog' \in Seq(ActionEntry) /\ Len(actionLog') <= MaxLogEntries
        /\ Numbered(actionLog', msigNonce')
        /\ \A i \in 1 .. Len(actionLog') : Backed(actionLog'[i])
    BY <1>2, <1>3, LogKeeps
  <2>2. (\A i \in 1 .. Len(actionLog) : Backed(actionLog[i]))'
    BY <2>1 DEF Backed
  <2> QED
    BY <1>1, <1>2, <2>1, <2>2

\* A change of the flag, and the invariant's part about the history.
LEMMA RecordKeeps ==
  ASSUME EmergencyInv, now' = now, NEW paused \in BOOLEAN,
         NEW by \in {"admin", "guardian", "operators"}, Recorded(paused, by),
         available' \in Nat,
         paused => available' >= now,
         paused /\ by # "operators" => available' >= now + Timelock,
         ~ paused => available' = available,
         ~ paused /\ by = "admin" => now >= available
  PROVE  /\ halted' \in BOOLEAN /\ history' \in Seq(PauseRecord)
         /\ \A i \in 1 .. Len(history') : history'[i].at <= now
         /\ (\A i \in 1 .. Len(history) : Standing(i) => available >= history[i].at + Timelock)'
         /\ TimelockHolds'
<1> DEFINE new == [paused |-> paused, by |-> by, at |-> now]
           n == Len(history) + 1
<1>1. now \in Nat /\ available \in Nat /\ Timelock \in Nat /\ history \in Seq(PauseRecord)
      /\ Len(history) \in Nat
  BY EmergencyAssumption DEF EmergencyInv, EmergencyTypeOK
<1>2. /\ history' = Append(history, new) /\ halted' = paused
      /\ new \in PauseRecord /\ new.paused = paused /\ new.by = by /\ new.at = now
  BY <1>1 DEF Recorded, PauseRecord
<1> HIDE DEF new
<1>3. /\ history' \in Seq(PauseRecord) /\ Len(history') = n /\ history'[n] = new
      /\ history' # <<>>
      /\ \A i \in 1 .. Len(history) : history'[i] = history[i]
  BY <1>1, <1>2
<1>4. \A i \in 1 .. Len(history) :
        history[i] \in PauseRecord /\ history[i].at \in Nat /\ history[i].at <= now
  <2>1. \A i \in 1 .. Len(history) : history[i].at <= now
    BY DEF EmergencyInv
  <2>2. \A i \in 1 .. Len(history) : history[i] \in PauseRecord
    BY <1>1
  <2> QED
    BY <2>1, <2>2 DEF PauseRecord
<1>5. \A i \in 1 .. Len(history) : Standing(i) => available >= history[i].at + Timelock
  BY DEF EmergencyInv
<1>6. \A i \in 1 .. n : i \in 1 .. Len(history) \/ i = n
  BY <1>1
<1>7. \A i \in 1 .. n : history'[i].at <= now
  BY <1>1, <1>2, <1>3, <1>4, <1>6
<1>8. ASSUME NEW i \in 1 .. n, Standing(i)' PROVE available' >= history'[i].at + Timelock
  <2>1. CASE i = n
    BY <1>1, <1>2, <1>3, <1>8, <2>1 DEF Standing
  <2>2. CASE i \in 1 .. Len(history)
    <3>1. history'[i] = history[i] /\ n \in i + 1 .. Len(history')
      BY <1>1, <1>3, <2>2
    <3>2. paused => by # "operators"
      BY <1>2, <1>3, <1>8, <3>1 DEF Standing
    <3>3. Standing(i)
      BY <1>1, <1>3, <1>8, <2>2 DEF Standing
    <3> QED
      BY <1>1, <1>4, <1>5, <2>2, <3>1, <3>2, <3>3
  <2> QED
    BY <1>6, <2>1, <2>2
<1>9. TimelockHolds'
  <2>1. halted' = (history' # <<>> /\ history'[Len(history')].paused)
    BY <1>2, <1>3
  <2>2. ASSUME NEW i \in 1 .. n, NEW j \in 1 .. n, i < j,
               history'[i].paused /\ history'[i].by # "operators",
               ~ history'[j].paused /\ history'[j].by = "admin",
               \A k \in i + 1 .. j - 1 : history'[k].paused => history'[k].by # "operators"
        PROVE  history'[j].at >= history'[i].at + Timelock
    <3>1. i \in 1 .. Len(history) /\ history'[i] = history[i]
      BY <1>1, <1>3, <2>2
    <3>2. CASE j \in 1 .. Len(history)
      <4>1. history'[j] = history[j]
            /\ \A k \in i + 1 .. j - 1 : history[k].paused => history[k].by # "operators"
        BY <1>1, <1>3, <2>2, <3>2
      <4> QED
        BY <2>2, <3>1, <3>2, <4>1 DEF EmergencyInv, TimelockHolds
    <3>3. CASE j = n
      <4>1. Standing(i)
        BY <1>1, <1>3, <2>2, <3>1, <3>3 DEF Standing
      <4>2. now >= available /\ history'[j].at = now
        BY <1>2, <1>3, <2>2, <3>3
      <4> QED
        BY <1>1, <1>4, <1>5, <3>1, <4>1, <4>2
    <3> QED
      BY <1>6, <3>2, <3>3
  <2> QED
    BY <1>3, <2>1, <2>2 DEF TimelockHolds
<1> QED
  BY <1>2, <1>3, <1>7, <1>8, <1>9

LEMMA EmergencyInvStep == EmergencyInv /\ [EmergencyNext]_<<now, emergencyVars>> => EmergencyInv'
<1> SUFFICES ASSUME EmergencyInv, [EmergencyNext]_<<now, emergencyVars>> PROVE EmergencyInv'
  OBVIOUS
<1>0. /\ now \in Nat /\ Timelock \in Nat
      /\ quorum \in [keys : SUBSET Operator, threshold : Nat \ {0}]
      /\ msigNonce \in Nat /\ signature \subseteq Signature /\ actionLog \in Seq(ActionEntry)
      /\ Len(actionLog) <= MaxLogEntries /\ halted \in BOOLEAN /\ available \in Nat
      /\ history \in Seq(PauseRecord)
      /\ Numbered(actionLog, msigNonce)
      /\ \A i \in 1 .. Len(actionLog) : Backed(actionLog[i])
      /\ \A i \in 1 .. Len(history) : Standing(i) => available >= history[i].at + Timelock
      /\ \A i \in 1 .. Len(history) : history[i].at <= now
      /\ TimelockHolds
  BY EmergencyAssumption DEF EmergencyInv, EmergencyTypeOK, ActionEntry
<1>t. now \in Nat /\ Timelock \in Nat /\ history \in Seq(PauseRecord)
  BY <1>0
<1> DEFINE LogPart == /\ msigNonce \in Nat /\ signature \subseteq Signature
                      /\ actionLog \in Seq(ActionEntry) /\ Len(actionLog) <= MaxLogEntries
                      /\ Numbered(actionLog, msigNonce)
                      /\ \A i \in 1 .. Len(actionLog) : Backed(actionLog[i])
           HistoryPart ==
             /\ halted \in BOOLEAN /\ available \in Nat /\ history \in Seq(PauseRecord)
             /\ \A i \in 1 .. Len(history) : Standing(i) => available >= history[i].at + Timelock
             /\ \A i \in 1 .. Len(history) : history[i].at <= now
             /\ TimelockHolds
           HistoryFacts ==
             /\ halted' \in BOOLEAN /\ history' \in Seq(PauseRecord)
             /\ \A i \in 1 .. Len(history') : history'[i].at <= now
             /\ (\A i \in 1 .. Len(history) : Standing(i) => available >= history[i].at + Timelock)'
             /\ TimelockHolds'
           QuorumPart == now \in Nat /\ quorum \in [keys : SUBSET Operator, threshold : Nat \ {0}]
<1>a. QuorumPart' /\ LogPart' /\ HistoryPart' => EmergencyInv'
  BY DEF EmergencyInv, EmergencyTypeOK, ActionEntry
<1>b. UNCHANGED <<msigNonce, signature, actionLog>> => LogPart'
  BY <1>0 DEF Numbered, Backed
<1>c. ASSUME UNCHANGED <<halted, available, history>>, now' \in Nat, now' >= now PROVE HistoryPart'
  <2>1. TimelockHolds' /\ \A i \in 1 .. Len(history) : Standing(i)' <=> Standing(i)
    <3>1. TimelockHolds'
      <4>1. TimelockHolds
        BY DEF EmergencyInv
      <4> QED
        BY <1>c, <4>1 DEF TimelockHolds
    <3>2. \A i \in 1 .. Len(history) : Standing(i)' <=> Standing(i)
      BY <1>c DEF Standing
    <3> QED
      BY <3>1, <3>2
  <2>2. \A i \in 1 .. Len(history) : history[i].at \in Nat
    <3>1. \A i \in 1 .. Len(history) : history[i] \in PauseRecord
      BY <1>t
    <3> QED
      BY <3>1 DEF PauseRecord
  <2> QED
    BY <1>0, <1>c, <2>1, <2>2
<1>d. UNCHANGED <<now, quorum>> => QuorumPart'
  BY <1>0
<1> HIDE DEF LogPart, QuorumPart
<1>1. CASE CloseLedger /\ UNCHANGED emergencyVars
  <2>1. now' = now + 1 /\ UNCHANGED <<quorum, msigNonce, signature, actionLog, halted, available, history>>
    BY <1>1 DEF CloseLedger, emergencyVars
  <2>2. QuorumPart'
    BY <1>0, <2>1 DEF QuorumPart
  <2> QED
    BY <1>0, <1>a, <1>b, <1>c, <2>1, <2>2
<1>2. CASE UNCHANGED <<now, emergencyVars>>
  BY <1>0, <1>2, <1>a, <1>b, <1>c, <1>d DEF emergencyVars
<1>3. CASE EmergencyStep /\ UNCHANGED now
  <2>0. UNCHANGED now
    BY <1>3
  <2>1. ASSUME NEW by \in {"admin", "guardian"}, EmergencyPause(by) PROVE EmergencyInv'
    <3>a. Recorded(TRUE, by) /\ available' = now + Timelock
      BY <2>1 DEF EmergencyPause
    <3>b. available' = now + Timelock
      BY <3>a
    <3>0. available' \in Nat /\ available' >= now /\ available' >= now + Timelock
      BY <1>t, <3>b
    <3>1. HistoryPart'
      <4>1. HistoryFacts
        BY <2>0, <3>a, <3>0, RecordKeeps, Zenon
      <4> QED
        BY <2>0, <3>0, <4>1
    <3> QED
      BY <1>a, <1>b, <1>d, <2>0, <2>1, <3>1 DEF EmergencyPause
  <2>2. CASE Unpause
    <3>1. HistoryPart'
      BY <1>0, <2>0, <2>2, RecordKeeps DEF Unpause
    <3> QED
      BY <1>a, <1>b, <1>d, <2>0, <2>2, <3>1 DEF Unpause
  <2>3. ASSUME NEW K \in SUBSET Operator, NEW n \in 1 .. Cardinality(K),
               ConfigureEmergencyMultisig(K, n)
        PROVE  EmergencyInv'
    <3>1. QuorumPart'
      BY <1>0, <2>0, <2>3 DEF ConfigureEmergencyMultisig, QuorumPart
    <3> QED
      BY <1>0, <1>a, <1>b, <1>c, <2>0, <2>3, <3>1 DEF ConfigureEmergencyMultisig
  <2>4. ASSUME NEW o \in Operator, NEW action \in EmergencyAction, Sign(o, action)
        PROVE  EmergencyInv'
    <3>1. LogPart'
      <4>1. signature \subseteq signature' /\ signature' \subseteq Signature
            /\ UNCHANGED <<msigNonce, actionLog>>
        BY <1>0, <2>4 DEF Sign, Signature
      <4> QED
        BY <1>0, <4>1 DEF LogPart, Numbered, Backed
    <3> QED
      BY <1>0, <1>a, <1>c, <1>d, <2>0, <2>4, <3>1 DEF Sign
  <2>5. ASSUME NEW S \in SUBSET Operator, NEW action \in EmergencyAction,
               VerifyAndExecute(action, S), UNCHANGED <<quorum, signature>>
        PROVE  LogPart'
    BY <1>0, <2>5, ExecuteKeeps DEF LogPart
  <2>6. ASSUME NEW S \in SUBSET Operator, PauseMultisig(S) PROVE EmergencyInv'
    <3>a. Recorded(TRUE, "operators") /\ available' = now
      BY <2>6 DEF PauseMultisig
    <3>b. available' = now
      BY <3>a
    <3>0. available' \in Nat /\ available' >= now
      BY <1>t, <3>b
    <3>1. HistoryPart'
      <4>1. HistoryFacts
        BY <2>0, <3>a, <3>0, RecordKeeps, Zenon
      <4> QED
        BY <2>0, <3>0, <4>1
    <3> QED
      BY <1>a, <1>d, <2>0, <2>5, <2>6, <3>1 DEF PauseMultisig, EmergencyAction
  <2>7. ASSUME NEW S \in SUBSET Operator, UnpauseMultisig(S) PROVE EmergencyInv'
    <3>1. HistoryPart'
      BY <1>0, <2>0, <2>7, RecordKeeps DEF UnpauseMultisig
    <3> QED
      BY <1>a, <1>d, <2>0, <2>5, <2>7, <3>1 DEF UnpauseMultisig, EmergencyAction
  <2>8. ASSUME NEW S \in SUBSET Operator, OverrideMultisig(S) PROVE EmergencyInv'
    BY <1>0, <1>a, <1>c, <1>d, <2>0, <2>5, <2>8 DEF OverrideMultisig, EmergencyAction
  <2> QED
    BY <1>3, <2>1, <2>2, <2>3, <2>4, <2>6, <2>7, <2>8 DEF EmergencyStep
<1> QED
  BY <1>1, <1>2, <1>3 DEF EmergencyNext

LEMMA SoundEmergency == EmergencyInv => QuorumBound /\ TimelockHolds
  BY DEF EmergencyInv, QuorumBound, Numbered, Backed

(* Each logged emergency action was signed, for its own number, by as many *)
(* operators as were needed when it ran.                                   *)
THEOREM QuorumsHold == EmergencySpec => []QuorumBound
  BY EmergencyInvInit, EmergencyInvStep, SoundEmergency, PTL DEF EmergencySpec

(* The administrator alone ends a single-key pause only after the          *)
(* timelock, unless the operators paused in between.                       *)
THEOREM TimelocksHold == EmergencySpec => []TimelockHolds
  BY EmergencyInvInit, EmergencyInvStep, SoundEmergency, PTL DEF EmergencySpec

-----------------------------------------------------------------------------
(* Pauses and their recovery, for any scopes, protocols and guardians.     *)
(* Each stage remembers when it began.                                     *)

TripRow == [scope : Scope \cup {"Global"}, lifted : {"no", "guardians", "staged"}, at : Nat]

CooldownRow ==
  [stage : {"none", "Tripped", "Provisional"}, since : Nat, protocol : Protocol, began : Nat]

\* What a pause and its cooldown satisfy together.
BreakerSound(t, c, time) ==
  /\ t.lifted = "staged" => t.at >= c.began + c.protocol.cooldown + c.protocol.window
  /\ c.stage = "Tripped" => c.since = c.began
  /\ c.stage = "Provisional" => c.since >= c.began + c.protocol.cooldown
  /\ c.since <= time

BreakerInv ==
  /\ now \in Nat /\ BreakerTypeOK
  /\ \A p \in Trips : BreakerSound(trip[p], cooldown[p], now)

LEMMA CapsAreNatural ==
  /\ GuardianThreshold \in Nat
  /\ \A r \in Protocol : r.cap \in Nat /\ r.cooldown \in Nat /\ r.window \in Nat
  BY BreakerAssumption

LEMMA BreakerInvInit == now = 0 /\ BreakerInit => BreakerInv
<1> SUFFICES ASSUME now = 0, BreakerInit PROVE BreakerInv
  OBVIOUS
<1>1. /\ trip = <<>> /\ request = <<>> /\ cooldown = <<>>
      /\ role = [a \in Keeper |-> "none"] /\ protocol \in Protocol
  BY DEF BreakerInit
<1>2. BreakerTypeOK
  <2>1. /\ trip \in Seq(TripRow) /\ request \in Seq(Nat)
        /\ cooldown \in Seq(CooldownRow)
    BY <1>1
  <2>2. role \in [Keeper -> {"none", "standard", "emergency"}]
    BY <1>1
  <2>3. {Len(request), Len(cooldown)} = {Len(trip)}
    BY <1>1
  <2> QED
    BY <1>1, <2>1, <2>2, <2>3 DEF BreakerTypeOK, TripRow, CooldownRow
<1>3. Trips = {}
  BY <1>1 DEF Trips
<1> QED
  BY <1>2, <1>3 DEF BreakerInv

LEMMA BreakerTypes ==
  ASSUME BreakerInv
  PROVE  /\ now \in Nat /\ role \in [Keeper -> {"none", "standard", "emergency"}]
         /\ protocol \in Protocol
         /\ trip \in Seq(TripRow) /\ request \in Seq(Nat)
         /\ cooldown \in Seq(CooldownRow)
         /\ Len(request) = Len(trip) /\ Len(cooldown) = Len(trip)
         /\ Len(trip) \in Nat
         /\ \A p \in Trips : BreakerSound(trip[p], cooldown[p], now)
<1>1. {Len(request), Len(cooldown)} = {Len(trip)}
  BY DEF BreakerInv, BreakerTypeOK
<1>2. Len(request) = Len(trip) /\ Len(cooldown) = Len(trip)
  BY <1>1
<1>3. trip \in Seq(TripRow) /\ cooldown \in Seq(CooldownRow)
  BY DEF BreakerInv, BreakerTypeOK, TripRow, CooldownRow
<1> QED
  BY <1>2, <1>3 DEF BreakerInv, BreakerTypeOK

LEMMA BreakerRows ==
  ASSUME now' \in Nat, role' \in [Keeper -> {"none", "standard", "emergency"}],
         protocol' \in Protocol,
         trip' \in Seq(TripRow), request' \in Seq(Nat),
         cooldown' \in Seq(CooldownRow),
         Len(request') = Len(trip'), Len(cooldown') = Len(trip'),
         \A p \in 1 .. Len(trip') : BreakerSound(trip'[p], cooldown'[p], now')
  PROVE  BreakerInv'
<1>1. ({Len(request), Len(cooldown)} = {Len(trip)})'
  OBVIOUS
<1>2. BreakerTypeOK'
  BY <1>1 DEF BreakerTypeOK, TripRow, CooldownRow
<1> QED
  BY <1>2 DEF BreakerInv, Trips

\* A step about one pause.
LEMMA OnePause ==
  ASSUME BreakerInv, UNCHANGED <<now, role, protocol>>, NEW p \in Trips,
         NEW t \in TripRow, NEW r \in Nat, NEW c \in CooldownRow,
         trip' = [trip EXCEPT ![p] = t],
         request' = [request EXCEPT ![p] = r], cooldown' = [cooldown EXCEPT ![p] = c],
         BreakerSound(t, c, now)
  PROVE  BreakerInv'
<1>0. /\ now \in Nat /\ role \in [Keeper -> {"none", "standard", "emergency"}]
      /\ protocol \in Protocol
      /\ trip \in Seq(TripRow) /\ request \in Seq(Nat)
      /\ cooldown \in Seq(CooldownRow) /\ p \in 1 .. Len(trip)
      /\ Len(request) = Len(trip) /\ Len(cooldown) = Len(trip)
      /\ \A i \in 1 .. Len(trip) : BreakerSound(trip[i], cooldown[i], now)
  BY BreakerTypes DEF Trips
<1>1. /\ trip' \in Seq(TripRow) /\ request' \in Seq(Nat)
      /\ cooldown' \in Seq(CooldownRow) /\ Len(trip') = Len(trip)
      /\ Len(request') = Len(trip') /\ Len(cooldown') = Len(trip')
  BY <1>0
<1>2. ASSUME NEW i \in 1 .. Len(trip')
      PROVE  BreakerSound(trip'[i], cooldown'[i], now')
  <2>1. CASE i = p
    <3>1. trip'[i] = t /\ request'[i] = r /\ cooldown'[i] = c
      BY <1>0, <2>1
    <3> QED
      BY <3>1
  <2>2. CASE i # p
    <3>1. i \in 1 .. Len(trip) /\ trip'[i] = trip[i]
          /\ request'[i] = request[i] /\ cooldown'[i] = cooldown[i]
      BY <1>0, <1>1, <2>2
    <3> QED
      BY <1>0, <3>1
  <2> QED
    BY <2>1, <2>2
<1> QED
  BY <1>0, <1>1, <1>2, BreakerRows

LEMMA PauseRows ==
  ASSUME BreakerInv, NEW p \in Trips
  PROVE  /\ trip[p] \in TripRow /\ request[p] \in Nat
         /\ cooldown[p] \in CooldownRow
         /\ BreakerSound(trip[p], cooldown[p], now)
         /\ trip = [trip EXCEPT ![p] = trip[p]]
         /\ request = [request EXCEPT ![p] = request[p]]
         /\ cooldown = [cooldown EXCEPT ![p] = cooldown[p]]
<1>1. /\ trip \in Seq(TripRow) /\ request \in Seq(Nat)
      /\ cooldown \in Seq(CooldownRow) /\ p \in 1 .. Len(trip)
      /\ Len(request) = Len(trip) /\ Len(cooldown) = Len(trip)
      /\ BreakerSound(trip[p], cooldown[p], now)
  BY BreakerTypes DEF Trips
<1> QED
  BY <1>1

LEMMA PauseKeeps ==
  ASSUME BreakerInv, UNCHANGED now, NEW a \in Keeper, NEW s \in Scope \cup {"Global"}, Pause(a, s)
  PROVE  BreakerInv'
<1> DEFINE t == [scope |-> s, lifted |-> "no", at |-> 0]
           n == Len(trip)
<1>0. /\ now \in Nat /\ role \in [Keeper -> {"none", "standard", "emergency"}]
      /\ protocol \in Protocol
      /\ trip \in Seq(TripRow) /\ request \in Seq(Nat)
      /\ cooldown \in Seq(CooldownRow) /\ n \in Nat
      /\ Len(request) = n /\ Len(cooldown) = n
      /\ \A i \in 1 .. n : BreakerSound(trip[i], cooldown[i], now)
  BY BreakerTypes DEF Trips
<1>1. t \in TripRow /\ NoCooldown \in CooldownRow
  BY <1>0 DEF TripRow, CooldownRow, NoCooldown
<1>2. BreakerSound(t, NoCooldown, now)
  BY <1>0 DEF BreakerSound, NoCooldown
<1>3. /\ trip' = Append(trip, t) /\ request' = Append(request, 0)
      /\ cooldown' = Append(cooldown, NoCooldown) /\ UNCHANGED <<now, role, protocol>>
  BY DEF Pause
<1> HIDE DEF t
<1>4. /\ trip' \in Seq(TripRow) /\ request' \in Seq(Nat)
      /\ cooldown' \in Seq(CooldownRow) /\ Len(trip') = n + 1
      /\ Len(request') = Len(trip') /\ Len(cooldown') = Len(trip')
  BY <1>0, <1>1, <1>3
<1>5. ASSUME NEW i \in 1 .. Len(trip')
      PROVE  BreakerSound(trip'[i], cooldown'[i], now')
  <2>1. CASE i \in 1 .. n
    <3>1. trip'[i] = trip[i] /\ request'[i] = request[i]
          /\ cooldown'[i] = cooldown[i]
      BY <1>0, <1>1, <1>3, <2>1
    <3> QED
      BY <1>0, <1>3, <2>1, <3>1
  <2>2. CASE i = n + 1
    <3>1. trip'[i] = t /\ request'[i] = 0 /\ cooldown'[i] = NoCooldown
      BY <1>0, <1>1, <1>3, <2>2
    <3> QED
      BY <1>2, <1>3, <3>1
  <2> QED
    BY <1>0, <1>4, <2>1, <2>2
<1> QED
  BY <1>0, <1>3, <1>4, <1>5, BreakerRows

\* The stages of a cooldown, and what their lapse lifts.
LEMMA StagesAreSound ==
  ASSUME NEW t \in TripRow, NEW c \in CooldownRow,
         NEW time \in Nat, BreakerSound(t, c, time)
  PROVE  /\ c.stage = "Tripped" /\ time - c.since >= c.protocol.cooldown =>
              BreakerSound(t, [c EXCEPT !.stage = "Provisional", !.since = time], time)
         /\ c.stage = "Provisional" /\ time - c.since >= c.protocol.window =>
              /\ BreakerSound(t, [c EXCEPT !.stage = "none"], time)
              /\ BreakerSound([t EXCEPT !.lifted = "staged", !.at = time],
                              [c EXCEPT !.stage = "none"], time)
<1> DEFINE c1 == [c EXCEPT !.stage = "Provisional", !.since = time]
           c2 == [c EXCEPT !.stage = "none"]
           t2 == [t EXCEPT !.lifted = "staged", !.at = time]
<1>1. /\ c.since \in Nat /\ c.began \in Nat
      /\ c.protocol.cooldown \in Nat /\ c.protocol.window \in Nat
  BY CapsAreNatural DEF CooldownRow
<1>2. /\ c1.stage = "Provisional" /\ c1.since = time /\ c1.began = c.began
      /\ c1.protocol = c.protocol
      /\ c2.stage = "none" /\ c2.since = c.since /\ c2.began = c.began
      /\ c2.protocol = c.protocol
  BY DEF CooldownRow
<1>3. t2.lifted = "staged" /\ t2.at = time
  BY DEF TripRow
<1> HIDE DEF c1, c2, t2
<1>4. c.stage = "Tripped" /\ time - c.since >= c.protocol.cooldown => BreakerSound(t, c1, time)
  BY <1>1, <1>2 DEF BreakerSound
<1>5. c.stage = "Provisional" /\ time - c.since >= c.protocol.window =>
        BreakerSound(t, c2, time) /\ BreakerSound(t2, c2, time)
  BY <1>1, <1>2, <1>3 DEF BreakerSound
<1> QED
  BY <1>4, <1>5 DEF c1, c2, t2

LEMMA BreakerInvStep == BreakerInv /\ [BreakerNext]_<<now, breakerVars>> => BreakerInv'
<1> SUFFICES ASSUME BreakerInv, [BreakerNext]_<<now, breakerVars>> PROVE BreakerInv'
  OBVIOUS
<1>0. /\ now \in Nat /\ role \in [Keeper -> {"none", "standard", "emergency"}]
      /\ protocol \in Protocol
      /\ trip \in Seq(TripRow) /\ request \in Seq(Nat)
      /\ cooldown \in Seq(CooldownRow) /\ Len(trip) \in Nat
      /\ Len(request) = Len(trip) /\ Len(cooldown) = Len(trip)
      /\ \A i \in 1 .. Len(trip) : BreakerSound(trip[i], cooldown[i], now)
  BY BreakerTypes DEF Trips
<1>1. ASSUME UNCHANGED <<trip, request, cooldown>>, now' \in Nat, now' >= now,
             role' \in [Keeper -> {"none", "standard", "emergency"}], protocol' \in Protocol
      PROVE  BreakerInv'
  <2>1. ASSUME NEW i \in 1 .. Len(trip)
        PROVE  BreakerSound(trip[i], cooldown[i], now')
    <3>1. BreakerSound(trip[i], cooldown[i], now)
      BY <1>0
    <3>2. cooldown[i] \in CooldownRow
      BY <1>0
    <3> QED
      <4>1. cooldown[i].since \in Nat /\ cooldown[i].since <= now
        BY <3>1, <3>2 DEF BreakerSound, CooldownRow
      <4>2. cooldown[i].since <= now'
        BY <1>0, <1>1, <4>1
      <4> QED
        BY <3>1, <4>2 DEF BreakerSound
  <2> QED
    BY <1>0, <1>1, <2>1, BreakerRows
<1>2. CASE CloseLedger /\ UNCHANGED breakerVars
  BY <1>0, <1>1, <1>2 DEF CloseLedger, breakerVars
<1>3. CASE UNCHANGED <<now, breakerVars>>
  BY <1>0, <1>1, <1>3 DEF breakerVars
<1>4. CASE BreakerStep /\ UNCHANGED now
  <2>0. UNCHANGED now
    BY <1>4
  <2>r. ASSUME NEW p \in Trips
        PROVE  /\ trip[p] \in TripRow /\ request[p] \in Nat
               /\ cooldown[p] \in CooldownRow
               /\ BreakerSound(trip[p], cooldown[p], now)
    BY PauseRows
  <2>s. ASSUME NEW p \in Trips
        PROVE  /\ trip = [trip EXCEPT ![p] = trip[p]]
               /\ request = [request EXCEPT ![p] = request[p]]
               /\ cooldown = [cooldown EXCEPT ![p] = cooldown[p]]
    BY PauseRows
  <2>1. CASE ManageBreaker
    <3>1. /\ role' \in [Keeper -> {"none", "standard", "emergency"}] /\ protocol' \in Protocol
          /\ UNCHANGED <<trip, request, cooldown>>
      BY <1>0, <2>1 DEF ManageBreaker
    <3> QED
      BY <1>0, <1>1, <2>0, <3>1
  <2>2. ASSUME NEW a \in Keeper, NEW s \in Scope \cup {"Global"}, Pause(a, s) PROVE BreakerInv'
    BY <2>0, <2>2, PauseKeeps
  <2>3. ASSUME NEW a \in Keeper, NEW p \in Trips, Approve(a, p) PROVE BreakerInv'
    <3>1. request[p] + 1 \in Nat
      BY <2>r
    <3>2. /\ request' = [request EXCEPT ![p] = request[p] + 1]
          /\ UNCHANGED <<role, protocol, trip, cooldown>>
      BY <2>3 DEF Approve
    <3> QED
      <4>1. /\ trip' = [trip EXCEPT ![p] = trip[p]]
            /\ cooldown' = [cooldown EXCEPT ![p] = cooldown[p]]
            /\ UNCHANGED <<now, role, protocol>>
        BY <2>0, <2>s, <3>2
      <4> QED
        BY <2>r, <3>1, <3>2, <4>1, OnePause
  <2>4. ASSUME NEW a \in Keeper, NEW p \in Trips, ExecuteRecovery(a, p) PROVE BreakerInv'
    <3> DEFINE t == IF Active(p) THEN [trip[p] EXCEPT !.lifted = "guardians", !.at = now] ELSE trip[p]
    <3>1. t \in TripRow
      BY <1>0, <2>r DEF TripRow
    <3>3. BreakerSound(t, cooldown[p], now)
      BY <2>r DEF BreakerSound, TripRow
    <3>4. trip' = [trip EXCEPT ![p] = t]
      <4>1. CASE Active(p)
        BY <2>4, <4>1 DEF ExecuteRecovery, Lift
      <4>2. CASE ~ Active(p)
        BY <2>4, <4>2, PauseRows DEF ExecuteRecovery
      <4> QED
        BY <4>1, <4>2
    <3>5. request' = [request EXCEPT ![p] = 0] /\ UNCHANGED <<role, protocol, cooldown>>
      BY <2>4 DEF ExecuteRecovery
    <3> HIDE DEF t
    <3> QED
      BY <2>0, <2>r, <3>1, <3>3, <3>4, <3>5, PauseRows, OnePause
  <2>5. ASSUME NEW a \in Keeper, NEW p \in Trips, StartCooldown(a, p) PROVE BreakerInv'
    <3> DEFINE c == [stage |-> "Tripped", since |-> now, protocol |-> protocol, began |-> now]
    <3>1. c \in CooldownRow
      BY <1>0 DEF CooldownRow
    <3>2. trip[p].lifted = "no"
      BY <2>5 DEF StartCooldown, Active
    <3>3. BreakerSound(trip[p], c, now)
      BY <1>0, <2>r, <3>2 DEF BreakerSound
    <3>4. cooldown' = [cooldown EXCEPT ![p] = c] /\ UNCHANGED <<role, protocol, trip, request>>
      BY <2>5 DEF StartCooldown
    <3> HIDE DEF c
    <3> QED
      <4>1. /\ trip' = [trip EXCEPT ![p] = trip[p]]
            /\ request' = [request EXCEPT ![p] = request[p]]
            /\ UNCHANGED <<now, role, protocol>>
        BY <2>0, <2>s, <3>4
      <4>2. trip[p] \in TripRow /\ request[p] \in Nat
        BY <2>r
      <4> QED
        BY <3>1, <3>3, <3>4, <4>1, <4>2, OnePause
  <2>6. ASSUME NEW p \in Trips, Provisional(p) PROVE BreakerInv'
    <3> DEFINE c == [cooldown[p] EXCEPT !.stage = "Provisional", !.since = now]
    <3>1. c \in CooldownRow
      BY <1>0, <2>r DEF CooldownRow
    <3>2. cooldown[p].stage = "Tripped" /\ now - cooldown[p].since >= cooldown[p].protocol.cooldown
      BY <2>6 DEF Provisional
    <3>3. BreakerSound(trip[p], c, now)
      BY <1>0, <2>r, <3>2, StagesAreSound
    <3>4. cooldown' = [cooldown EXCEPT ![p] = c] /\ UNCHANGED <<role, protocol, trip, request>>
      BY <2>6 DEF Provisional
    <3> HIDE DEF c
    <3> QED
      <4>1. /\ trip' = [trip EXCEPT ![p] = trip[p]]
            /\ request' = [request EXCEPT ![p] = request[p]]
            /\ UNCHANGED <<now, role, protocol>>
        BY <2>0, <2>s, <3>4
      <4>2. trip[p] \in TripRow /\ request[p] \in Nat
        BY <2>r
      <4> QED
        BY <3>1, <3>3, <3>4, <4>1, <4>2, OnePause
  <2>7. ASSUME NEW p \in Trips, Restore(p) PROVE BreakerInv'
    <3> DEFINE t == IF Active(p) THEN [trip[p] EXCEPT !.lifted = "staged", !.at = now] ELSE trip[p]
               c == [cooldown[p] EXCEPT !.stage = "none"]
    <3>1. t \in TripRow /\ c \in CooldownRow
      BY <1>0, <2>r DEF TripRow, CooldownRow
    <3>2. cooldown[p].stage = "Provisional" /\ now - cooldown[p].since >= cooldown[p].protocol.window
      BY <2>7 DEF Restore
    <3>3. BreakerSound(t, c, now)
      BY <1>0, <2>r, <3>2, StagesAreSound
    <3>4. trip' = [trip EXCEPT ![p] = t]
      <4>1. CASE Active(p)
        BY <2>7, <4>1 DEF Restore, Lift
      <4>2. CASE ~ Active(p)
        BY <2>7, <4>2, PauseRows DEF Restore
      <4> QED
        BY <4>1, <4>2
    <3>5. cooldown' = [cooldown EXCEPT ![p] = c] /\ UNCHANGED <<role, protocol, request>>
      BY <2>7 DEF Restore
    <3> HIDE DEF t, c
    <3>6.
          /\ request' = [request EXCEPT ![p] = request[p]]
          /\ UNCHANGED <<now, role, protocol>>
      BY <2>0, <2>s, <3>5
    <3> QED
      BY <2>r, <3>1, <3>3, <3>4, <3>5, <3>6, OnePause
  <2> QED
    BY <1>4, <2>1, <2>2, <2>3, <2>4, <2>5, <2>6, <2>7
       DEF BreakerStep, RequestRecovery, ApproveRecovery
<1> QED
  BY <1>2, <1>3, <1>4 DEF BreakerNext

\* The volume cap is the least of the caps it is taken over.
LEMMA CapIsLeast ==
  ASSUME NEW S, S \subseteq Nat, NEW x \in S
  PROVE  Min(S) <= x
<1>1. PICK n \in S : \A k \in S : n <= k
  BY LeastNatural
<1> QED
  BY <1>1 DEF Min

LEMMA SoundBreaker == BreakerInv => StagedRecovery
<1> SUFFICES ASSUME BreakerInv PROVE StagedRecovery
  OBVIOUS
<1>1. ASSUME NEW p \in Trips
      PROVE  /\ trip[p] \in TripRow /\ cooldown[p] \in CooldownRow
             /\ cooldown[p].protocol.cap \in Nat /\ cooldown[p].protocol.cooldown \in Nat
             /\ BreakerSound(trip[p], cooldown[p], now)
  BY PauseRows, CapsAreNatural DEF CooldownRow
<1>2. now \in Nat
  BY BreakerTypes
<1>3. ASSUME NEW s \in Scope, VolumeCap(s) > 0, NEW p \in Trips, Active(p), Covers(p, s)
      PROVE  /\ now >= cooldown[p].began + cooldown[p].protocol.cooldown
             /\ VolumeCap(s) <= cooldown[p].protocol.cap
  <2> DEFINE on == {q \in Trips : Active(q) /\ Covers(q, s)}
             caps == {10000} \cup {cooldown[q].protocol.cap : q \in on}
  <2>1. p \in on
    BY <1>3
  <2>2. VolumeCap(s) = IF \E q \in on : cooldown[q].stage # "Provisional" THEN 0 ELSE Min(caps)
    BY DEF VolumeCap
  <2>3. caps \subseteq Nat /\ cooldown[p].protocol.cap \in caps
    BY <1>1, <2>1
  <2> HIDE DEF on, caps
  <2>4. cooldown[p].stage = "Provisional" /\ VolumeCap(s) = Min(caps)
    BY <1>3, <2>1, <2>2
  <2>5. VolumeCap(s) <= cooldown[p].protocol.cap
    BY <2>3, <2>4, CapIsLeast
  <2>6. now >= cooldown[p].began + cooldown[p].protocol.cooldown
    BY <1>1, <1>2, <2>4 DEF BreakerSound, CooldownRow
  <2> QED
    BY <2>5, <2>6
<1>4. ASSUME NEW p \in Trips
      PROVE  trip[p].lifted = "staged" => trip[p].at >= cooldown[p].began
               + cooldown[p].protocol.cooldown + cooldown[p].protocol.window
  BY <1>1 DEF BreakerSound
<1> QED
  BY <1>3, <1>4 DEF StagedRecovery

(* The staged recovery lifts a pause only after its whole cooldown and its *)
(* whole window; until then nothing passes, or no more than the caps of    *)
(* what still recovers.                                                    *)
THEOREM RecoveryIsStaged == BreakerSpec => []StagedRecovery
  BY BreakerInvInit, BreakerInvStep, SoundBreaker, PTL DEF BreakerSpec
=============================================================================
