-------------------------- MODULE MultisigTreasury --------------------------
(***************************************************************************)
(* The treasury, contracts/soroban/src/multisig_treasury.rs: signers       *)
(* approve transactions, which wait for a delay and then for execution.    *)
(*                                                                         *)
(* The contract moves no funds: to execute is to store a status.  The      *)
(* administrator and the creator of a transaction are parties that call    *)
(* whenever the code lets them.  Destination and description are never     *)
(* read.                                                                   *)
(***************************************************************************)
EXTENDS SorobanHost

CONSTANTS
  Emergency,       \* emergency_threshold; without require_emergency_approval
                   \* an emergency is an ordinary proposal
  MaxThreshold,    \* bound: thresholds of a configuration
  Delay,           \* time_delay of large transactions
  MaxTransactions  \* max_transactions_per_day

ASSUME TreasuryAssumption ==
  /\ Emergency \in Nat /\ MaxThreshold \in Nat
  /\ Delay \in Nat /\ MaxTransactions \in Nat

VARIABLES
  signer,      \* Signer(address)
  signerCount, \* SignerCount
  threshold,   \* Config.threshold
  whitelisted, \* WhitelistedAsset of the one asset
  nonce,       \* Nonce, which TransactionCount always equals
  transaction  \* Transaction(id)

treasuryVars == <<signer, signerCount, threshold, whitelisted, nonce, transaction>>

Transactions == 1 .. Len(transaction)

TransactionStatus == {"Pending", "Approved", "Executed", "Cancelled"}

\* A list of initial signers may name one twice: SignerCount is its length.
Configuration(S, count, limit) ==
  count \in {Cardinality(S), Cardinality(S) + 1} /\ limit <= count

TreasuryInit ==
  /\ signer \in SUBSET Account /\ signerCount \in 0 .. Cardinality(Account) + 1
  /\ threshold \in 0 .. MaxThreshold
  /\ Configuration(signer, signerCount, threshold)
  /\ whitelisted = FALSE
  /\ nonce = 0 /\ transaction = <<>>

\* initialize once more: signers are added, and numbering starts again over
\* transactions that are still stored.
Initialize(S, count, limit) ==
  /\ Configuration(S, count, limit)
  /\ signer' = signer \cup S /\ signerCount' = count
  /\ threshold' = limit /\ nonce' = 0
  /\ UNCHANGED <<whitelisted, transaction>>

\* BUG: the approval comes one signature early.
Signed_OffByOne(t, who) ==
  [t EXCEPT !.by = @ \cup {who},
            !.status = IF Cardinality(t.by) + 2 >= t.required THEN "Approved" ELSE @]

\* sign_transaction_internal: any status is signed, and a full set of
\* signatures approves.
Signed(t, who) ==
  [t EXCEPT !.by = @ \cup {who},
            !.status = IF Cardinality(t.by \cup {who}) >= t.required THEN "Approved" ELSE @]

\* The creator signs at once.  The number of signatures is fixed here, and so
\* is the time of execution.  The daily limit is never reset.
ProposeTransaction(creator, emergency, large) ==
  LET new == [by |-> {}, status |-> "Pending",
              required |-> IF emergency THEN Emergency ELSE threshold,
              due |-> now + IF large THEN Delay ELSE 0] IN
  /\ creator \in signer
  /\ nonce < MaxTransactions
  /\ nonce' = nonce + 1
  /\ transaction' = [t \in Transactions \cup {nonce'} |->
        IF t = nonce' THEN Signed(new, creator) ELSE transaction[t]]
  /\ UNCHANGED <<signer, signerCount, threshold, whitelisted>>

SignTransaction(t, who) ==
  /\ who \in signer \ transaction[t].by
  /\ transaction' = [transaction EXCEPT ![t] = Signed(@, who)]
  /\ UNCHANGED <<signer, signerCount, threshold, whitelisted, nonce>>

Due(t) == /\ Cardinality(transaction[t].by) >= transaction[t].required
          /\ now >= transaction[t].due
          /\ whitelisted

\* execute_transaction, by anyone, and cancel_transaction, by the creator or
\* the administrator: both want a transaction that is still Pending.
CloseTransaction(t, outcome) ==
  /\ transaction[t].status = "Pending"
  /\ outcome = "Executed" => Due(t)
  /\ transaction' = [transaction EXCEPT ![t].status = outcome]
  /\ UNCHANGED <<signer, signerCount, threshold, whitelisted, nonce>>

AddSigner(who) ==
  /\ who \notin signer
  /\ signer' = signer \cup {who} /\ signerCount' = signerCount + 1
  /\ UNCHANGED <<threshold, whitelisted, nonce, transaction>>

\* Signatures given before the removal stay.
RemoveSigner(who) ==
  /\ who \in signer
  /\ signerCount - 1 >= threshold
  /\ signer' = signer \ {who} /\ signerCount' = signerCount - 1
  /\ UNCHANGED <<threshold, whitelisted, nonce, transaction>>

\* whitelist_asset and remove_whitelisted_asset.
WhitelistAsset ==
  /\ whitelisted' = ~ whitelisted
  /\ UNCHANGED <<signer, signerCount, threshold, nonce, transaction>>

UpdateThreshold(new) ==
  /\ 0 < new /\ new <= signerCount
  /\ threshold' = new
  /\ UNCHANGED <<signer, signerCount, whitelisted, nonce, transaction>>

TreasuryStep ==
  \/ \E S \in SUBSET Account, c \in 0 .. Cardinality(Account) + 1, n \in 0 .. MaxThreshold :
        Initialize(S, c, n)
  \/ \E a \in Account, emergency, large \in BOOLEAN : ProposeTransaction(a, emergency, large)
  \/ \E t \in Transactions : \/ \E a \in Account : SignTransaction(t, a)
                             \/ \E o \in {"Executed", "Cancelled"} : CloseTransaction(t, o)
  \/ \E a \in Account : AddSigner(a) \/ RemoveSigner(a)
  \/ WhitelistAsset
  \/ \E n \in 1 .. MaxThreshold : UpdateThreshold(n)

TreasuryNext == \/ TreasuryStep /\ UNCHANGED now
                \/ CloseLedger /\ UNCHANGED treasuryVars

TreasurySpec == now = 0 /\ TreasuryInit /\ [][TreasuryNext]_<<now, treasuryVars>>

-----------------------------------------------------------------------------
(* Properties.                                                             *)

TreasuryTypeOK ==
  /\ signer \subseteq Account /\ signerCount \in Nat
  /\ threshold \in Nat /\ whitelisted \in BOOLEAN
  /\ nonce \in 0 .. Len(transaction)
  /\ transaction \in Seq([by : SUBSET Account, required : Nat, due : Nat,
                          status : TransactionStatus])

\* Approval rests on as many different signers as the configuration asked for
\* when the transaction was proposed, whoever was added or removed since, and
\* the threshold never outgrows SignerCount.
ApprovalHasQuorum ==
  /\ \A t \in Transactions : transaction[t].status = "Approved" =>
        Cardinality(transaction[t].by) >= transaction[t].required
  /\ threshold <= signerCount

\* What the statuses and execute_transaction are there for: a transaction with
\* enough signatures, of a whitelisted asset and past its delay, can be executed.
ApprovedIsExecutable ==
  \A t \in Transactions :
    transaction[t].status = "Approved" /\ Due(t) => ENABLED CloseTransaction(t, "Executed")
=============================================================================
