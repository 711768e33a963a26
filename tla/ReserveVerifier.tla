--------------------------- MODULE ReserveVerifier ---------------------------
(***************************************************************************)
(* One bridge of contracts/soroban/src/bridge_reserve_verifier.rs: its     *)
(* operator commits to reserves, commitments can be challenged for a       *)
(* period, and an administrator decides challenges and slashes the stake.  *)
(*                                                                         *)
(* A Merkle proof is valid or not; a challenge takes any invalid one, so   *)
(* anybody can make it.  `now' is the ledger sequence.                     *)
(***************************************************************************)
EXTENDS SorobanHost

CONSTANTS
  Terms,           \* configurations an administrator may set
  Stake,           \* initial stakes
  MaxCommitments   \* bound: commitments ever made

ASSUME VerifierAssumption ==
  /\ \A t \in Terms : {t.period, t.slash, t.minStake} \subseteq Nat
  /\ Stake \subseteq Nat /\ MaxCommitments \in Nat

VARIABLES
  terms,       \* Config
  operator,    \* BridgeOperator of the bridge
  commitment   \* ReserveCommitment(bridge, sequence)

verifierVars == <<terms, operator, commitment>>

Commitments == 1 .. Len(commitment)

VerifierInit ==
  /\ terms \in Terms
  /\ operator = [known |-> FALSE, active |-> FALSE, stake |-> 0, slashes |-> 0]
  /\ commitment = <<>>

UpdateTerms == terms' \in Terms /\ UNCHANGED <<operator, commitment>>

RegisterBridge(stake) ==
  /\ ~ operator.known /\ stake >= terms.minStake
  /\ operator' = [known |-> TRUE, active |-> TRUE, stake |-> stake, slashes |-> 0]
  /\ UNCHANGED <<terms, commitment>>

CommitReserves ==
  /\ operator.active
  /\ Len(commitment) < MaxCommitments
  /\ commitment' = Append(commitment, [ledger |-> now, status |-> "PendingVerification"])
  /\ UNCHANGED <<terms, operator>>

\* A pending commitment whose challenge period, as configured now, is over.
Confirmable(c) == /\ commitment[c].status = "PendingVerification"
                  /\ now > commitment[c].ledger + terms.period

\* confirm_commitment and a valid proof in verify_proof confirm one commitment,
\* sweep_expired_commitments the first max_count.
Confirm(S) ==
  /\ S # {} /\ S \subseteq {c \in Commitments : Confirmable(c)}
  /\ Cardinality(S) > 1 => \A c \in S : \A d \in 1 .. c : Confirmable(d) => d \in S
  /\ commitment' = [c \in Commitments |->
        IF c \in S THEN [commitment[c] EXCEPT !.status = "Verified"] ELSE commitment[c]]
  /\ UNCHANGED <<terms, operator>>

ChallengeCommitment(c) ==
  /\ commitment[c].status = "PendingVerification" /\ ~ Confirmable(c)
  /\ commitment' = [commitment EXCEPT ![c].status = "Challenged"]
  /\ operator' = [operator EXCEPT !.active = FALSE]
  /\ UNCHANGED terms

\* BUG: a slash that leaves the minimum activates the operator.
Slashed_Reactivates ==
  LET left == IF operator.stake >= terms.slash THEN operator.stake - terms.slash ELSE 0 IN
  [operator EXCEPT !.stake = left, !.slashes = @ + 1, !.active = left >= terms.minStake]

\* slash_operator_internal.
Slashed == LET left == IF operator.stake >= terms.slash THEN operator.stake - terms.slash ELSE 0 IN
  [operator EXCEPT !.stake = left, !.slashes = @ + 1,
                   !.active = @ /\ left >= terms.minStake]

\* Nothing makes a suspended operator active again, a valid commitment neither.
ResolveDispute(c, valid) ==
  /\ commitment[c].status = "Challenged"
  /\ commitment' = [commitment EXCEPT ![c].status = IF valid THEN "Resolved" ELSE "Slashed"]
  /\ operator' = IF valid THEN operator ELSE Slashed
  /\ UNCHANGED terms

SlashOperator ==
  /\ operator.known /\ operator.slashes <= MaxCommitments \* bound
  /\ operator' = Slashed
  /\ UNCHANGED <<terms, commitment>>

VerifierStep ==
  \/ UpdateTerms \/ CommitReserves \/ SlashOperator
  \/ \E n \in Stake : RegisterBridge(n)
  \/ \E S \in SUBSET Commitments : Confirm(S)
  \/ \E c \in Commitments : \/ ChallengeCommitment(c)
                            \/ \E valid \in BOOLEAN : ResolveDispute(c, valid)

VerifierNext == \/ VerifierStep /\ UNCHANGED now
                \/ CloseLedger /\ UNCHANGED verifierVars

VerifierSpec == now = 0 /\ VerifierInit /\ [][VerifierNext]_<<now, verifierVars>>

-----------------------------------------------------------------------------
(* Properties.                                                             *)

VerifierTypeOK ==
  /\ terms \in Terms
  /\ operator \in [known : BOOLEAN, active : BOOLEAN, stake : Nat, slashes : Nat]
  /\ commitment \in Seq([ledger : Nat,
       status : {"PendingVerification", "Verified", "Challenged", "Slashed", "Resolved"}])

\* A challenge is final for the operator: whatever the administrator decides
\* and however stakes and terms change, a bridge one of whose commitments was
\* ever challenged has no active operator and can commit nothing more, and
\* each commitment found wrong has cost a slash.
ChallengeIsFinal ==
  /\ operator.active =>
       \A c \in Commitments : commitment[c].status \in {"PendingVerification", "Verified"}
  /\ Cardinality({c \in Commitments : commitment[c].status = "Slashed"}) <= operator.slashes
=============================================================================
