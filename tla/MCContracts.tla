----------------------------- MODULE MCContracts -----------------------------
(***************************************************************************)
(* Small instances of the governance and treasury contracts for TLC.  The  *)
(* contracts share the ledger's clock and no storage, so a behaviour       *)
(* exercises one of them, `subject', and leaves the others as deployed.    *)
(***************************************************************************)
EXTENDS EscrowContract, MultisigTreasury, EmergencyControl, Governance,
        InsurancePool, CircuitBreaker, ReserveVerifier

CONSTANTS anna, bert

VARIABLE subject

MCBoard == {[who |-> {anna, bert}, threshold |-> 2], [who |-> {bert}, threshold |-> 1]}

MCRules ==
  {[quorum |-> 5000, pass |-> 6000, delay |-> 0, period |-> 0, timelock |-> 1,
    deposit |-> 1, guardians |-> 1, quadratic |-> FALSE],
   [quorum |-> 0, pass |-> 1, delay |-> 1, period |-> 0, timelock |-> 0,
    deposit |-> 1, guardians |-> 0, quadratic |-> TRUE]}

MCCaps == {[claim |-> 2500, drain |-> 5000, secs |-> 1],
           [claim |-> 2500, drain |-> 2500, secs |-> 2]}

MCProtocol == {[cooldown |-> 1, window |-> 1, cap |-> 1000],
               [cooldown |-> 0, window |-> 2, cap |-> 2000]}

MCTerms == {[period |-> 1, slash |-> 2, minStake |-> 2],
            [period |-> 0, slash |-> 1, minStake |-> 0]}

\* The configurations a contract may start with are tried where it is the
\* subject.
Deployed(name, first) == subject = name \/ first

MCInit ==
  /\ now = 0
  /\ subject \in {"escrow", "treasury", "emergency", "governance", "insurance", "breaker",
                  "verifier"}
  /\ EscrowInit     /\ Deployed("escrow", feeBps = 0 /\ board.threshold = 2)
  /\ TreasuryInit   /\ Deployed("treasury", signer = {} /\ signerCount = 0)
  /\ EmergencyInit
  /\ GovernanceInit /\ Deployed("governance", rules.quadratic)
  /\ InsuranceInit  /\ Deployed("insurance", caps.secs = 1)
  /\ BreakerInit    /\ Deployed("breaker", protocol.cooldown = 0)
  /\ VerifierInit   /\ Deployed("verifier", terms.period = 0)

Untouched(name, vars) == subject # name => UNCHANGED vars

MCNext ==
  /\ \/ subject = "escrow"     /\ EscrowNext
     \/ subject = "treasury"   /\ TreasuryNext
     \/ subject = "emergency"  /\ EmergencyNext
     \/ subject = "governance" /\ GovernanceNext
     \/ subject = "insurance"  /\ InsuranceNext
     \/ subject = "breaker"    /\ BreakerNext
     \/ subject = "verifier"   /\ VerifierNext
  /\ Untouched("escrow", escrowVars)         /\ Untouched("treasury", treasuryVars)
  /\ Untouched("emergency", emergencyVars)   /\ Untouched("governance", governanceVars)
  /\ Untouched("insurance", insuranceVars)   /\ Untouched("breaker", breakerVars)
  /\ Untouched("verifier", verifierVars)     /\ UNCHANGED subject

MCSpec ==
  MCInit /\ [][MCNext]_<<now, subject, escrowVars, treasuryVars, emergencyVars, governanceVars,
                         insuranceVars, breakerVars, verifierVars>>

\* Every contract's storage keeps its types.
ContractsTypeOK ==
  /\ EscrowTypeOK /\ TreasuryTypeOK /\ EmergencyTypeOK /\ GovernanceTypeOK
  /\ InsuranceTypeOK /\ BreakerTypeOK /\ VerifierTypeOK
=============================================================================
