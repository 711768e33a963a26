----------------------------- MODULE Governance -----------------------------
(***************************************************************************)
(* On-chain governance, contracts/soroban/src/governance.rs: delegated     *)
(* voting power, the proposal lifecycle with its timelock, and the         *)
(* guardians' shortcut for emergency pauses.                               *)
(*                                                                         *)
(* The administrator and whoever activates, finalizes, queues or executes  *)
(* call whenever the code lets them; accounts keep their identity as       *)
(* voters, delegates and guardians.  Title, target and calldata are never  *)
(* read, ParameterChange and OperatorApproval never told apart.            *)
(***************************************************************************)
EXTENDS SorobanHost, Collections

CONSTANTS
  Power,         \* voting powers an administrator may register
  Rules,         \* configurations an administrator may set
  Watcher,       \* accounts that may be made guardians
  MaxProposals   \* bound: proposals ever created

ASSUME GovernanceAssumption ==
  /\ IsFiniteSet(Account)
  /\ Power \subseteq Nat /\ Watcher \subseteq Account /\ MaxProposals \in Nat
  /\ \A r \in Rules : /\ r.quorum \in Nat /\ r.quorum <= 10000
                      /\ r.pass \in Nat \ {0} /\ r.pass <= 10000
                      /\ {r.delay, r.period, r.timelock, r.deposit, r.guardians} \subseteq Nat
                      /\ r.quadratic \in BOOLEAN

VARIABLES
  rules,     \* Config
  power,     \* VotingPower(address)
  supply,    \* TotalSupply
  delegate,  \* Delegation(address), the account itself when there is none
  received,  \* DelegatedPower(address)
  guardian,  \* Guardian(address)
  approval,  \* GuardianApproval(proposal, address)
  proposal,  \* Proposal(id), numbered from 1 here
  ballot,    \* VoteRecord(proposal, address), as choice and votes; votes 0 before
  shifted    \* history: power was registered for an account that had delegated

governanceVars ==
  <<rules, power, supply, delegate, received, guardian, approval, proposal, ballot, shifted>>

Proposals == 1 .. Len(proposal)

ProposalStatus == {"Pending", "Active", "Passed", "Failed", "Queued", "Executed", "Cancelled"}

Choice == {"For", "Against", "Abstain"}

\* The integer square root of quadratic voting.
Isqrt(n) == CHOOSE r \in 0 .. n : r * r <= n /\ n < (r + 1) * (r + 1)

EffectivePower(v) == received[v] + IF delegate[v] = v THEN power[v] ELSE 0

GovernanceInit ==
  /\ rules \in Rules
  /\ power = [a \in Account |-> 0] /\ supply = 0
  /\ delegate = [a \in Account |-> a] /\ received = [a \in Account |-> 0]
  /\ guardian = {} /\ approval = [p \in 1 .. MaxProposals |-> {}]
  /\ proposal = <<>> /\ ballot = <<>>
  /\ shifted = FALSE

\* What delegated votes stand for is not adjusted.
SetVotingPower(v, p) ==
  /\ supply' = supply - power[v] + p
  /\ power' = [power EXCEPT ![v] = p]
  /\ shifted' = (shifted \/ delegate[v] # v)
  /\ UNCHANGED <<rules, delegate, received, guardian, approval, proposal, ballot>>

\* add_guardian, remove_guardian, update_config.
Administer ==
  /\ \/ \E g \in Watcher : guardian' \in {guardian \cup {g}, guardian \ {g}} /\ UNCHANGED rules
     \/ rules' \in Rules /\ UNCHANGED guardian
  /\ UNCHANGED <<power, supply, delegate, received, approval, proposal, ballot, shifted>>

\* BUG: a new delegation forgets the one before.
Reclaimed_Never(v) == received

\* remove_delegation_internal: the delegator's power of today is taken back.
Reclaimed(v) ==
  IF delegate[v] = v THEN received
  ELSE [received EXCEPT ![delegate[v]] = IF @ > power[v] THEN @ - power[v] ELSE 0]

\* delegate_votes; undelegate_votes is a delegation to oneself.
DelegateVotes(v, to) ==
  LET left == Reclaimed(v) IN
  /\ delegate' = [delegate EXCEPT ![v] = to]
  /\ received' = IF to = v THEN left ELSE [left EXCEPT ![to] = @ + power[v]]
  /\ UNCHANGED <<rules, power, supply, guardian, approval, proposal, ballot, shifted>>

CreateProposal(proposer, emergency) ==
  /\ Len(proposal) < MaxProposals
  /\ EffectivePower(proposer) >= rules.deposit
  /\ proposal' = Append(proposal,
       [emergency |-> emergency, status |-> "Pending", votes |-> [c \in Choice |-> 0],
        start |-> now + rules.delay, end |-> now + rules.delay + rules.period,
        after |-> 0, executed |-> 0])
  /\ ballot' = Append(ballot, [a \in Account |-> [choice |-> "Abstain", votes |-> 0]])
  /\ UNCHANGED <<rules, power, supply, delegate, received, guardian, approval, shifted>>

\* A step of proposal p alone, from one of the given states.
Becomes(p, from, new) ==
  /\ proposal[p].status \in from
  /\ proposal' = [proposal EXCEPT ![p] = new]
  /\ UNCHANGED <<rules, power, supply, delegate, received, guardian, approval, ballot, shifted>>

ActivateProposal(p) ==
  /\ now >= proposal[p].start
  /\ Becomes(p, {"Pending"}, [proposal[p] EXCEPT !.status = "Active"])

\* One vote in the window; quadratic votes of a positive power are positive.
CastVote(v, p, choice) ==
  LET votes == IF rules.quadratic THEN Isqrt(EffectivePower(v)) ELSE EffectivePower(v) IN
  /\ proposal[p].status = "Active"
  /\ now \in proposal[p].start .. proposal[p].end
  /\ ballot[p][v].votes = 0 /\ votes > 0
  /\ ballot' = [ballot EXCEPT ![p][v] = [choice |-> choice, votes |-> votes]]
  /\ proposal' = [proposal EXCEPT ![p].votes[choice] = @ + votes]
  /\ UNCHANGED <<rules, power, supply, delegate, received, guardian, approval, shifted>>

QuorumMet(p) ==
  supply > 0 /\ (Total(proposal[p].votes, Choice) * 10000) \div supply >= rules.quorum

\* BUG: an unopposed proposal passes, abstentions alone included.
ThresholdMet_Unopposed(votes, bps) ==
  \/ votes["Against"] = 0
  \/ (votes["For"] * 10000) \div (votes["For"] + votes["Against"]) >= bps

ThresholdMet(votes, bps) ==
  /\ votes["For"] + votes["Against"] > 0
  /\ (votes["For"] * 10000) \div (votes["For"] + votes["Against"]) >= bps

FinalizeProposal(p) ==
  /\ now > proposal[p].end
  /\ Becomes(p, {"Active"},
       [proposal[p] EXCEPT !.status =
          IF QuorumMet(p) /\ ThresholdMet(proposal[p].votes, rules.pass)
          THEN "Passed" ELSE "Failed"])

QueueProposal(p) ==
  Becomes(p, {"Passed"}, [proposal[p] EXCEPT !.status = "Queued", !.after = now + rules.timelock])

Executed(p) == [proposal[p] EXCEPT !.status = "Executed", !.executed = now]

ExecuteProposal(p) == now >= proposal[p].after /\ Becomes(p, {"Queued"}, Executed(p))

\* An approval may come before the proposal, and outlives the guardian's role.
GuardianApprove(g, p) ==
  /\ g \in guardian \ approval[p]
  /\ approval' = [approval EXCEPT ![p] = @ \cup {g}]
  /\ UNCHANGED <<rules, power, supply, delegate, received, guardian, proposal, ballot, shifted>>

\* GuardianApprovalCount is the number of GuardianApproval entries.
GuardianExecute(p) ==
  /\ guardian # {}
  /\ Cardinality(approval[p]) >= rules.guardians
  /\ proposal[p].emergency
  /\ Becomes(p, {"Active", "Passed", "Queued"}, Executed(p))

CancelProposal(p) ==
  Becomes(p, {"Pending", "Active", "Passed", "Queued"}, [proposal[p] EXCEPT !.status = "Cancelled"])

GovernanceStep ==
  \/ \E v \in Account, n \in Power : SetVotingPower(v, n)
  \/ Administer
  \/ \E v, to \in Account : DelegateVotes(v, to)
  \/ \E v \in Account, emergency \in BOOLEAN : CreateProposal(v, emergency)
  \/ \E p \in Proposals : \/ ActivateProposal(p) \/ FinalizeProposal(p) \/ QueueProposal(p)
                          \/ ExecuteProposal(p) \/ GuardianExecute(p) \/ CancelProposal(p)
                          \/ \E v \in Account, c \in Choice : CastVote(v, p, c)
  \/ \E g \in Watcher, p \in 1 .. MaxProposals : GuardianApprove(g, p)

GovernanceNext == \/ GovernanceStep /\ UNCHANGED now
                  \/ CloseLedger /\ UNCHANGED governanceVars

GovernanceSpec == now = 0 /\ GovernanceInit /\ [][GovernanceNext]_<<now, governanceVars>>

-----------------------------------------------------------------------------
(* Properties.                                                             *)

GovernanceTypeOK ==
  /\ rules \in Rules /\ power \in [Account -> Nat] /\ supply \in Nat
  /\ delegate \in [Account -> Account] /\ received \in [Account -> Nat]
  /\ guardian \subseteq Watcher /\ approval \in [1 .. MaxProposals -> SUBSET Watcher]
  /\ proposal \in Seq([emergency : BOOLEAN, status : ProposalStatus, votes : [Choice -> Nat],
                       start : Nat, end : Nat, after : Nat, executed : Nat])
  /\ ballot \in Seq([Account -> [choice : Choice, votes : Nat]])
  /\ Len(ballot) = Len(proposal) /\ shifted \in BOOLEAN

\* Delegating back and forth, in chains and circles, neither creates nor loses
\* voting power: what all accounts can vote with is the registered supply, as
\* long as nobody's power was registered anew while it was delegated.
PowerConserved ==
  /\ supply = Total(power, Account)
  /\ ~ shifted =>
       /\ \A a \in Account : received[a] = Total(power, {v \in Account \ {a} : delegate[v] = a})
       /\ Total([a \in Account |-> EffectivePower(a)], Account) = supply

\* Tallies are what the ballots say, and whatever is not an emergency is
\* executed only after the vote ended with enough votes in favour and, after
\* that, its timelock; an emergency not before its vote began.
VoteDecides ==
  \A p \in Proposals :
    /\ \A c \in Choice : proposal[p].votes[c] =
         Total([v \in Account |-> ballot[p][v].votes], {v \in Account : ballot[p][v].choice = c})
    /\ proposal[p].status = "Executed" =>
         IF proposal[p].emergency
         THEN proposal[p].executed >= proposal[p].start
         ELSE /\ proposal[p].end < proposal[p].after
              /\ proposal[p].after <= proposal[p].executed
              /\ proposal[p].votes["For"] > 0
              /\ \E r \in Rules : ThresholdMet(proposal[p].votes, r.pass)
=============================================================================
