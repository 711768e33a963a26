---------------------------- MODULE AdminRotation ----------------------------
(***************************************************************************)
(* Administrator accounts and the proposals to change them,                *)
(* backend/src/services/adminRotation.service.ts, reached from its routes. *)
(* No operation runs in a transaction: each reads, checks and writes by id *)
(* later, so calls interleave and die between the two.  Roles and the      *)
(* events logged decide nothing here.                                      *)
(***************************************************************************)
EXTENDS Integers, Sequences, FiniteSets, Functions

CONSTANTS
  Admin,          \* addresses
  NoAdmin,        \* none of them
  MinimumAdmins,  \* MINIMUM_ADMIN_COUNT
  Required,       \* requiredApprovals a proposal may ask for
  RotationCall    \* bound: operations under way at a time

ASSUME RotationAssumption ==
  /\ NoAdmin \notin Admin /\ MinimumAdmins \in Nat /\ Required \subseteq Nat
  /\ IsFiniteSet(RotationCall)

VARIABLES
  known,      \* addresses with a row in admin_accounts
  active,     \* those with is_active
  proposal,   \* a row of admin_rotation_proposals; late: expires_at is past
  rotation,   \* operations under way: the next statement, its address, the approvals read
  approvers,  \* history: who proposed or approved
  enacted     \* history: the proposal changed an account

rotationVars == <<known, active, proposal, rotation, approvers, enacted>>

ProposalType == {"add_admin", "remove_admin", "change_roles"}

Resting == [step |-> "idle", who |-> NoAdmin, approvals |-> <<>>, executes |-> FALSE]

RotationInit ==
  /\ known = {} /\ active = {} /\ approvers = {} /\ enacted = FALSE
  /\ proposal = [type |-> "change_roles", target |-> NoAdmin, status |-> "absent", approvals |-> <<>>,
                 required |-> 0, late |-> FALSE]
  /\ rotation = [c \in RotationCall |-> Resting]

\* A call of an address' operation, alone or on behalf of executeProposal.
Begins(c, step, who, executes) ==
  /\ rotation[c] = Resting
  /\ rotation' = [rotation EXCEPT ![c] = [step |-> step, who |-> who,
       approvals |-> IF step = "approve" THEN proposal.approvals ELSE <<>>, executes |-> executes]]

Proceeds(c, step) == rotation' = [rotation EXCEPT ![c].step = step]
Returns(c) == rotation' = [rotation EXCEPT ![c] = Resting]

\* An account has changed: executeProposal goes on to mark its proposal.
Changed(c) ==
  /\ IF rotation[c].executes THEN Proceeds(c, "mark") ELSE Returns(c)
  /\ enacted' = (enacted \/ rotation[c].executes)
  /\ UNCHANGED <<proposal, approvers>>

FirstStep == [add_admin |-> "add", remove_admin |-> "count", change_roles |-> "roles"]

\* The routes' own use of addAdmin, removeAdmin and activateAdmin; addAdmin and
\* activateAdmin read the row here.
CallDirectly(c, who) ==
  /\ \/ who \notin known /\ Begins(c, "add", who, FALSE)
     \/ Begins(c, "count", who, FALSE)
     \/ who \in known \ active /\ Begins(c, "activate", who, FALSE)
  /\ UNCHANGED <<known, active, proposal, approvers, enacted>>

\* The insert throws on an address that got its row meanwhile.
AddAdmin(c) ==
  /\ rotation[c].step = "add" /\ rotation[c].who \notin known
  /\ known' = known \cup {rotation[c].who} /\ active' = active \cup {rotation[c].who}
  /\ Changed(c)

\* enforceMinimumAdminCount.
AboveMinimum(n) == n > MinimumAdmins

\* Count, find the account, deactivate it: three statements.
RemoveAdmin(c) ==
  \/ /\ rotation[c].step = "count" /\ AboveMinimum(Cardinality(active)) /\ Proceeds(c, "find")
     /\ UNCHANGED <<known, active, proposal, approvers, enacted>>
  \/ /\ rotation[c].step = "find" /\ rotation[c].who \in active /\ Proceeds(c, "remove")
     /\ UNCHANGED <<known, active, proposal, approvers, enacted>>
  \/ /\ rotation[c].step = "remove" /\ active' = active \ {rotation[c].who} /\ UNCHANGED known
     /\ Changed(c)

ActivateAdmin(c) ==
  /\ rotation[c].step = "activate" /\ active' = active \cup {rotation[c].who} /\ UNCHANGED known
  /\ Changed(c)

ChangeRoles(c) ==
  /\ rotation[c].step = "roles" /\ rotation[c].who \in known /\ UNCHANGED <<known, active>>
  /\ Changed(c)

\* The proposer approves; nothing looks at the number again.
CreateProposal(type, target, who, required) ==
  /\ proposal.status = "absent"
  /\ proposal' = [type |-> type, target |-> target, status |-> "pending", approvals |-> <<who>>,
                  required |-> required, late |-> FALSE]
  /\ approvers' = {who}
  /\ UNCHANGED <<known, active, rotation, enacted>>

ProposalExpires ==
  /\ proposal.status # "absent" /\ ~ proposal.late /\ proposal' = [proposal EXCEPT !.late = TRUE]
  /\ UNCHANGED <<known, active, rotation, approvers, enacted>>

\* BUG: an address may approve twice.
NotYetApproved_Anyone(who) == TRUE

NotYetApproved(who) == who \notin Range(proposal.approvals)

\* The row is read and checked; a late one is marked expired instead.  The
\* approver's address is what the request's body says, any address.
ApproveProposal(c, who) ==
  /\ proposal.status = "pending"
  /\ IF proposal.late THEN Begins(c, "expire", who, FALSE)
                      ELSE NotYetApproved(who) /\ Begins(c, "approve", who, FALSE)
  /\ UNCHANGED <<known, active, proposal, approvers, enacted>>

\* The approvals read, and one more, whatever the row has become.
RecordApproval(c) ==
  LET approvals == Append(rotation[c].approvals, rotation[c].who) IN
  /\ rotation[c].step = "approve"
  /\ proposal' = [proposal EXCEPT !.approvals = approvals,
       !.status = IF Len(approvals) >= proposal.required THEN "approved" ELSE "pending"]
  /\ approvers' = approvers \cup {rotation[c].who}
  /\ Returns(c)
  /\ UNCHANGED <<known, active, enacted>>

\* executeProposal up to the operation it calls, which checks on its own.
ExecuteProposal(c) ==
  /\ proposal.status = "approved"
  /\ IF proposal.late THEN Begins(c, "expire", proposal.target, FALSE)
     ELSE /\ proposal.type = "add_admin" => proposal.target \notin known
          /\ Begins(c, FirstStep[proposal.type], proposal.target, TRUE)
  /\ UNCHANGED <<known, active, proposal, approvers, enacted>>

\* executed or expired, by id.
MarkProposal(c) ==
  /\ rotation[c].step \in {"mark", "expire"} /\ Returns(c)
  /\ proposal' = [proposal EXCEPT !.status = IF rotation[c].step = "mark" THEN "executed" ELSE "expired"]
  /\ UNCHANGED <<known, active, approvers, enacted>>

RejectProposal ==
  /\ proposal.status = "pending" /\ proposal' = [proposal EXCEPT !.status = "rejected"]
  /\ UNCHANGED <<known, active, rotation, approvers, enacted>>

\* A check of a later step fails, a statement throws, or the process dies.
RotationCallDies(c) ==
  /\ rotation[c] # Resting /\ Returns(c)
  /\ UNCHANGED <<known, active, proposal, approvers, enacted>>

RotationNext ==
  \/ \E c \in RotationCall :
       \/ \E who \in Admin : CallDirectly(c, who) \/ ApproveProposal(c, who)
       \/ AddAdmin(c) \/ RemoveAdmin(c) \/ ActivateAdmin(c) \/ ChangeRoles(c)
       \/ RecordApproval(c) \/ ExecuteProposal(c) \/ MarkProposal(c) \/ RotationCallDies(c)
  \/ \E t \in ProposalType, target, who \in Admin, n \in Required : CreateProposal(t, target, who, n)
  \/ ProposalExpires \/ RejectProposal

RotationSpec == RotationInit /\ [][RotationNext]_rotationVars

-----------------------------------------------------------------------------
(* Properties.                                                             *)

RotationTypeOK ==
  /\ active \subseteq known /\ known \subseteq Admin /\ approvers \subseteq Admin /\ enacted \in BOOLEAN
  /\ proposal \in [type : ProposalType, target : Admin \cup {NoAdmin}, required : Required \cup {0},
                   status : {"absent", "pending", "approved", "executed", "rejected", "expired"},
                   approvals : Seq(Admin), late : BOOLEAN]
  /\ rotation \in [RotationCall -> [step : {"idle", "add", "count", "find", "remove", "activate", "roles",
                                           "approve", "expire", "mark"},
                                   who : Admin \cup {NoAdmin}, approvals : Seq(Admin), executes : BOOLEAN]]

\* Approvals may overwrite each other, a rejection or an execution: a proposal
\* is still enacted only after approvals under as many different addresses as
\* it asked for, administrators or not (approveProposal, executeProposal).
ExecutedWithQuorum ==
  enacted \/ proposal.status = "executed" => Cardinality(approvers) >= proposal.required

\* backend/docs/admin-rotation.md and enforceMinimumAdminCount: a removal leaves
\* the minimum of active administrators.
MinimumKept ==
  [][active' \subseteq active /\ active' # active
       => Cardinality(active') >= MinimumAdmins]_rotationVars
=============================================================================
