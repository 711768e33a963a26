--------------------------- MODULE ChangeApproval ---------------------------
(***************************************************************************)
(* Four-eyes change requests, backend/src/services/changeApproval          *)
(* .service.ts, and the manual circuit-breaker overrides that pass through *)
(* them, circuitBreakerActionEngine.service.ts.  Every transition reads    *)
(* the row, checks it, and writes by id later whatever the row has become. *)
(***************************************************************************)
EXTENDS Integers, FiniteSets

CONSTANTS
  Identity,  \* callers
  Change     \* bound: transitions under way at a time

VARIABLES
  request,   \* a row of change_requests; override: its payload is the action engine's
  change,    \* transitions under way: the next statement, the caller, within an override or not
  approving, \* history: whose approval was written
  acted      \* history: the override's action ran

changeVars == <<request, change, approving, acted>>

RequestStatus == {"absent", "draft", "pending_approval", "approved", "rejected", "applied", "cancelled"}

Quiet == [step |-> "idle", by |-> {}, override |-> FALSE]

ChangeInit ==
  /\ request = [status |-> "absent", submittedBy |-> {}, reviewedBy |-> {}, override |-> FALSE]
  /\ change = [c \in Change |-> Quiet] /\ approving = {} /\ acted = FALSE

Does(c, step, who, override) ==
  change' = [change EXCEPT ![c] = [step |-> step, by |-> {who}, override |-> override]]

\* createDraft; requestManualOverride submits its draft at once, if it lives.
CreateDraft(c, who) ==
  /\ request.status = "absent"
  /\ \E o \in BOOLEAN :
       request' = [status |-> "draft", submittedBy |-> {who}, reviewedBy |-> {}, override |-> o]
  /\ \/ UNCHANGED change
     \/ change[c] = Quiet /\ request'.override /\ Does(c, "submit", who, TRUE)
  /\ UNCHANGED <<approving, acted>>

\* BUG: the submitter may approve.
Differs_NoCheck(who) == TRUE

Differs(who) == request.submittedBy # {who}

\* requireStatus and the checks on the caller.
Allowed(step, who) ==
  \/ step = "submit"  /\ request.status = "draft" /\ request.submittedBy = {who}
  \/ step = "approve" /\ request.status = "pending_approval" /\ Differs(who)
  \/ step = "reject"  /\ request.status = "pending_approval"
  \/ step = "apply"   /\ request.status = "approved"
  \/ step = "cancel"  /\ request.status \in {"draft", "pending_approval"} /\ request.submittedBy = {who}

Becomes == [submit |-> "pending_approval", approve |-> "approved", reject |-> "rejected",
            apply |-> "applied", cancel |-> "cancelled"]

\* submitForApproval, approve, reject, applyChange or cancelRequest up to its write.
BeginChange(c, who) ==
  /\ change[c] = Quiet
  /\ \E step \in DOMAIN Becomes : Allowed(step, who) /\ Does(c, step, who, FALSE)
  /\ UNCHANGED <<request, approving, acted>>

\* executeApprovedManualOverride up to the write of its approve.
BeginOverride(c, who) ==
  /\ change[c] = Quiet /\ request.override /\ Differs(who)
  /\ Allowed("approve", who) /\ Does(c, "approve", who, TRUE)
  /\ UNCHANGED <<request, approving, acted>>

\* The write, and what an override goes on to.
WriteChange(c) ==
  LET step == change[c].step IN
  /\ step \in DOMAIN Becomes
  /\ request' = [request EXCEPT !.status = Becomes[step],
       !.reviewedBy = IF step \in {"approve", "reject"} THEN change[c].by ELSE @]
  /\ approving' = IF step = "approve" THEN approving \cup change[c].by ELSE approving
  /\ change' = [change EXCEPT ![c] =
       IF ~ @.override \/ step = "submit" THEN Quiet
       ELSE [@ EXCEPT !.step = IF step = "approve" THEN "applying" ELSE "act"]]
  /\ UNCHANGED acted

\* The override's own applyChange reads the row again.
OverrideApplies(c) ==
  /\ change[c].step = "applying" /\ request.status = "approved"
  /\ change' = [change EXCEPT ![c].step = "apply"]
  /\ UNCHANGED <<request, approving, acted>>

\* executeSingleAction; a crash before it leaves "applied" with nothing done.
OverrideActs(c) ==
  /\ change[c].step = "act" /\ acted' = TRUE
  /\ change' = [change EXCEPT ![c] = Quiet]
  /\ UNCHANGED <<request, approving>>

ChangeDies(c) ==
  /\ change[c] # Quiet /\ change' = [change EXCEPT ![c] = Quiet]
  /\ UNCHANGED <<request, approving, acted>>

ChangeNext ==
  \E c \in Change :
    \/ \E who \in Identity : CreateDraft(c, who) \/ BeginChange(c, who) \/ BeginOverride(c, who)
    \/ WriteChange(c) \/ OverrideApplies(c) \/ OverrideActs(c) \/ ChangeDies(c)

ChangeSpec == ChangeInit /\ [][ChangeNext]_changeVars

-----------------------------------------------------------------------------
(* Properties.                                                             *)

ChangeTypeOK ==
  /\ request \in [status : RequestStatus, submittedBy : SUBSET Identity, reviewedBy : SUBSET Identity,
                  override : BOOLEAN]
  /\ change \in [Change -> [step : {"idle", "applying", "act"} \cup DOMAIN Becomes, by : SUBSET Identity,
                            override : BOOLEAN]]
  /\ approving \subseteq Identity /\ acted \in BOOLEAN

\* Transitions may overwrite one another, a cancellation come back to life and
\* an override run twice; what is applied, and an action that runs, was still
\* approved by someone who had not submitted it.
FourEyes ==
  request.status \in {"approved", "applied"} \/ acted => approving \ request.submittedBy # {}
=============================================================================
