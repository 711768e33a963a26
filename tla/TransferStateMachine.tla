------------------------ MODULE TransferStateMachine ------------------------
(***************************************************************************)
(* The Soroban contract contracts/transfer_state_machine: the lifecycle of *)
(* bridge transfers, with per-state deadlines, verifier and oracle         *)
(* verdicts, rollback, administrator recovery and a bounded audit trail.   *)
(*                                                                         *)
(* One action is one successful contract invocation; an invocation that    *)
(* panics is reverted by the host, so its guard simply disables it.        *)
(* `caller' is the address whose require_auth the invocation carries.      *)
(* Time is kept as the seconds left until state_deadline (-1: passed),     *)
(* which is all the contract ever compares.  Routing data (asset, amount,  *)
(* destination, bridge type) is stored and never read back.                *)
(***************************************************************************)
EXTENDS Integers, Sequences

CONSTANTS
  Address,        \* accounts and contracts that can sign an invocation
  NoAddress,      \* "not initialized"
  RoleChoices,    \* the integration contracts an administrator may wire
  SeedTimeout,    \* seconds per state set by initialize; 0: no entry
  DefaultSecs,    \* DefaultTimeoutSecs set by initialize
  TimeoutChoices, \* timeouts an administrator may configure
  Configurable,   \* bound: states whose timeout is reconfigured
  MaxTransfers,   \* bound: transfers ever initiated
  MaxHistory      \* MAX_HISTORY_PER_TRANSFER

TransferState == {"Initiated", "AwaitingSource", "EscrowPending", "EscrowLocked",
                  "VerificationPending", "OraclePending", "ReleasePending",
                  "Completed", "Failed", "RollingBack", "RolledBack", "TimedOut"}
TransferMode  == {"Standard", "FastTrack"} \* no edge tells Insured from Standard
Roles         == [escrow : Address, verifier : Address, oracle : Address]
Ids           == 1 .. MaxTransfers

ASSUME ConstantsAssumption ==
  /\ NoAddress \notin Address
  /\ RoleChoices \subseteq Roles
  /\ SeedTimeout \in [TransferState -> Nat]
  /\ DefaultSecs \in Nat \ {0}
  /\ TimeoutChoices \subseteq Nat \ {0}
  /\ Configurable \subseteq TransferState
  /\ MaxTransfers \in Nat
  /\ MaxHistory \in Nat

VARIABLES
  admin,          \* DataKey::Admin, NoAddress until initialize
  roles,          \* EscrowContract, VerifierContract, OracleContract
  defaultTimeout, \* DefaultTimeoutSecs
  stateTimeout,   \* Timeout(state); 0 where the key is absent
  seq,            \* TransferSeq
  transfer,       \* Transfer(id)
  history         \* History(id)

config == <<admin, roles, defaultTimeout, stateTimeout>>
vars   == <<admin, roles, defaultTimeout, stateTimeout, seq, transfer, history>>

\* How a transition was made; the contract publishes one event symbol for each.
Via == {"advance", "timeout", "rollback", "override", "auto"}

Entry == [from : TransferState, to : TransferState, actor : Address, via : Via]

Transfer == [initiator : Address, mode : TransferMode, state : TransferState,
             left : Nat \cup {-1}, verification_ok : BOOLEAN, oracle_ok : BOOLEAN]

-----------------------------------------------------------------------------
(* The transition tables.                                                  *)

Timed == {"Initiated", "AwaitingSource", "EscrowPending", "EscrowLocked",
          "VerificationPending", "OraclePending", "ReleasePending"}

IsTerminal(s) == s \in {"Completed", "Failed", "RolledBack", "TimedOut"}

CanRollbackFrom(s) == s \in Timed

\* BUG: the release stage was forgotten in the timeout rows.
LeavesTimed_NoReleaseTimeout(from, to) ==
  /\ from \in Timed
  /\ to \in {"Failed", "RollingBack"} \/ (to = "TimedOut" /\ from # "ReleasePending")

LeavesTimed(from, to) == from \in Timed /\ to \in {"Failed", "TimedOut", "RollingBack"}

TransitionAllowed(t, to) ==
  \/ <<t.state, to>> \in {<<"Initiated", "AwaitingSource">>,
                          <<"AwaitingSource", "EscrowPending">>,
                          <<"EscrowPending", "EscrowLocked">>,
                          <<"EscrowLocked", "VerificationPending">>,
                          <<"ReleasePending", "Completed">>,
                          <<"RollingBack", "RolledBack">>}
  \/ t.state = "Initiated" /\ to = "EscrowPending" /\ t.mode = "FastTrack"
  \/ t.state = "VerificationPending" /\ to = "OraclePending" /\ t.verification_ok
  \/ t.state = "OraclePending" /\ to = "ReleasePending" /\ t.oracle_ok
  \/ LeavesTimed(t.state, to)

AdminOverrideAllowed(from, to) ==
  <<from, to>> \in {<<"TimedOut", "Failed">>, <<"TimedOut", "RolledBack">>,
                    <<"TimedOut", "EscrowLocked">>, <<"TimedOut", "ReleasePending">>,
                    <<"Failed", "RollingBack">>,
                    <<"OraclePending", "ReleasePending">>,
                    <<"VerificationPending", "OraclePending">>}

\* BUG: Failed is left out because the table above has an edge for it.
Overridable_FailedToo(s) == s \notin {"Completed", "RolledBack"}

Overridable(s) == s \notin {"Completed", "Failed", "RolledBack"}

TimeoutSecsFor(s) == IF stateTimeout[s] # 0 THEN stateTimeout[s] ELSE defaultTimeout

Known(id) == id \in 1 .. seq

\* BUG: the lock is confirmed like any other edge.
AdvanceAuthorized_NoEscrowArm(caller, id, to) ==
  caller \in {admin, transfer[id].initiator}

\* The escrow contract (never the initiator) confirms a lock; every other edge
\* belongs to the initiator; an administrator may take any of them.
AdvanceAuthorized(caller, id, to) ==
  \/ caller = admin
  \/ IF transfer[id].state = "EscrowPending" /\ to = "EscrowLocked"
     THEN caller = roles.escrow
     ELSE caller = transfer[id].initiator

\* A record moved to a new state.  A terminal state keeps the old deadline,
\* which nothing reads any more: it counts as passed.
Moved(t, to) ==
  [t EXCEPT !.state = to, !.left = IF IsTerminal(to) THEN -1 ELSE TimeoutSecsFor(to)]

LogEntry(t, to, actor, via) == [from |-> t.state, to |-> to, actor |-> actor, via |-> via]

\* BUG: the log is checked once, for the first of the rows.
Room_OneRow(id, rows) == Len(history[id]) < MaxHistory

Room(id, rows) == Len(history[id]) + rows <= MaxHistory

ApplyTransition(id, to, actor, via) ==
  /\ Room(id, 1)
  /\ transfer' = [transfer EXCEPT ![id] = Moved(@, to)]
  /\ history' = [history EXCEPT ![id] = Append(@, LogEntry(transfer[id], to, actor, via))]

-----------------------------------------------------------------------------
(* Setup and configuration.                                                *)

SameRole(a) == [escrow |-> a, verifier |-> a, oracle |-> a]

Init ==
  /\ admin = NoAddress
  /\ roles = SameRole(NoAddress)
  /\ defaultTimeout = 0
  /\ stateTimeout = [s \in TransferState |-> 0]
  /\ seq = 0
  /\ transfer = [id \in 1 .. 0 |-> <<>>]
  /\ history = [id \in 1 .. 0 |-> <<>>]

\* The integration contracts start as the administrator's own address.
Initialize(caller) ==
  /\ admin = NoAddress
  /\ admin' = caller
  /\ roles' = SameRole(caller)
  /\ defaultTimeout' = DefaultSecs
  /\ stateTimeout' = SeedTimeout
  /\ UNCHANGED <<seq, transfer, history>>

SetIntegrationContracts(caller, r) ==
  /\ caller = admin
  /\ roles' = r
  /\ UNCHANGED <<admin, defaultTimeout, stateTimeout, seq, transfer, history>>

SetDefaultTimeout(caller, secs) ==
  /\ caller = admin
  /\ secs # 0
  /\ defaultTimeout' = secs
  /\ UNCHANGED <<admin, roles, stateTimeout, seq, transfer, history>>

SetStateTimeout(caller, s, secs) ==
  /\ caller = admin
  /\ secs # 0
  /\ stateTimeout' = [stateTimeout EXCEPT ![s] = secs]
  /\ UNCHANGED <<admin, roles, defaultTimeout, seq, transfer, history>>

-----------------------------------------------------------------------------
(* The life of a transfer.                                                 *)

InitiateTransfer(caller, mode) ==
  /\ admin # NoAddress
  /\ seq < MaxTransfers
  /\ seq' = seq + 1
  /\ transfer' = [id \in 1 .. seq + 1 |->
        IF Known(id) THEN transfer[id]
        ELSE [initiator |-> caller, mode |-> mode, state |-> "Initiated",
              left |-> TimeoutSecsFor("Initiated"),
              verification_ok |-> FALSE, oracle_ok |-> FALSE]]
  /\ history' = [id \in 1 .. seq + 1 |-> IF Known(id) THEN history[id] ELSE <<>>]
  /\ UNCHANGED config

AdvanceState(caller, id, to) ==
  /\ Known(id)
  /\ TransitionAllowed(transfer[id], to)
  /\ AdvanceAuthorized(caller, id, to)
  /\ ApplyTransition(id, to, caller, "advance")
  /\ UNCHANGED <<config, seq>>

\* Permissionless; the log names the initiator as the actor.
HandleTimeout(id) ==
  /\ Known(id)
  /\ ~ IsTerminal(transfer[id].state)
  /\ transfer[id].left < 0
  /\ TransitionAllowed(transfer[id], "TimedOut")
  /\ ApplyTransition(id, "TimedOut", transfer[id].initiator, "timeout")
  /\ UNCHANGED <<config, seq>>

\* BUG: both rows start at the state before the rollback.
RollbackRows_StaleFrom(t, caller) ==
  <<LogEntry(t, "RollingBack", caller, "rollback"),
    LogEntry(t, "RolledBack", caller, "rollback")>>

RollbackRows(t, caller) ==
  <<LogEntry(t, "RollingBack", caller, "rollback"),
    LogEntry(Moved(t, "RollingBack"), "RolledBack", caller, "rollback")>>

\* Two transitions in one invocation: both rows fit or the call reverts.
RollbackTransfer(caller, id) ==
  /\ Known(id)
  /\ caller \in {transfer[id].initiator, admin}
  /\ ~ IsTerminal(transfer[id].state)
  /\ CanRollbackFrom(transfer[id].state)
  /\ Room(id, 2)
  /\ transfer' = [transfer EXCEPT ![id] = Moved(Moved(@, "RollingBack"), "RolledBack")]
  /\ history' = [history EXCEPT ![id] = @ \o RollbackRows(transfer[id], caller)]
  /\ UNCHANGED <<config, seq>>

AdminOverrideState(caller, id, to) ==
  /\ Known(id)
  /\ caller = admin
  /\ Overridable(transfer[id].state)
  /\ AdminOverrideAllowed(transfer[id].state, to)
  /\ ApplyTransition(id, to, caller, "override")
  /\ UNCHANGED <<config, seq>>

\* BUG: the state of the transfer is not checked.
SubmitVerificationResult_AnyState(caller, id, ok) ==
  /\ Known(id)
  /\ caller = roles.verifier
  /\ transfer' = [transfer EXCEPT ![id].verification_ok = ok]
  /\ UNCHANGED <<config, seq, history>>

SubmitVerificationResult(caller, id, ok) ==
  /\ Known(id)
  /\ caller = roles.verifier
  /\ transfer[id].state = "VerificationPending"
  /\ transfer' = [transfer EXCEPT ![id].verification_ok = ok]
  /\ UNCHANGED <<config, seq, history>>

\* BUG: the oracle's answer lands in the verifier's flag.
SubmitOracleResult_WrongFlag(caller, id, ok) ==
  /\ Known(id)
  /\ caller = roles.oracle
  /\ transfer[id].state = "OraclePending"
  /\ transfer' = [transfer EXCEPT ![id].verification_ok = ok]
  /\ UNCHANGED <<config, seq, history>>

SubmitOracleResult(caller, id, ok) ==
  /\ Known(id)
  /\ caller = roles.oracle
  /\ transfer[id].state = "OraclePending"
  /\ transfer' = [transfer EXCEPT ![id].oracle_ok = ok]
  /\ UNCHANGED <<config, seq, history>>

AutoNext(t) ==
  {to \in {"OraclePending", "ReleasePending"} :
     \/ t.state = "VerificationPending" /\ t.verification_ok /\ to = "OraclePending"
     \/ t.state = "OraclePending" /\ t.oracle_ok /\ to = "ReleasePending"}

\* Permissionless, like HandleTimeout.
TryAutoProgress(id) ==
  /\ Known(id)
  /\ \E to \in AutoNext(transfer[id]) :
        /\ TransitionAllowed(transfer[id], to)
        /\ ApplyTransition(id, to, transfer[id].initiator, "auto")
  /\ UNCHANGED <<config, seq>>

\* A second passes on the ledger.
Tick ==
  /\ \E id \in 1 .. seq : transfer[id].left >= 0
  /\ transfer' = [id \in 1 .. seq |->
        [transfer[id] EXCEPT !.left = IF @ >= 0 THEN @ - 1 ELSE @]]
  /\ UNCHANGED <<config, seq, history>>

Configure(caller) ==
  \/ Initialize(caller)
  \/ \E r \in RoleChoices : SetIntegrationContracts(caller, r)
  \/ \E secs \in TimeoutChoices : SetDefaultTimeout(caller, secs)
  \/ \E s \in Configurable, secs \in TimeoutChoices : SetStateTimeout(caller, s, secs)

Step(caller, id) ==
  \/ \E to \in TransferState : AdvanceState(caller, id, to)
  \/ RollbackTransfer(caller, id)
  \/ \E to \in TransferState : AdminOverrideState(caller, id, to)
  \/ \E ok \in BOOLEAN : SubmitVerificationResult(caller, id, ok)
  \/ \E ok \in BOOLEAN : SubmitOracleResult(caller, id, ok)

Next ==
  \/ \E caller \in Address : Configure(caller)
  \/ \E caller \in Address, mode \in TransferMode : InitiateTransfer(caller, mode)
  \/ \E caller \in Address, id \in Ids : Step(caller, id)
  \/ \E id \in Ids : HandleTimeout(id) \/ TryAutoProgress(id)
  \/ Tick

Spec == Init /\ [][Next]_vars

\* Ledgers keep closing, and handle_timeout needs no permission, so somebody
\* calls it for a transfer that stays overdue.
Fairness == WF_vars(Tick) /\ \A id \in Ids : WF_vars(HandleTimeout(id))
FairSpec == Spec /\ Fairness

-----------------------------------------------------------------------------
(* Properties.                                                             *)

\* Every stored key holds a value of its type; the audit trail never outgrows
\* the bound apply_transition enforces, also when rollback writes two rows.
TypeOK ==
  /\ admin \in Address \cup {NoAddress}
  /\ roles \in Roles \/ roles = SameRole(NoAddress)
  /\ defaultTimeout \in Nat
  /\ stateTimeout \in [TransferState -> Nat]
  /\ seq \in 0 .. MaxTransfers
  /\ transfer \in [1 .. seq -> Transfer]
  /\ history \in [1 .. seq -> Seq(Entry)]
  /\ \A id \in 1 .. seq : Len(history[id]) <= MaxHistory

\* get_transition_history explains the stored state: its rows form one path
\* from Initiated to the current state, whichever of the five entry points
\* wrote them.
HistoryExplainsState ==
  \A id \in 1 .. seq :
    LET log == history[id] IN
      /\ transfer[id].state = IF log = <<>> THEN "Initiated" ELSE log[Len(log)].to
      /\ \A i \in 1 .. Len(log) :
            log[i].from = IF i = 1 THEN "Initiated" ELSE log[i - 1].to

\* The accounts an initiator has to be one of to lock escrow itself.
Privileged == {admin} \cup {r.escrow : r \in RoleChoices}

Waived(id) == \E i \in 1 .. Len(history[id]) : history[id][i].via = "override"

Escrowed(id) ==
  \E i \in 1 .. Len(history[id]) :
    /\ history[id][i].to = "EscrowLocked"
    /\ history[id][i].via = "advance"
    /\ \/ history[id][i].actor # transfer[id].initiator
       \/ transfer[id].initiator \in Privileged

\* Whatever the path, a transfer is released or completed only if somebody
\* other than an unprivileged initiator locked its escrow and the verifier and
\* the oracle both approved it, or an administrator override is on its log.
SettlementEvidence ==
  \A id \in 1 .. seq :
    transfer[id].state \in {"ReleasePending", "Completed"} =>
      \/ Escrowed(id) /\ transfer[id].verification_ok /\ transfer[id].oracle_ok
      \/ Waived(id)

Locked   == {"EscrowLocked", "VerificationPending", "OraclePending",
             "ReleasePending", "Completed"}
Verified == {"OraclePending", "ReleasePending", "Completed"}
Attested == {"ReleasePending", "Completed"}

Justified(id) ==
  \/ Waived(id)
  \/ /\ transfer[id].state \in Locked => Escrowed(id)
     /\ transfer[id].state \in Verified => transfer[id].verification_ok
     /\ transfer[id].state \in Attested => transfer[id].oracle_ok

\* Each stage of the happy path keeps the evidence of the stages before it:
\* verdicts cannot be revised once transition_allowed has consumed them, and
\* no reconfiguration of the integration contracts makes an initiator able to
\* lock its own escrow.
StageEvidence ==
  /\ seq > 0 => admin # NoAddress
  /\ admin # NoAddress => roles.escrow \in Privileged
  /\ \A id \in 1 .. seq : Justified(id)

\* admin_override_state: "true finals cannot be overridden".  No sequence of
\* calls takes a transfer out of Completed, Failed or RolledBack, even though
\* the override table has an edge that leaves Failed.
FinalOutcomeIrrevocable ==
  [][\A id \in 1 .. seq :
       transfer[id].state \in {"Completed", "Failed", "RolledBack"} =>
         transfer'[id].state = transfer[id].state]_vars

Waiting(id) == Known(id) /\ transfer[id].state \in Timed

\* handle_timeout's "permissionless liveness": no transfer waits forever in a
\* timed state.  It is resolved, is being unwound (RollingBack has no timeout)
\* or has used up its audit trail, after which no transition fits.
TimeoutDrains ==
  \A id \in Ids : Waiting(id) ~> (~ Waiting(id) \/ Len(history[id]) = MaxHistory)

\* TransferState::TimedOut, "stuck beyond configured deadline without
\* progress": a transfer becomes TimedOut only once its deadline has passed.
TimedOutOnlyAfterDeadline ==
  [][\A id \in 1 .. seq :
       transfer'[id].state = "TimedOut" /\ transfer[id].state # "TimedOut"
         => transfer[id].left < 0]_vars

-----------------------------------------------------------------------------
(* The contract implements TransferSettlement.                             *)

Outcome(s) ==
  CASE s = "ReleasePending" -> "cleared"
    [] s = "Completed"      -> "settled"
    [] s = "TimedOut"       -> "stalled"
    [] s = "Failed"         -> "failed"
    [] s = "RollingBack"    -> "unwinding"
    [] s = "RolledBack"     -> "refunded"
    [] OTHER                -> "open"

Grounds(id) ==
  {g \in {"escrowed", "verified", "attested", "waived"} :
     \/ g = "escrowed" /\ Escrowed(id)
     \/ g = "verified" /\ transfer[id].verification_ok
     \/ g = "attested" /\ transfer[id].oracle_ok
     \/ g = "waived"   /\ Waived(id)}

outcome == [id \in Ids |-> IF Known(id) THEN Outcome(transfer[id].state) ELSE "none"]
grounds == [id \in Ids |-> IF Known(id) THEN Grounds(id) ELSE {}]

Settlement == INSTANCE TransferSettlement WITH Ids <- Ids, outcome <- outcome, grounds <- grounds

\* Every call of the contract is a step of the settlement promise or leaves it
\* unchanged.
SettlementSpec == Settlement!Spec
=============================================================================
