--------------------------- MODULE TransferProofs ---------------------------
(***************************************************************************)
(* Theorems about TransferStateMachine, for every number of transfers,     *)
(* every log bound, every set of accounts and every timeout table.         *)
(***************************************************************************)
EXTENDS TransferStateMachine, SequenceTheorems, TLAPS

USE DEF Known, Room

(* A transition keeps a record well formed, whatever timeout applies. *)
LEMMA MovedType ==
  ASSUME TypeOK, NEW t \in Transfer, NEW to \in TransferState
  PROVE  Moved(t, to) \in Transfer
<1>1. TimeoutSecsFor(to) \in Nat
  BY DEF TypeOK, TimeoutSecsFor
<1> QED
  BY <1>1 DEF Moved, Transfer

(* A row written for a typed record by a known account is a log entry. *)
LEMMA LogEntryType ==
  ASSUME NEW t \in Transfer, NEW to \in TransferState,
         NEW actor \in Address, NEW via \in Via
  PROVE  LogEntry(t, to, actor, via) \in Entry
BY DEF LogEntry, Entry, Transfer

(* apply_transition keeps the record and the log well formed. *)
LEMMA ApplyTransitionType ==
  ASSUME TypeOK, NEW id \in 1 .. seq, NEW to \in TransferState,
         NEW actor \in Address, NEW via \in Via,
         ApplyTransition(id, to, actor, via), UNCHANGED <<config, seq>>
  PROVE  TypeOK'
<1>1. transfer[id] \in Transfer /\ history[id] \in Seq(Entry)
  BY DEF TypeOK
<1>2. Moved(transfer[id], to) \in Transfer
  BY <1>1, MovedType
<1>3. LogEntry(transfer[id], to, actor, via) \in Entry
  BY <1>1, LogEntryType
<1>4. transfer' \in [1 .. seq -> Transfer]
  BY <1>2 DEF ApplyTransition, TypeOK
<1>5. history' \in [1 .. seq -> Seq(Entry)]
  BY <1>1, <1>3 DEF ApplyTransition, TypeOK
<1>6. \A i \in 1 .. seq : Len(history'[i]) <= MaxHistory
  BY <1>1, <1>3, ConstantsAssumption DEF ApplyTransition, TypeOK
<1> QED
  BY <1>4, <1>5, <1>6 DEF TypeOK, config

(* The two transitions of rollback_transfer keep record and log well formed. *)
LEMMA RollbackType ==
  ASSUME TypeOK, NEW caller \in Address, NEW id \in Ids,
         RollbackTransfer(caller, id)
  PROVE  TypeOK'
<1>0. id \in 1 .. seq
  BY DEF RollbackTransfer, Ids
<1>1. transfer[id] \in Transfer /\ history[id] \in Seq(Entry)
  BY <1>0 DEF TypeOK
<1>2. /\ "RollingBack" \in TransferState
      /\ "RolledBack" \in TransferState
      /\ "rollback" \in Via
  BY DEF TransferState, Via
<1>3. Moved(transfer[id], "RollingBack") \in Transfer
  BY <1>1, <1>2, MovedType
<1>4. Moved(Moved(transfer[id], "RollingBack"), "RolledBack") \in Transfer
  BY <1>2, <1>3, MovedType
<1>5. /\ LogEntry(transfer[id], "RollingBack", caller, "rollback") \in Entry
      /\ LogEntry(Moved(transfer[id], "RollingBack"), "RolledBack", caller, "rollback") \in Entry
  BY <1>1, <1>2, <1>3, LogEntryType
<1>6. /\ RollbackRows(transfer[id], caller) \in Seq(Entry)
      /\ Len(RollbackRows(transfer[id], caller)) = 2
  BY <1>5 DEF RollbackRows
<1>7. transfer' \in [1 .. seq -> Transfer]
  BY <1>0, <1>4 DEF RollbackTransfer, TypeOK
<1>8. history' \in [1 .. seq -> Seq(Entry)]
  BY <1>0, <1>1, <1>6 DEF RollbackTransfer, TypeOK
<1>9. \A i \in 1 .. seq : Len(history'[i]) <= MaxHistory
  <2>1. Len(history[id] \o RollbackRows(transfer[id], caller)) = Len(history[id]) + 2
    <3> DEFINE rows == RollbackRows(transfer[id], caller)
    <3> HIDE DEF rows
    <3>1. rows \in Seq(Entry) /\ Len(rows) = 2
      BY <1>6 DEF rows
    <3>2. Len(history[id] \o rows) = Len(history[id]) + Len(rows)
      BY <1>1, <3>1, ConcatProperties, Zenon
    <3> QED
      BY <3>1, <3>2 DEF rows
  <2>2. Len(history[id]) + 2 <= MaxHistory
    BY DEF RollbackTransfer
  <2>3. history' = [history EXCEPT ![id] = history[id] \o RollbackRows(transfer[id], caller)]
    BY DEF RollbackTransfer
  <2> QED
    BY <1>0, <2>1, <2>2, <2>3 DEF TypeOK
<1> QED
  BY <1>7, <1>8, <1>9 DEF RollbackTransfer, TypeOK, config

(* Every step keeps the stored keys typed. *)
LEMMA TypeStep == TypeOK /\ [Next]_vars => TypeOK'
<1> SUFFICES ASSUME TypeOK, [Next]_vars PROVE TypeOK'
  OBVIOUS
<1>1. ASSUME NEW caller \in Address, Configure(caller) PROVE TypeOK'
  <2>1. CASE Initialize(caller)
    BY <2>1, ConstantsAssumption DEF TypeOK, Initialize, SameRole, Roles
  <2>2. ASSUME NEW r \in RoleChoices, SetIntegrationContracts(caller, r) PROVE TypeOK'
    BY <2>2, ConstantsAssumption DEF TypeOK, SetIntegrationContracts
  <2>3. ASSUME NEW secs \in TimeoutChoices, SetDefaultTimeout(caller, secs) PROVE TypeOK'
    BY <2>3, ConstantsAssumption DEF TypeOK, SetDefaultTimeout
  <2>4. ASSUME NEW s \in Configurable, NEW secs \in TimeoutChoices,
               SetStateTimeout(caller, s, secs)
        PROVE  TypeOK'
    BY <2>4, ConstantsAssumption DEF TypeOK, SetStateTimeout
  <2> QED
    BY <1>1, <2>1, <2>2, <2>3, <2>4 DEF Configure
<1>2. ASSUME NEW caller \in Address, NEW mode \in TransferMode, InitiateTransfer(caller, mode)
      PROVE  TypeOK'
  <2> DEFINE new == [initiator |-> caller, mode |-> mode, state |-> "Initiated",
                     left |-> TimeoutSecsFor("Initiated"),
                     verification_ok |-> FALSE, oracle_ok |-> FALSE]
  <2>1. new \in Transfer
    BY DEF Transfer, TransferState, TimeoutSecsFor, TypeOK
  <2>2. transfer' \in [1 .. seq' -> Transfer]
    BY <1>2, <2>1 DEF InitiateTransfer, TypeOK
  <2>3. history' \in [1 .. seq' -> Seq(Entry)]
    BY <1>2 DEF InitiateTransfer, TypeOK
  <2>4. \A i \in 1 .. seq' : Len(history'[i]) <= MaxHistory
    BY <1>2, ConstantsAssumption DEF InitiateTransfer, TypeOK
  <2>5. seq' \in 0 .. MaxTransfers
    BY <1>2, ConstantsAssumption DEF InitiateTransfer, TypeOK
  <2>6. UNCHANGED <<admin, roles, defaultTimeout, stateTimeout>>
    BY <1>2 DEF InitiateTransfer, config
  <2> QED
    BY <2>2, <2>3, <2>4, <2>5, <2>6 DEF TypeOK
<1>3. ASSUME NEW caller \in Address, NEW id \in Ids, Step(caller, id) PROVE TypeOK'
  <2>1. ASSUME NEW to \in TransferState, AdvanceState(caller, id, to) PROVE TypeOK'
    BY <2>1, ApplyTransitionType DEF AdvanceState, Ids, Via
  <2>2. CASE RollbackTransfer(caller, id)
    BY <2>2, RollbackType
  <2>3. ASSUME NEW to \in TransferState, AdminOverrideState(caller, id, to) PROVE TypeOK'
    BY <2>3, ApplyTransitionType DEF AdminOverrideState, Ids, Via
  <2>4. ASSUME NEW ok \in BOOLEAN, SubmitVerificationResult(caller, id, ok) PROVE TypeOK'
    <3>1. \A t \in Transfer : [t EXCEPT !.verification_ok = ok] \in Transfer
      BY DEF Transfer
    <3>2. transfer' \in [1 .. seq -> Transfer]
      BY <2>4, <3>1 DEF SubmitVerificationResult, TypeOK
    <3> QED
      BY <2>4, <3>2 DEF SubmitVerificationResult, TypeOK, config
  <2>5. ASSUME NEW ok \in BOOLEAN, SubmitOracleResult(caller, id, ok) PROVE TypeOK'
    <3>1. \A t \in Transfer : [t EXCEPT !.oracle_ok = ok] \in Transfer
      BY DEF Transfer
    <3>2. transfer' \in [1 .. seq -> Transfer]
      BY <2>5, <3>1 DEF SubmitOracleResult, TypeOK
    <3> QED
      BY <2>5, <3>2 DEF SubmitOracleResult, TypeOK, config
  <2> QED
    BY <1>3, <2>1, <2>2, <2>3, <2>4, <2>5 DEF Step
<1>4. ASSUME NEW id \in Ids, HandleTimeout(id) PROVE TypeOK'
  <2>1. id \in 1 .. seq /\ transfer[id].initiator \in Address
    BY <1>4 DEF HandleTimeout, TypeOK, Transfer
  <2> QED
    BY <1>4, <2>1, ApplyTransitionType DEF HandleTimeout, Via, TransferState
<1>5. ASSUME NEW id \in Ids, TryAutoProgress(id) PROVE TypeOK'
  <2>1. id \in 1 .. seq /\ transfer[id].initiator \in Address
    BY <1>5 DEF TryAutoProgress, TypeOK, Transfer
  <2>2. PICK to \in AutoNext(transfer[id]) :
          ApplyTransition(id, to, transfer[id].initiator, "auto")
    BY <1>5 DEF TryAutoProgress
  <2>3. to \in TransferState /\ "auto" \in Via
    BY DEF AutoNext, TransferState, Via
  <2> QED
    BY <1>5, <2>1, <2>2, <2>3, ApplyTransitionType DEF TryAutoProgress
<1>6. CASE Tick
  <2> DEFINE aged(t) == [t EXCEPT !.left = IF @ >= 0 THEN @ - 1 ELSE @]
  <2>1. \A t \in Transfer : aged(t) \in Transfer
    BY DEF Transfer
  <2>2. transfer' = [id \in 1 .. seq |-> aged(transfer[id])]
    BY <1>6 DEF Tick
  <2> HIDE DEF aged
  <2>3. transfer' \in [1 .. seq -> Transfer]
    BY <2>1, <2>2 DEF TypeOK
  <2> QED
    BY <1>6, <2>3 DEF Tick, TypeOK, config
<1>7. CASE UNCHANGED vars
  BY <1>7 DEF vars, TypeOK
<1>8. CASE Next
  BY <1>1, <1>2, <1>3, <1>4, <1>5, <1>6, <1>8, Zenon DEF Next
<1> QED
  BY <1>7, <1>8

(* The stored keys keep their types and no log outgrows its bound. *)
THEOREM TypeCorrect == Spec => []TypeOK
<1>1. Init => TypeOK
  <2> SUFFICES ASSUME Init PROVE TypeOK
    OBVIOUS
  <2>1. 1 .. 0 = {} /\ seq = 0
    BY DEF Init
  <2>2. transfer \in [1 .. seq -> Transfer] /\ history \in [1 .. seq -> Seq(Entry)]
    BY <2>1 DEF Init
  <2> QED
    BY <2>1, <2>2, ConstantsAssumption DEF Init, TypeOK
<1> QED
  BY <1>1, TypeStep, PTL DEF Spec

-----------------------------------------------------------------------------
(* Settlement evidence.                                                    *)

(* A transition appends its row and keeps the rows already written.        *)
LEMMA AppendLookup ==
  ASSUME NEW S, NEW s \in Seq(S), NEW e \in S
  PROVE  /\ \A i \in 1 .. Len(s) : i \in 1 .. Len(Append(s, e)) /\ Append(s, e)[i] = s[i]
         /\ Len(s) + 1 \in 1 .. Len(Append(s, e))
         /\ Append(s, e)[Len(s) + 1] = e
BY AppendProperties, LenProperties

(* A transition leaves the rows of the log it extends, so what the log      *)
(* witnesses stays witnessed.                                              *)
LEMMA LogWitness ==
  ASSUME TypeOK, NEW id \in 1 .. seq, NEW e \in Entry,
         history' = [history EXCEPT ![id] = Append(@, e)],
         transfer'[id].initiator = transfer[id].initiator, UNCHANGED admin
  PROVE  /\ Waived(id) => Waived(id)'
         /\ e.via = "override" => Waived(id)'
         /\ Escrowed(id) => Escrowed(id)'
         /\ /\ e.to = "EscrowLocked" /\ e.via = "advance"
            /\ e.actor # transfer[id].initiator \/ transfer[id].initiator \in Privileged
            => Escrowed(id)'
<1> DEFINE log == history[id]
           new == Append(log, e)
<1>1. log \in Seq(Entry) /\ history'[id] = new
  BY DEF TypeOK
<1>2. /\ \A i \in 1 .. Len(log) : i \in 1 .. Len(new) /\ new[i] = log[i]
      /\ Len(log) + 1 \in 1 .. Len(new)
      /\ new[Len(log) + 1] = e
  BY <1>1, AppendLookup
<1> HIDE DEF new
<1>3. Privileged' = Privileged
  BY DEF Privileged
<1> QED
  BY <1>1, <1>2, <1>3, Zenon DEF Waived, Escrowed

(* apply_transition keeps the evidence of every stage if the stage it      *)
(* enters is justified: by what is stored, by the row itself, or by an     *)
(* override.                                                               *)
LEMMA ApplyTransitionEvidence ==
  ASSUME TypeOK, StageEvidence, NEW id \in 1 .. seq, NEW to \in TransferState,
         NEW actor \in Address, NEW via \in Via,
         ApplyTransition(id, to, actor, via), UNCHANGED <<config, seq>>,
         \/ via = "override"
         \/ Waived(id)
         \/ /\ to \in Locked =>
                  \/ Escrowed(id)
                  \/ /\ to = "EscrowLocked" /\ via = "advance"
                     /\ \/ actor # transfer[id].initiator
                        \/ transfer[id].initiator \in Privileged
            /\ to \in Verified => transfer[id].verification_ok
            /\ to \in Attested => transfer[id].oracle_ok
  PROVE  StageEvidence'
<1> DEFINE e == LogEntry(transfer[id], to, actor, via)
<1>1. e \in Entry /\ e.to = to /\ e.via = via /\ e.actor = actor
  BY LogEntryType DEF TypeOK, LogEntry
<1>2. /\ history' = [history EXCEPT ![id] = Append(@, e)]
      /\ transfer' = [transfer EXCEPT ![id] = Moved(@, to)]
  BY DEF ApplyTransition
<1> HIDE DEF e
<1>3. /\ transfer'[id].state = to
      /\ transfer'[id].initiator = transfer[id].initiator
      /\ transfer'[id].verification_ok = transfer[id].verification_ok
      /\ transfer'[id].oracle_ok = transfer[id].oracle_ok
  BY <1>2 DEF TypeOK, Transfer, Moved
<1>4. /\ Waived(id) => Waived(id)'
      /\ e.via = "override" => Waived(id)'
      /\ Escrowed(id) => Escrowed(id)'
      /\ /\ e.to = "EscrowLocked" /\ e.via = "advance"
         /\ e.actor # transfer[id].initiator \/ transfer[id].initiator \in Privileged
         => Escrowed(id)'
  BY <1>1, <1>2, <1>3, LogWitness DEF config
<1>5. ASSUME NEW i \in 1 .. seq, i # id
      PROVE  /\ transfer'[i] = transfer[i]
             /\ Waived(i)' <=> Waived(i)
             /\ Escrowed(i)' <=> Escrowed(i)
  BY <1>2, <1>5 DEF TypeOK, Waived, Escrowed, Privileged, config
<1>6. Privileged' = Privileged
  BY DEF Privileged, config
<1>7. Justified(id)'
  <2>1. CASE via = "override" \/ Waived(id)
    <3>1. Waived(id)'
      BY <1>1, <1>4, <2>1
    <3> QED
      BY <3>1 DEF Justified
  <2>2. CASE ~ (via = "override" \/ Waived(id))
    <3>1. to \in Locked => Escrowed(id)'
      BY <1>1, <1>4, <2>2
    <3>2. /\ to \in Verified => transfer'[id].verification_ok
          /\ to \in Attested => transfer'[id].oracle_ok
      BY <1>3, <2>2, Zenon
    <3> QED
      BY <1>3, <3>1, <3>2, Zenon DEF Justified
  <2> QED
    BY <2>1, <2>2
<1>8. ASSUME NEW i \in 1 .. seq PROVE Justified(i)'
  <2>1. CASE i = id
    BY <1>7, <2>1
  <2>2. CASE i # id
    BY <1>5, <2>2, Zenon DEF StageEvidence, Justified
  <2> QED
    BY <2>1, <2>2
<1> QED
  BY <1>6, <1>8 DEF StageEvidence, config

(* A step that leaves the logs, the initiators and the states alone, and   *)
(* touches no verdict already consumed, keeps all evidence.                *)
LEMMA QuietEvidence ==
  ASSUME TypeOK, StageEvidence, UNCHANGED <<admin, roles, seq, history>>,
         \A i \in 1 .. seq :
           /\ transfer'[i].state = transfer[i].state
           /\ transfer'[i].initiator = transfer[i].initiator
           /\ transfer[i].state \in Verified =>
                 transfer'[i].verification_ok = transfer[i].verification_ok
           /\ transfer[i].state \in Attested =>
                 transfer'[i].oracle_ok = transfer[i].oracle_ok
  PROVE  StageEvidence'
<1>1. Privileged' = Privileged
  BY DEF Privileged
<1>2. ASSUME NEW i \in 1 .. seq
      PROVE  (Waived(i)' <=> Waived(i)) /\ (Escrowed(i)' <=> Escrowed(i))
  BY <1>1, <1>2 DEF Waived, Escrowed
<1>3. ASSUME NEW i \in 1 .. seq PROVE Justified(i)'
  <2>1. Justified(i)
    BY DEF StageEvidence
  <2> QED
    BY <1>2, <2>1, Zenon DEF Justified, Verified, Attested
<1> QED
  BY <1>1, <1>3 DEF StageEvidence

(* What transition_allowed demands of a record before a stage is entered.  *)
LEMMA TransitionNeeds ==
  ASSUME NEW t, NEW to, TransitionAllowed(t, to)
  PROVE  /\ to \in Locked => t.state \in Locked
                            \/ (t.state = "EscrowPending" /\ to = "EscrowLocked")
         /\ to \in Verified => t.state \in Verified \/ t.verification_ok
         /\ to \in Attested => t.state \in Attested \/ t.oracle_ok
<1>1. to \in Locked => t.state \in Locked \/ (t.state = "EscrowPending" /\ to = "EscrowLocked")
  BY DEF TransitionAllowed, LeavesTimed, Locked
<1>2. to \in Verified => t.state \in Verified \/ t.verification_ok
  BY DEF TransitionAllowed, LeavesTimed, Verified
<1>3. to \in Attested => t.state \in Attested \/ t.oracle_ok
  BY DEF TransitionAllowed, LeavesTimed, Attested
<1> QED
  BY <1>1, <1>2, <1>3

(* Every step keeps the evidence of every stage.                           *)
LEMMA EvidenceStep == TypeOK /\ StageEvidence /\ [Next]_vars => StageEvidence'
<1> SUFFICES ASSUME TypeOK, StageEvidence, [Next]_vars PROVE StageEvidence'
  OBVIOUS
<1>1. ASSUME NEW caller \in Address, Configure(caller) PROVE StageEvidence'
  <2>1. CASE Initialize(caller)
    <3>1. admin' = caller /\ roles'.escrow = caller /\ caller # NoAddress
      BY <2>1, ConstantsAssumption DEF Initialize, SameRole
    <3>2. seq' = 0
      BY <2>1 DEF Initialize, StageEvidence, TypeOK
    <3> QED
      BY <3>1, <3>2 DEF StageEvidence, Privileged
  <2>2. ASSUME NEW r \in RoleChoices, SetIntegrationContracts(caller, r)
        PROVE  StageEvidence'
    <3>1. roles'.escrow \in Privileged /\ Privileged' = Privileged
      BY <2>2 DEF SetIntegrationContracts, Privileged
    <3>2. ASSUME NEW i \in 1 .. seq PROVE Justified(i)'
      BY <2>2, <3>1 DEF SetIntegrationContracts, StageEvidence, Justified, Waived, Escrowed
    <3> QED
      BY <2>2, <3>1, <3>2 DEF SetIntegrationContracts, StageEvidence
  <2>3. ASSUME NEW secs \in TimeoutChoices, SetDefaultTimeout(caller, secs)
        PROVE  StageEvidence'
    BY <2>3, QuietEvidence DEF SetDefaultTimeout
  <2>4. ASSUME NEW s \in Configurable, NEW secs \in TimeoutChoices,
               SetStateTimeout(caller, s, secs)
        PROVE  StageEvidence'
    BY <2>4, QuietEvidence DEF SetStateTimeout
  <2> QED
    BY <1>1, <2>1, <2>2, <2>3, <2>4 DEF Configure
<1>2. ASSUME NEW caller \in Address, NEW mode \in TransferMode, InitiateTransfer(caller, mode)
      PROVE  StageEvidence'
  <2>1. seq \in Nat /\ seq' = seq + 1 /\ admin # NoAddress /\ UNCHANGED <<admin, roles>>
    BY <1>2 DEF InitiateTransfer, config, TypeOK
  <2>2. \A i \in 1 .. seq : transfer'[i] = transfer[i] /\ history'[i] = history[i]
    BY <1>2, <2>1 DEF InitiateTransfer
  <2>3. transfer'[seq + 1].state = "Initiated"
    BY <1>2, <2>1 DEF InitiateTransfer
  <2>4. Privileged' = Privileged
    BY <2>1 DEF Privileged
  <2>5. ASSUME NEW i \in 1 .. seq
        PROVE  (Waived(i)' <=> Waived(i)) /\ (Escrowed(i)' <=> Escrowed(i))
    BY <2>2, <2>4, <2>5 DEF Waived, Escrowed
  <2>6. ASSUME NEW i \in 1 .. seq'
        PROVE  Justified(i)'
    <3>1. CASE i = seq + 1
      BY <2>3, <3>1 DEF Justified, Locked, Verified, Attested
    <3>2. CASE i \in 1 .. seq
      BY <2>2, <2>5, <3>2, Zenon DEF StageEvidence, Justified
    <3> QED
      BY <2>1, <3>1, <3>2
  <2> QED
    BY <2>1, <2>4, <2>6 DEF StageEvidence
<1>3. ASSUME NEW caller \in Address, NEW id \in Ids, Step(caller, id) PROVE StageEvidence'
  <2>1. ASSUME NEW to \in TransferState, AdvanceState(caller, id, to) PROVE StageEvidence'
    <3>1. id \in 1 .. seq /\ "advance" \in Via
      BY <2>1 DEF AdvanceState, Via
    <3>2. CASE Waived(id)
      BY <2>1, <3>1, <3>2, ApplyTransitionEvidence DEF AdvanceState
    <3>3. CASE ~ Waived(id)
      <4>1. /\ transfer[id].state \in Locked => Escrowed(id)
            /\ transfer[id].state \in Verified => transfer[id].verification_ok
            /\ transfer[id].state \in Attested => transfer[id].oracle_ok
        BY <3>1, <3>3, Zenon DEF StageEvidence, Justified
      <4>2. /\ to \in Locked => transfer[id].state \in Locked
                                \/ (transfer[id].state = "EscrowPending" /\ to = "EscrowLocked")
            /\ to \in Verified => transfer[id].state \in Verified \/ transfer[id].verification_ok
            /\ to \in Attested => transfer[id].state \in Attested \/ transfer[id].oracle_ok
        BY <2>1, TransitionNeeds DEF AdvanceState
      <4>3. to = "EscrowLocked" /\ transfer[id].state = "EscrowPending" => caller \in Privileged
        <5>1. roles.escrow \in Privileged /\ admin \in Privileged
          BY <3>1 DEF TypeOK, StageEvidence, Privileged
        <5> QED
          BY <2>1, <5>1 DEF AdvanceState, AdvanceAuthorized
      <4>4. /\ to \in Locked =>
                  \/ Escrowed(id)
                  \/ /\ to = "EscrowLocked"
                     /\ \/ caller # transfer[id].initiator
                        \/ transfer[id].initiator \in Privileged
            /\ to \in Verified => transfer[id].verification_ok
            /\ to \in Attested => transfer[id].oracle_ok
        BY <4>1, <4>2, <4>3, Zenon
      <4> QED
        BY <2>1, <3>1, <4>4, ApplyTransitionEvidence DEF AdvanceState
    <3> QED
      BY <3>2, <3>3
  <2>2. CASE RollbackTransfer(caller, id)
    <3>1. id \in 1 .. seq
      BY <2>2 DEF RollbackTransfer
    <3>2. transfer'[id].state = "RolledBack"
      BY <2>2, <3>1 DEF RollbackTransfer, TypeOK, Transfer, Moved
    <3>3. \A i \in 1 .. seq : i # id => transfer'[i] = transfer[i] /\ history'[i] = history[i]
      BY <2>2 DEF RollbackTransfer, TypeOK
    <3>4. Privileged' = Privileged
      BY <2>2 DEF RollbackTransfer, Privileged, config
    <3>5. ASSUME NEW i \in 1 .. seq, i # id
          PROVE  (Waived(i)' <=> Waived(i)) /\ (Escrowed(i)' <=> Escrowed(i))
      BY <3>3, <3>4, <3>5 DEF Waived, Escrowed
    <3> QED
      BY <2>2, <3>2, <3>3, <3>4, <3>5
         DEF RollbackTransfer, StageEvidence, Justified, config, Locked, Verified, Attested
  <2>3. ASSUME NEW to \in TransferState, AdminOverrideState(caller, id, to)
        PROVE  StageEvidence'
    BY <2>3, ApplyTransitionEvidence DEF AdminOverrideState, Via
  <2>4. ASSUME NEW ok \in BOOLEAN, SubmitVerificationResult(caller, id, ok)
        PROVE  StageEvidence'
    BY <2>4, QuietEvidence
       DEF SubmitVerificationResult, TypeOK, Transfer, config, Verified, Attested
  <2>5. ASSUME NEW ok \in BOOLEAN, SubmitOracleResult(caller, id, ok)
        PROVE  StageEvidence'
    BY <2>5, QuietEvidence
       DEF SubmitOracleResult, TypeOK, Transfer, config, Verified, Attested
  <2> QED
    BY <1>3, <2>1, <2>2, <2>3, <2>4, <2>5 DEF Step
<1>4. ASSUME NEW id \in Ids, HandleTimeout(id) PROVE StageEvidence'
  <2>1. /\ id \in 1 .. seq /\ transfer[id].initiator \in Address
        /\ "TimedOut" \in TransferState /\ "timeout" \in Via
        /\ "TimedOut" \notin Locked \cup Verified \cup Attested
    BY <1>4 DEF HandleTimeout, TypeOK, Transfer, TransferState, Via, Locked, Verified, Attested
  <2> QED
    BY <1>4, <2>1, ApplyTransitionEvidence DEF HandleTimeout
<1>5. ASSUME NEW id \in Ids, TryAutoProgress(id) PROVE StageEvidence'
  <2>1. id \in 1 .. seq /\ transfer[id].initiator \in Address /\ "auto" \in Via
    BY <1>5 DEF TryAutoProgress, TypeOK, Transfer, Via
  <2>2. PICK to \in AutoNext(transfer[id]) :
          ApplyTransition(id, to, transfer[id].initiator, "auto")
    BY <1>5 DEF TryAutoProgress
  <2>3. /\ to \in TransferState
        /\ transfer[id].state \in Locked
        /\ transfer[id].state \in Verified \/ transfer[id].verification_ok
        /\ to \in Attested => transfer[id].oracle_ok
    BY <2>2 DEF AutoNext, TransferState, Locked, Verified, Attested
  <2>4. \/ Waived(id)
        \/ /\ to \in Locked => Escrowed(id)
           /\ to \in Verified => transfer[id].verification_ok
           /\ to \in Attested => transfer[id].oracle_ok
    BY <2>1, <2>3, Zenon DEF StageEvidence, Justified
  <2> QED
    BY <1>5, <2>1, <2>2, <2>3, <2>4, ApplyTransitionEvidence DEF TryAutoProgress
<1>6. CASE Tick
  <2>1. \A i \in 1 .. seq :
          /\ transfer'[i].state = transfer[i].state
          /\ transfer'[i].initiator = transfer[i].initiator
          /\ transfer'[i].verification_ok = transfer[i].verification_ok
          /\ transfer'[i].oracle_ok = transfer[i].oracle_ok
    BY <1>6 DEF Tick, TypeOK, Transfer
  <2> QED
    BY <1>6, <2>1, QuietEvidence DEF Tick, config
<1>7. CASE UNCHANGED vars
  BY <1>7, QuietEvidence DEF vars
<1>8. CASE Next
  BY <1>1, <1>2, <1>3, <1>4, <1>5, <1>6, <1>8, Zenon DEF Next
<1> QED
  BY <1>7, <1>8

(* Every stage of the happy path keeps the evidence of those before it,    *)
(* however the integration contracts are rewired and whatever overrides    *)
(* come between.                                                           *)
THEOREM StagesAreJustified == Spec => []StageEvidence
<1>1. Init => StageEvidence
  BY DEF Init, StageEvidence
<1> QED
  BY <1>1, EvidenceStep, TypeCorrect, PTL DEF Spec

(* Released or completed funds rest on a third party's lock and on both    *)
(* verdicts, or on an administrator's override: the stage invariant is     *)
(* inductive and implies it.                                               *)
THEOREM EvidenceCorrect == Spec => [](StageEvidence /\ SettlementEvidence)
<1>1. StageEvidence => SettlementEvidence
  <2> SUFFICES ASSUME StageEvidence, NEW id \in 1 .. seq,
                      transfer[id].state \in {"ReleasePending", "Completed"}
               PROVE  \/ Escrowed(id) /\ transfer[id].verification_ok /\ transfer[id].oracle_ok
                      \/ Waived(id)
    BY DEF SettlementEvidence
  <2>1. transfer[id].state \in Locked \cap Verified \cap Attested
    BY DEF Locked, Verified, Attested
  <2> QED
    BY <2>1, Zenon DEF StageEvidence, Justified
<1> QED
  BY <1>1, StagesAreJustified, PTL

-----------------------------------------------------------------------------
(* Finality.                                                               *)

FinalStates == {"Completed", "Failed", "RolledBack"}

(* No edge of transition_allowed leaves a final state.                     *)
LEMMA FinalHasNoEdge ==
  ASSUME NEW t, NEW to, t.state \in FinalStates
  PROVE  ~ TransitionAllowed(t, to)
BY DEF FinalStates, TransitionAllowed, LeavesTimed, Timed

(* A step on one transfer moves no other.                                  *)
LEMMA FinalStep ==
  ASSUME TypeOK, Next, NEW i \in 1 .. seq, transfer[i].state \in FinalStates
  PROVE  transfer'[i].state = transfer[i].state
<1>1. ASSUME NEW caller \in Address, Configure(caller) PROVE transfer' = transfer
  BY <1>1 DEF Configure, Initialize, SetIntegrationContracts, SetDefaultTimeout, SetStateTimeout
<1>2. ASSUME NEW caller \in Address, NEW mode \in TransferMode, InitiateTransfer(caller, mode)
      PROVE  transfer'[i] = transfer[i]
  BY <1>2 DEF InitiateTransfer, TypeOK
<1>3. ASSUME NEW id \in 1 .. seq, NEW to \in TransferState, NEW actor, NEW via,
             transfer[id].state \notin FinalStates, ApplyTransition(id, to, actor, via)
      PROVE  transfer'[i] = transfer[i]
  BY <1>3 DEF ApplyTransition, TypeOK
<1>4. ASSUME NEW caller \in Address, NEW id \in Ids, Step(caller, id)
      PROVE  transfer'[i].state = transfer[i].state
  <2>1. ASSUME NEW to \in TransferState, AdvanceState(caller, id, to)
        PROVE  transfer'[i] = transfer[i]
    BY <1>3, <2>1, FinalHasNoEdge DEF AdvanceState
  <2>2. CASE RollbackTransfer(caller, id)
    BY <2>2 DEF RollbackTransfer, TypeOK, IsTerminal, FinalStates
  <2>3. ASSUME NEW to \in TransferState, AdminOverrideState(caller, id, to)
        PROVE  transfer'[i] = transfer[i]
    BY <1>3, <2>3 DEF AdminOverrideState, Overridable, FinalStates
  <2>4. ASSUME NEW ok \in BOOLEAN, SubmitVerificationResult(caller, id, ok)
        PROVE  transfer'[i].state = transfer[i].state
    BY <2>4 DEF SubmitVerificationResult, TypeOK, Transfer
  <2>5. ASSUME NEW ok \in BOOLEAN, SubmitOracleResult(caller, id, ok)
        PROVE  transfer'[i].state = transfer[i].state
    BY <2>5 DEF SubmitOracleResult, TypeOK, Transfer
  <2> QED
    BY <1>4, <2>1, <2>2, <2>3, <2>4, <2>5 DEF Step
<1>5. ASSUME NEW id \in Ids, HandleTimeout(id) PROVE transfer'[i] = transfer[i]
  BY <1>3, <1>5, FinalHasNoEdge DEF HandleTimeout, TransferState
<1>6. ASSUME NEW id \in Ids, TryAutoProgress(id) PROVE transfer'[i] = transfer[i]
  <2>1. PICK to \in AutoNext(transfer[id]) :
          /\ TransitionAllowed(transfer[id], to)
          /\ ApplyTransition(id, to, transfer[id].initiator, "auto")
    BY <1>6 DEF TryAutoProgress
  <2>2. to \in TransferState /\ id \in 1 .. seq
    BY <1>6 DEF AutoNext, TransferState, TryAutoProgress
  <2> QED
    BY <1>3, <2>1, <2>2, FinalHasNoEdge
<1>7. CASE Tick
  BY <1>7 DEF Tick, TypeOK, Transfer
<1> QED
  BY <1>1, <1>2, <1>4, <1>5, <1>6, <1>7, Zenon DEF Next

(* Completed, Failed and RolledBack are never left, although the override  *)
(* table has an edge out of Failed.                                        *)
THEOREM FinalityCorrect == Spec => FinalOutcomeIrrevocable
<1> DEFINE Keeps == \A id \in 1 .. seq :
                      transfer[id].state \in {"Completed", "Failed", "RolledBack"} =>
                        transfer'[id].state = transfer[id].state
<1>1. TypeOK /\ [Next]_vars => [Keeps]_vars
  BY FinalStep DEF FinalStates
<1> QED
  BY <1>1, TypeCorrect, PTL DEF Spec, FinalOutcomeIrrevocable

-----------------------------------------------------------------------------
(* The audit trail.                                                        *)

\* The rows of a log form one path from Initiated to s.
Path(log, s) ==
  /\ s = IF log = <<>> THEN "Initiated" ELSE log[Len(log)].to
  /\ \A i \in 1 .. Len(log) : log[i].from = IF i = 1 THEN "Initiated" ELSE log[i - 1].to

(* A row that starts where the path ended extends it.                      *)
LEMMA PathExtends ==
  ASSUME NEW log \in Seq(Entry), NEW s, Path(log, s), NEW e \in Entry, e.from = s
  PROVE  Append(log, e) \in Seq(Entry) /\ Path(Append(log, e), e.to)
<1> DEFINE new == Append(log, e)
<1>1. /\ new \in Seq(Entry) /\ Len(new) = Len(log) + 1 /\ new # <<>>
      /\ new[Len(log) + 1] = e /\ \A i \in 1 .. Len(log) : new[i] = log[i]
  BY AppendProperties
<1>2. Len(log) \in Nat /\ (log = <<>> <=> Len(log) = 0)
  BY EmptySeq
<1> HIDE DEF new
<1>3. ASSUME NEW i \in 1 .. Len(new)
      PROVE  new[i].from = IF i = 1 THEN "Initiated" ELSE new[i - 1].to
  <2>1. CASE i = Len(log) + 1
    BY <1>1, <1>2, <2>1 DEF Path
  <2>2. CASE i # Len(log) + 1
    <3>1. i \in 1 .. Len(log) /\ (i # 1 => i - 1 \in 1 .. Len(log))
      BY <1>1, <1>2, <2>2
    <3>2. new[i] = log[i] /\ (i # 1 => new[i - 1] = log[i - 1])
      BY <1>1, <3>1
    <3> QED
      BY <3>1, <3>2 DEF Path
  <2> QED
    BY <2>1, <2>2
<1>4. e.to = IF new = <<>> THEN "Initiated" ELSE new[Len(new)].to
  BY <1>1
<1>5. Path(new, e.to)
  BY <1>3, <1>4 DEF Path
<1> QED
  BY <1>1, <1>5 DEF new

(* The trail property, log by log.                                         *)
LEMMA HistoryIsPaths == HistoryExplainsState <=> \A id \in 1 .. seq : Path(history[id], transfer[id].state)
  BY DEF HistoryExplainsState, Path

(* Both a path and its end move, or neither does.                          *)
LEMMA PathKept ==
  ASSUME TypeOK, HistoryExplainsState, NEW id \in 1 .. seq, seq' = seq,
         Path(history'[id], transfer'[id].state),
         \A i \in 1 .. seq : i # id => history'[i] = history[i] /\ transfer'[i].state = transfer[i].state
  PROVE  HistoryExplainsState'
<1>1. ASSUME NEW i \in 1 .. seq PROVE Path(history'[i], transfer'[i].state)
  <2>1. CASE i = id
    BY <2>1
  <2>2. CASE i # id
    <3>1. history'[i] = history[i] /\ transfer'[i].state = transfer[i].state
      BY <2>2
    <3>2. Path(history[i], transfer[i].state)
      BY HistoryIsPaths
    <3> QED
      BY <3>1, <3>2
  <2> QED
    BY <2>1, <2>2
<1> QED
  BY <1>1, HistoryIsPaths DEF HistoryExplainsState, Path

(* apply_transition writes a row that starts where the log ended.          *)
LEMMA ApplyTransitionPath ==
  ASSUME TypeOK, HistoryExplainsState, NEW id \in 1 .. seq, NEW to \in TransferState,
         NEW actor \in Address, NEW via \in Via,
         ApplyTransition(id, to, actor, via), UNCHANGED <<config, seq>>
  PROVE  HistoryExplainsState'
<1> DEFINE e == LogEntry(transfer[id], to, actor, via)
<1>1. e \in Entry /\ e.to = to /\ e.from = transfer[id].state
  BY LogEntryType DEF TypeOK, LogEntry
<1>2. /\ history' = [history EXCEPT ![id] = Append(@, e)]
      /\ transfer' = [transfer EXCEPT ![id] = Moved(@, to)]
  BY DEF ApplyTransition
<1> HIDE DEF e
<1>3. transfer'[id].state = to /\ history'[id] = Append(history[id], e)
  BY <1>2 DEF TypeOK, Transfer, Moved
<1>4. \A i \in 1 .. seq : i # id => history'[i] = history[i] /\ transfer'[i] = transfer[i]
  BY <1>2 DEF TypeOK
<1>5. history[id] \in Seq(Entry) /\ Path(history[id], transfer[id].state)
  BY HistoryIsPaths DEF TypeOK
<1>6. Path(history'[id], transfer'[id].state)
  BY <1>1, <1>3, <1>5, PathExtends
<1> QED
  BY <1>4, <1>6, PathKept DEF config

(* The second row of a rollback starts where its first one ended.          *)
LEMMA RollbackPath ==
  ASSUME TypeOK, HistoryExplainsState, NEW caller \in Address, NEW id \in Ids,
         RollbackTransfer(caller, id)
  PROVE  HistoryExplainsState'
<1>0. id \in 1 .. seq /\ seq' = seq
  BY DEF RollbackTransfer
<1>1. transfer[id] \in Transfer /\ history[id] \in Seq(Entry) /\ Path(history[id], transfer[id].state)
  BY <1>0, HistoryIsPaths DEF TypeOK
<1>2. "RollingBack" \in TransferState /\ "RolledBack" \in TransferState /\ "rollback" \in Via
  BY DEF TransferState, Via
<1> DEFINE mid == Moved(transfer[id], "RollingBack")
           e1 == LogEntry(transfer[id], "RollingBack", caller, "rollback")
           e2 == LogEntry(mid, "RolledBack", caller, "rollback")
<1>3. mid \in Transfer /\ mid.state = "RollingBack"
  BY <1>1, <1>2, MovedType DEF Moved, Transfer
<1>4. e1 \in Entry /\ e1.from = transfer[id].state /\ e1.to = "RollingBack"
  BY <1>1, <1>2, LogEntryType DEF LogEntry
<1>5. e2 \in Entry /\ e2.from = "RollingBack" /\ e2.to = "RolledBack"
  BY <1>2, <1>3, LogEntryType DEF LogEntry
<1>6. /\ history' = [history EXCEPT ![id] = @ \o <<e1, e2>>]
      /\ transfer' = [transfer EXCEPT ![id] = Moved(mid, "RolledBack")]
  BY DEF RollbackTransfer, RollbackRows
<1>7. transfer'[id].state = "RolledBack"
  BY <1>0, <1>3, <1>6 DEF TypeOK, Transfer, Moved
<1> HIDE DEF e1, e2, mid
<1>8. \A i \in 1 .. seq : i # id => history'[i] = history[i] /\ transfer'[i] = transfer[i]
  BY <1>6 DEF TypeOK
<1>9. history'[id] = Append(Append(history[id], e1), e2)
  BY <1>0, <1>1, <1>4, <1>5, <1>6 DEF TypeOK
<1>10. Append(history[id], e1) \in Seq(Entry) /\ Path(Append(history[id], e1), "RollingBack")
  BY <1>1, <1>4, PathExtends
<1>11. Path(history'[id], transfer'[id].state)
  BY <1>5, <1>7, <1>9, <1>10, PathExtends
<1> QED
  BY <1>0, <1>8, <1>11, PathKept

(* Every step keeps the trails of all transfers.                           *)
LEMMA HistoryStep == TypeOK /\ HistoryExplainsState /\ [Next]_vars => HistoryExplainsState'
<1> SUFFICES ASSUME TypeOK, HistoryExplainsState, [Next]_vars PROVE HistoryExplainsState'
  OBVIOUS
<1>q. ASSUME UNCHANGED <<seq, history>>, \A i \in 1 .. seq : transfer'[i].state = transfer[i].state
      PROVE  HistoryExplainsState'
  BY <1>q DEF HistoryExplainsState
<1>1. ASSUME NEW caller \in Address, Configure(caller) PROVE HistoryExplainsState'
  BY <1>1, <1>q DEF Configure, Initialize, SetIntegrationContracts, SetDefaultTimeout, SetStateTimeout
<1>2. ASSUME NEW caller \in Address, NEW mode \in TransferMode, InitiateTransfer(caller, mode)
      PROVE  HistoryExplainsState'
  <2>1. seq \in Nat /\ seq' = seq + 1
    BY <1>2 DEF InitiateTransfer, TypeOK
  <2>2. \A i \in 1 .. seq : transfer'[i] = transfer[i] /\ history'[i] = history[i]
    BY <1>2, <2>1 DEF InitiateTransfer
  <2>3. transfer'[seq + 1].state = "Initiated" /\ history'[seq + 1] = <<>>
    BY <1>2, <2>1 DEF InitiateTransfer
  <2>4. ASSUME NEW i \in 1 .. seq' PROVE Path(history'[i], transfer'[i].state)
    <3>1. CASE i = seq + 1
      BY <2>3, <3>1 DEF Path
    <3>2. CASE i # seq + 1
      <4>1. i \in 1 .. seq
        BY <2>1, <3>2
      <4>2. Path(history[i], transfer[i].state)
        BY <4>1, HistoryIsPaths
      <4> QED
        BY <2>2, <4>1, <4>2
    <3> QED
      BY <3>1, <3>2
  <2> QED
    BY <2>4 DEF HistoryExplainsState, Path
<1>3. ASSUME NEW caller \in Address, NEW id \in Ids, Step(caller, id) PROVE HistoryExplainsState'
  <2>1. ASSUME NEW to \in TransferState, AdvanceState(caller, id, to) PROVE HistoryExplainsState'
    BY <2>1, ApplyTransitionPath DEF AdvanceState, Via
  <2>2. ASSUME NEW to \in TransferState, AdminOverrideState(caller, id, to) PROVE HistoryExplainsState'
    BY <2>2, ApplyTransitionPath DEF AdminOverrideState, Via
  <2>3. ASSUME NEW ok \in BOOLEAN, SubmitVerificationResult(caller, id, ok) PROVE HistoryExplainsState'
    BY <2>3, <1>q DEF SubmitVerificationResult, TypeOK, Transfer
  <2>4. ASSUME NEW ok \in BOOLEAN, SubmitOracleResult(caller, id, ok) PROVE HistoryExplainsState'
    BY <2>4, <1>q DEF SubmitOracleResult, TypeOK, Transfer
  <2> QED
    BY <1>3, <2>1, <2>2, <2>3, <2>4, RollbackPath DEF Step
<1>4. ASSUME NEW id \in Ids, HandleTimeout(id) PROVE HistoryExplainsState'
  <2>1. id \in 1 .. seq /\ transfer[id].initiator \in Address
    BY <1>4 DEF HandleTimeout, TypeOK, Transfer
  <2> QED
    BY <1>4, <2>1, ApplyTransitionPath DEF HandleTimeout, Via, TransferState
<1>5. ASSUME NEW id \in Ids, TryAutoProgress(id) PROVE HistoryExplainsState'
  <2>1. id \in 1 .. seq /\ transfer[id].initiator \in Address
    BY <1>5 DEF TryAutoProgress, TypeOK, Transfer
  <2>2. PICK to \in AutoNext(transfer[id]) :
          ApplyTransition(id, to, transfer[id].initiator, "auto")
    BY <1>5 DEF TryAutoProgress
  <2>3. to \in TransferState /\ "auto" \in Via
    BY DEF AutoNext, TransferState, Via
  <2> QED
    BY <1>5, <2>1, <2>2, <2>3, ApplyTransitionPath DEF TryAutoProgress
<1>6. CASE Tick
  BY <1>6, <1>q DEF Tick, TypeOK, Transfer
<1>7. CASE UNCHANGED vars
  BY <1>7, <1>q DEF vars
<1>8. CASE Next
  BY <1>1, <1>2, <1>3, <1>4, <1>5, <1>6, <1>8, Zenon DEF Next
<1> QED
  BY <1>7, <1>8

(* The audit trail is one path from Initiated to the stored state, for any *)
(* number of transfers and any bound on the trail, whichever entry points  *)
(* wrote its rows.                                                         *)
THEOREM HistoryCorrect == Spec => []HistoryExplainsState
<1>1. Init => HistoryExplainsState
  BY DEF Init, HistoryExplainsState
<1> QED
  BY <1>1, HistoryStep, TypeCorrect, PTL DEF Spec

-----------------------------------------------------------------------------
(* The contract implements TransferSettlement.                             *)

Ground == {"escrowed", "verified", "attested", "waived"}

(* What a log witnesses after a transition, exactly.                       *)
LEMMA LogGains ==
  ASSUME TypeOK, NEW id \in 1 .. seq, NEW e \in Entry,
         history' = [history EXCEPT ![id] = Append(@, e)],
         transfer'[id].initiator = transfer[id].initiator, UNCHANGED admin
  PROVE  /\ Waived(id)' <=> Waived(id) \/ e.via = "override"
         /\ Escrowed(id) => Escrowed(id)'
         /\ Escrowed(id)' => Escrowed(id) \/ (e.to = "EscrowLocked" /\ e.via = "advance")
<1> DEFINE log == history[id]
           new == Append(log, e)
<1>1. log \in Seq(Entry) /\ history'[id] = new
  BY DEF TypeOK
<1>2. /\ \A i \in 1 .. Len(new) : (i \in 1 .. Len(log) /\ new[i] = log[i]) \/ new[i] = e
  BY <1>1, AppendProperties, LenProperties
<1> HIDE DEF new
<1>3. Privileged' = Privileged
  BY DEF Privileged
<1>4. Waived(id)' => Waived(id) \/ e.via = "override"
  BY <1>1, <1>2, Zenon DEF Waived
<1>5. Escrowed(id)' => Escrowed(id) \/ (e.to = "EscrowLocked" /\ e.via = "advance")
  <2> SUFFICES ASSUME Escrowed(id)', ~ (e.to = "EscrowLocked" /\ e.via = "advance")
               PROVE  Escrowed(id)
    OBVIOUS
  <2>1. PICK i \in 1 .. Len(new) :
          /\ new[i].to = "EscrowLocked" /\ new[i].via = "advance"
          /\ new[i].actor # transfer[id].initiator \/ transfer[id].initiator \in Privileged
    BY <1>1, <1>3, Zenon DEF Escrowed
  <2>2. i \in 1 .. Len(log) /\ log[i] = new[i]
    BY <1>2, <2>1
  <2> QED
    BY <2>1, <2>2 DEF Escrowed
<1> QED
  BY <1>4, <1>5, LogWitness

(* The grounds of a transfer, one by one.                                  *)
LEMMA GroundsAre ==
  ASSUME TypeOK, NEW id \in 1 .. seq
  PROVE  /\ grounds[id] \subseteq Ground
         /\ "escrowed" \in grounds[id] <=> Escrowed(id)
         /\ "verified" \in grounds[id] <=> transfer[id].verification_ok
         /\ "attested" \in grounds[id] <=> transfer[id].oracle_ok
         /\ "waived" \in grounds[id] <=> Waived(id)
<1>1. id \in Ids
  BY ConstantsAssumption DEF Ids, TypeOK
<1>2. grounds[id] = Grounds(id)
  BY <1>1 DEF grounds
<1> QED
  BY <1>2, Zenon DEF Grounds, Ground

(* The same after a step.                                                  *)
LEMMA GroundsBecome ==
  ASSUME TypeOK, NEW id \in 1 .. seq, seq' = seq
  PROVE  /\ grounds'[id] \subseteq Ground
         /\ "escrowed" \in grounds'[id] <=> Escrowed(id)'
         /\ "verified" \in grounds'[id] <=> transfer'[id].verification_ok
         /\ "attested" \in grounds'[id] <=> transfer'[id].oracle_ok
         /\ "waived" \in grounds'[id] <=> Waived(id)'
<1>1. id \in Ids
  BY ConstantsAssumption DEF Ids, TypeOK
<1> DEFINE E == \E i \in 1 .. Len(history'[id]) :
                  /\ history'[id][i].to = "EscrowLocked"
                  /\ history'[id][i].via = "advance"
                  /\ \/ history'[id][i].actor # transfer'[id].initiator
                     \/ transfer'[id].initiator \in {admin'} \cup {r.escrow : r \in RoleChoices}
           W == \E i \in 1 .. Len(history'[id]) : history'[id][i].via = "override"
           V == transfer'[id].verification_ok
           O == transfer'[id].oracle_ok
<1>2. \A g : g \in grounds'[id] <=>
        /\ g \in {"escrowed", "verified", "attested", "waived"}
        /\ \/ g = "escrowed" /\ E
           \/ g = "verified" /\ V
           \/ g = "attested" /\ O
           \/ g = "waived"   /\ W
  BY <1>1, Zenon DEF grounds, Grounds, Escrowed, Waived, Privileged
<1>3. Escrowed(id)' <=> E
  BY Zenon DEF Escrowed, Privileged
<1>4. Waived(id)' <=> W
  BY Zenon DEF Waived
<1> HIDE DEF E, W, V, O
<1>5. /\ grounds'[id] \subseteq Ground
      /\ "escrowed" \in grounds'[id] <=> E
      /\ "verified" \in grounds'[id] <=> V
      /\ "attested" \in grounds'[id] <=> O
      /\ "waived" \in grounds'[id] <=> W
  BY <1>2 DEF Ground
<1> QED
  BY <1>3, <1>4, <1>5, Zenon DEF V, O

(* A step on one transfer moves that transfer of the promise alone.        *)
LEMMA OneMoves ==
  ASSUME TypeOK, NEW id \in 1 .. seq, seq' = seq,
         \A i \in 1 .. seq : i # id => transfer'[i].state = transfer[i].state /\ grounds'[i] = grounds[i]
  PROVE  Settlement!Move(id, Outcome(transfer'[id].state), grounds'[id])
<1>1. 1 .. seq \subseteq Ids
  BY ConstantsAssumption DEF Ids, TypeOK
<1> DEFINE o == Outcome(transfer'[id].state)
           g == grounds'[id]
<1>2. ASSUME NEW i \in Ids PROVE outcome'[i] = [outcome EXCEPT ![id] = o][i]
  BY <1>1, Zenon DEF outcome
<1>3. ASSUME NEW i \in Ids PROVE grounds'[i] = [grounds EXCEPT ![id] = g][i]
  BY <1>1, Zenon DEF grounds
<1>4. outcome' = [outcome EXCEPT ![id] = o]
  BY <1>2, Zenon DEF outcome
<1>5. grounds' = [grounds EXCEPT ![id] = g]
  BY <1>3, Zenon DEF grounds
<1> QED
  BY <1>4, <1>5 DEF Settlement!Move

(* The evidence of a transfer whose log and record stay.                   *)
LEMMA GroundsKept ==
  ASSUME TypeOK, NEW i \in 1 .. seq, seq' = seq, history'[i] = history[i], UNCHANGED admin,
         transfer'[i].initiator = transfer[i].initiator,
         transfer'[i].verification_ok = transfer[i].verification_ok,
         transfer'[i].oracle_ok = transfer[i].oracle_ok
  PROVE  grounds'[i] = grounds[i]
<1>1. Privileged' = Privileged
  BY DEF Privileged
<1>2. (Waived(i)' <=> Waived(i)) /\ (Escrowed(i)' <=> Escrowed(i))
  BY <1>1 DEF Waived, Escrowed
<1>3. /\ grounds'[i] \subseteq Ground /\ grounds[i] \subseteq Ground
      /\ "escrowed" \in grounds'[i] <=> "escrowed" \in grounds[i]
      /\ "verified" \in grounds'[i] <=> "verified" \in grounds[i]
      /\ "attested" \in grounds'[i] <=> "attested" \in grounds[i]
      /\ "waived" \in grounds'[i] <=> "waived" \in grounds[i]
  BY <1>2, GroundsAre, GroundsBecome, Zenon
<1>4. \A g \in Ground : g \in grounds'[i] <=> g \in grounds[i]
  BY <1>3, Zenon DEF Ground
<1> QED
  BY <1>3, <1>4

(* What a transition does to the promise.                                  *)
LEMMA TransitionMoves ==
  ASSUME TypeOK, NEW id \in 1 .. seq, NEW to \in TransferState,
         NEW actor \in Address, NEW via \in Via,
         ApplyTransition(id, to, actor, via), UNCHANGED <<config, seq>>
  PROVE  /\ Settlement!Move(id, Outcome(to), grounds'[id])
         /\ grounds'[id] \subseteq Ground /\ grounds[id] \subseteq grounds'[id]
         /\ via # "override" /\ to # "EscrowLocked" => grounds'[id] = grounds[id]
         /\ via = "override" => grounds'[id] = grounds[id] \cup {"waived"}
<1> DEFINE e == LogEntry(transfer[id], to, actor, via)
<1>1. e \in Entry /\ e.to = to /\ e.via = via /\ e.actor = actor
  BY LogEntryType DEF TypeOK, LogEntry
<1>2. /\ history' = [history EXCEPT ![id] = Append(@, e)]
      /\ transfer' = [transfer EXCEPT ![id] = Moved(@, to)]
  BY DEF ApplyTransition
<1> HIDE DEF e
<1>3. /\ transfer'[id].state = to
      /\ transfer'[id].initiator = transfer[id].initiator
      /\ transfer'[id].verification_ok = transfer[id].verification_ok
      /\ transfer'[id].oracle_ok = transfer[id].oracle_ok
  BY <1>2 DEF TypeOK, Transfer, Moved
<1>4. UNCHANGED admin
  BY DEF config
<1>5. /\ Waived(id)' <=> Waived(id) \/ via = "override"
      /\ Escrowed(id) => Escrowed(id)'
      /\ Escrowed(id)' => Escrowed(id) \/ (to = "EscrowLocked" /\ via = "advance")
  BY <1>1, <1>2, <1>3, <1>4, LogGains
<1>6. ASSUME NEW i \in 1 .. seq, i # id
      PROVE  transfer'[i].state = transfer[i].state /\ grounds'[i] = grounds[i]
  <2>1. transfer'[i] = transfer[i] /\ history'[i] = history[i]
    BY <1>2, <1>6 DEF TypeOK
  <2> QED
    BY <1>4, <2>1, GroundsKept
<1>7. Settlement!Move(id, Outcome(to), grounds'[id])
  BY <1>3, <1>6, OneMoves DEF config
<1>8. /\ grounds'[id] \subseteq Ground
      /\ "escrowed" \in grounds'[id] <=> Escrowed(id)'
      /\ "verified" \in grounds'[id] <=> transfer[id].verification_ok
      /\ "attested" \in grounds'[id] <=> transfer[id].oracle_ok
      /\ "waived" \in grounds'[id] <=> Waived(id)'
  BY <1>3, GroundsBecome DEF config
<1> DEFINE new == grounds'[id]
           old == grounds[id]
<1>9. /\ new \subseteq Ground /\ old \subseteq Ground
      /\ "escrowed" \in old => "escrowed" \in new
      /\ "escrowed" \in new => "escrowed" \in old \/ (to = "EscrowLocked" /\ via = "advance")
      /\ ("verified" \in new <=> "verified" \in old) /\ ("attested" \in new <=> "attested" \in old)
      /\ "waived" \in new <=> "waived" \in old \/ via = "override"
  <2> HIDE DEF new
  <2> QED
    BY <1>5, <1>8, GroundsAre, Zenon DEF new
<1> HIDE DEF new, old
<1>v. via = "override" => via # "advance"
  OBVIOUS
<1>10. /\ old \subseteq new
       /\ via # "override" /\ to # "EscrowLocked" => new = old
       /\ via = "override" => new = old \cup {"waived"}
  <2>1. /\ \A g \in Ground : g \in old => g \in new
        /\ via # "override" /\ to # "EscrowLocked" => \A g \in Ground : g \in new => g \in old
        /\ via = "override" => "waived" \in new /\ \A g \in Ground : g \in new => g \in old \/ g = "waived"
    BY <1>9, <1>v, Zenon DEF Ground
  <2> QED
    BY <1>9, <2>1
<1> QED
  BY <1>7, <1>9, <1>10 DEF new, old

(* The outcome the promise sees of a stored transfer.                      *)
LEMMA OutcomeIs ==
  ASSUME NEW id \in 1 .. seq, TypeOK
  PROVE  id \in Ids /\ outcome[id] = Outcome(transfer[id].state)
<1>1. id \in Ids
  BY ConstantsAssumption DEF Ids, TypeOK
<1> QED
  BY <1>1 DEF outcome

OpenStates == {"Initiated", "AwaitingSource", "EscrowPending", "EscrowLocked",
               "VerificationPending", "OraclePending"}

(* The outcome of each lifecycle state.                                    *)
LEMMA Outcomes ==
  /\ \A s \in OpenStates : Outcome(s) = "open"
  /\ Outcome("ReleasePending") = "cleared" /\ Outcome("Completed") = "settled"
  /\ Outcome("TimedOut") = "stalled" /\ Outcome("Failed") = "failed"
  /\ Outcome("RollingBack") = "unwinding" /\ Outcome("RolledBack") = "refunded"
  BY DEF Outcome, OpenStates

(* An edge of transition_allowed is a step of the promise: it gathers      *)
(* evidence, clears on what the stages before it hold, or ends.            *)
LEMMA AllowedSettles ==
  ASSUME TypeOK, StageEvidence, NEW id \in 1 .. seq, NEW to \in TransferState,
         NEW actor \in Address, NEW via \in Via \ {"override"},
         TransitionAllowed(transfer[id], to),
         ApplyTransition(id, to, actor, via), UNCHANGED <<config, seq>>
  PROVE  Settlement!Next
<1> DEFINE s == transfer[id].state
           new == grounds'[id]
           old == grounds[id]
<1>1. /\ Settlement!Move(id, Outcome(to), new)
      /\ new \subseteq Ground /\ old \subseteq new
      /\ to # "EscrowLocked" => new = old
  BY TransitionMoves
<1>2. id \in Ids /\ outcome[id] = Outcome(s) /\ grounds[id] = old /\ grounds'[id] = new
  BY OutcomeIs
<1>3. \/ s \in OpenStates /\ to \in OpenStates
      \/ s = "OraclePending" /\ to = "ReleasePending" /\ transfer[id].oracle_ok
      \/ s = "ReleasePending" /\ to = "Completed"
      \/ s = "RollingBack" /\ to = "RolledBack"
      \/ s \in OpenStates \cup {"ReleasePending"} /\ to \in {"Failed", "TimedOut", "RollingBack"}
  BY DEF TransitionAllowed, LeavesTimed, Timed, OpenStates
<1>4. s = "OraclePending" /\ transfer[id].oracle_ok => Settlement!Sufficient(old)
  <2>1. SUFFICES ASSUME s = "OraclePending", transfer[id].oracle_ok
                 PROVE  Settlement!Sufficient(old)
    OBVIOUS
  <2>2. s \in Locked /\ s \in Verified
    BY <2>1 DEF Locked, Verified
  <2>3. Waived(id) \/ (Escrowed(id) /\ transfer[id].verification_ok)
    BY <2>2, Zenon DEF StageEvidence, Justified
  <2>4. "waived" \in old \/ ("escrowed" \in old /\ "verified" \in old /\ "attested" \in old)
    BY <2>1, <2>3, GroundsAre, Zenon
  <2> HIDE DEF old
  <2> QED
    BY <2>4 DEF Settlement!Sufficient
<1> HIDE DEF new, old
<1>5. CASE s \in OpenStates /\ to \in OpenStates
  <2>1. outcome[id] = "open" /\ Settlement!Move(id, "open", new)
    BY <1>1, <1>2, <1>5, Outcomes
  <2>2. new \in SUBSET Settlement!Ground /\ grounds[id] \cap Settlement!Sticky \subseteq new
    BY <1>1, <1>2 DEF Ground, Settlement!Ground
  <2>3. Settlement!Gather(id)
    BY <2>1, <2>2 DEF Settlement!Gather
  <2> QED
    BY <1>2, <2>3 DEF Settlement!Next
<1>6. CASE s = "OraclePending" /\ to = "ReleasePending" /\ transfer[id].oracle_ok
  <2>1. outcome[id] = "open" /\ Settlement!Move(id, "cleared", old)
    BY <1>1, <1>2, <1>6, Outcomes DEF OpenStates
  <2>2. Settlement!Clear(id)
    BY <1>2, <1>4, <1>6, <2>1 DEF Settlement!Clear
  <2> QED
    BY <1>2, <2>2 DEF Settlement!Next
<1>7. CASE s = "ReleasePending" /\ to = "Completed"
  <2>1. Settlement!Settle(id)
    BY <1>1, <1>2, <1>7, Outcomes DEF Settlement!Settle
  <2> QED
    BY <1>2, <2>1 DEF Settlement!Next
<1>8. CASE s = "RollingBack" /\ to = "RolledBack"
  <2>1. Settlement!Refund(id)
    BY <1>1, <1>2, <1>8, Outcomes DEF Settlement!Refund
  <2> QED
    BY <1>2, <2>1 DEF Settlement!Next
<1>9. CASE s \in OpenStates \cup {"ReleasePending"} /\ to \in {"Failed", "TimedOut", "RollingBack"}
  <2>1. outcome[id] \in {"open", "cleared"} /\ new = grounds[id]
    BY <1>1, <1>2, <1>9, Outcomes
  <2>2. CASE to = "TimedOut"
    <3>1. Settlement!Stall(id)
      BY <1>1, <2>1, <2>2, Outcomes DEF Settlement!Stall
    <3> QED
      BY <1>2, <3>1 DEF Settlement!Next
  <2>3. CASE to \in {"Failed", "RollingBack"}
    <3>1. Settlement!Unwind(id)
      BY <1>1, <2>1, <2>3, Outcomes DEF Settlement!Unwind
    <3> QED
      BY <1>2, <3>1 DEF Settlement!Next
  <2> QED
    BY <1>9, <2>2, <2>3
<1> QED
  BY <1>3, <1>5, <1>6, <1>7, <1>8, <1>9

(* An override waives: it clears, revives or buries with that on record.   *)
LEMMA OverrideSettles ==
  ASSUME TypeOK, StageEvidence, NEW caller \in Address, NEW id \in Ids, NEW to \in TransferState,
         AdminOverrideState(caller, id, to)
  PROVE  Settlement!Next
<1> DEFINE s == transfer[id].state
           new == grounds'[id]
           old == grounds[id]
<1>0. id \in 1 .. seq /\ "override" \in Via
  BY DEF AdminOverrideState, Via
<1>1. /\ Settlement!Move(id, Outcome(to), new)
      /\ new \subseteq Ground /\ new = old \cup {"waived"}
  BY <1>0, TransitionMoves DEF AdminOverrideState
<1>2. id \in Ids /\ outcome[id] = Outcome(s) /\ grounds[id] = old /\ grounds'[id] = new
  BY <1>0, OutcomeIs
<1>3. \/ s = "TimedOut" /\ to \in {"Failed", "RolledBack", "EscrowLocked", "ReleasePending"}
      \/ s = "OraclePending" /\ to = "ReleasePending"
      \/ s = "VerificationPending" /\ to = "OraclePending"
  BY DEF AdminOverrideState, AdminOverrideAllowed, Overridable
<1> HIDE DEF new, old
<1>4. CASE s = "TimedOut" /\ to \in {"Failed", "RolledBack", "EscrowLocked", "ReleasePending"}
  <2>1. Outcome(to) \in {"open", "cleared", "failed", "refunded"} /\ outcome[id] = "stalled"
    BY <1>2, <1>4, Outcomes DEF OpenStates
  <2>2. Settlement!Resolve(id)
    BY <1>1, <1>2, <2>1 DEF Settlement!Resolve
  <2> QED
    BY <1>2, <2>2 DEF Settlement!Next
<1>5. CASE s = "OraclePending" /\ to = "ReleasePending"
  <2>1. outcome[id] = "open" /\ Settlement!Move(id, "cleared", new)
    BY <1>1, <1>2, <1>5, Outcomes DEF OpenStates
  <2>2. Settlement!Sufficient(new)
    BY <1>1 DEF Settlement!Sufficient
  <2>3. Settlement!Clear(id)
    BY <1>1, <1>2, <2>1, <2>2 DEF Settlement!Clear
  <2> QED
    BY <1>2, <2>3 DEF Settlement!Next
<1>6. CASE s = "VerificationPending" /\ to = "OraclePending"
  <2>1. outcome[id] = "open" /\ Settlement!Move(id, "open", new)
    BY <1>1, <1>2, <1>6, Outcomes DEF OpenStates
  <2>2. new \in SUBSET Settlement!Ground /\ grounds[id] \cap Settlement!Sticky \subseteq new
    BY <1>1, <1>2 DEF Ground, Settlement!Ground
  <2>3. Settlement!Gather(id)
    BY <2>1, <2>2 DEF Settlement!Gather
  <2> QED
    BY <1>2, <2>3 DEF Settlement!Next
<1> QED
  BY <1>3, <1>4, <1>5, <1>6

(* Configuration, verdict-free time and failed calls promise nothing new.  *)
LEMMA PromiseStutters ==
  ASSUME TypeOK, UNCHANGED <<admin, seq, history>>,
         \A i \in 1 .. seq :
           /\ transfer'[i].state = transfer[i].state
           /\ transfer'[i].initiator = transfer[i].initiator
           /\ transfer'[i].verification_ok = transfer[i].verification_ok
           /\ transfer'[i].oracle_ok = transfer[i].oracle_ok
  PROVE  UNCHANGED <<outcome, grounds>>
<1>1. \A i \in 1 .. seq : grounds'[i] = grounds[i]
  BY GroundsKept
<1>2. \A i \in Ids : Known(i) <=> i \in 1 .. seq
  OBVIOUS
<1>3. outcome' = outcome
  BY <1>2 DEF outcome
<1>4. \A i \in Ids \ (1 .. seq) : grounds'[i] = {} /\ grounds[i] = {}
  BY DEF grounds, Grounds, Escrowed, Waived, Privileged
<1>5. \A i \in Ids : grounds'[i] = grounds[i]
  BY <1>1, <1>4
<1>6. grounds' = [i \in Ids |-> grounds'[i]] /\ grounds = [i \in Ids |-> grounds[i]]
  BY Zenon DEF grounds, Grounds, Escrowed, Waived, Privileged
<1> HIDE DEF grounds
<1> QED
  BY <1>3, <1>5, <1>6

(* A rollback ends the transfer on the grounds it had.                     *)
LEMMA RollbackSettles ==
  ASSUME TypeOK, NEW caller \in Address, NEW id \in Ids, RollbackTransfer(caller, id)
  PROVE  Settlement!Next
<1>0. id \in 1 .. seq /\ seq' = seq /\ admin' = admin
  BY DEF RollbackTransfer, config
<1>1. transfer[id] \in Transfer /\ history[id] \in Seq(Entry)
  BY <1>0 DEF TypeOK
<1>2. "RollingBack" \in TransferState /\ "RolledBack" \in TransferState /\ "rollback" \in Via
  BY DEF TransferState, Via
<1> DEFINE mid == Moved(transfer[id], "RollingBack")
           e1 == LogEntry(transfer[id], "RollingBack", caller, "rollback")
           e2 == LogEntry(mid, "RolledBack", caller, "rollback")
<1>3. mid \in Transfer
  BY <1>1, <1>2, MovedType
<1>4. e1 \in Entry /\ e1.via = "rollback" /\ e2 \in Entry /\ e2.via = "rollback"
  BY <1>1, <1>2, <1>3, LogEntryType DEF LogEntry
<1>5. /\ history' = [history EXCEPT ![id] = @ \o <<e1, e2>>]
      /\ transfer' = [transfer EXCEPT ![id] = Moved(mid, "RolledBack")]
  BY DEF RollbackTransfer, RollbackRows
<1>6. /\ transfer'[id].state = "RolledBack" /\ transfer'[id].initiator = transfer[id].initiator
      /\ transfer'[id].verification_ok = transfer[id].verification_ok
      /\ transfer'[id].oracle_ok = transfer[id].oracle_ok
  BY <1>0, <1>1, <1>5 DEF TypeOK, Transfer, Moved
<1> HIDE DEF e1, e2, mid
<1>7. \A i \in 1 .. seq : i # id => history'[i] = history[i] /\ transfer'[i] = transfer[i]
  BY <1>5 DEF TypeOK
<1> DEFINE log == history[id]
           new == history'[id]
<1>8. /\ \A i \in 1 .. Len(new) : (i \in 1 .. Len(log) /\ new[i] = log[i]) \/ new[i].via = "rollback"
      /\ \A i \in 1 .. Len(log) : i \in 1 .. Len(new) /\ new[i] = log[i]
  <2>1. new = log \o <<e1, e2>>
    BY <1>0, <1>5 DEF TypeOK
  <2>2. new = Append(Append(log, e1), e2)
    BY <1>1, <1>4, <2>1
  <2> HIDE DEF new, log
  <2>3. log \in Seq(Entry)
    BY <1>1 DEF log
  <2>4. Len(log) \in Nat /\ Len(new) = Len(log) + 2
    BY <1>4, <2>2, <2>3
  <2>5. \A i \in 1 .. Len(log) : new[i] = log[i]
    BY <1>4, <2>2, <2>3, <2>4
  <2>6. new[Len(log) + 1] = e1 /\ new[Len(log) + 2] = e2
    BY <1>4, <2>2, <2>3, <2>4
  <2> QED
    BY <1>4, <2>4, <2>5, <2>6
<1>9. Privileged' = Privileged
  BY <1>0 DEF Privileged
<1>10. (Waived(id)' <=> Waived(id)) /\ (Escrowed(id)' <=> Escrowed(id))
  <2>1. Waived(id)' => Waived(id)
    BY <1>8, Zenon DEF Waived
  <2>2. Waived(id) => Waived(id)'
    BY <1>8, Zenon DEF Waived
  <2>3. Escrowed(id)' => Escrowed(id)
    BY <1>6, <1>8, <1>9, Zenon DEF Escrowed
  <2>4. Escrowed(id) => Escrowed(id)'
    BY <1>6, <1>8, <1>9, Zenon DEF Escrowed
  <2> QED
    BY <2>1, <2>2, <2>3, <2>4
<1> HIDE DEF log, new
<1>11. grounds'[id] = grounds[id]
  <2>1. /\ grounds'[id] \subseteq Ground /\ grounds[id] \subseteq Ground
        /\ "escrowed" \in grounds'[id] <=> "escrowed" \in grounds[id]
        /\ "verified" \in grounds'[id] <=> "verified" \in grounds[id]
        /\ "attested" \in grounds'[id] <=> "attested" \in grounds[id]
        /\ "waived" \in grounds'[id] <=> "waived" \in grounds[id]
    BY <1>0, <1>6, <1>10, GroundsAre, GroundsBecome, Zenon
  <2>2. \A g \in Ground : g \in grounds'[id] <=> g \in grounds[id]
    BY <2>1, Zenon DEF Ground
  <2> QED
    BY <2>1, <2>2
<1>12. ASSUME NEW i \in 1 .. seq, i # id
       PROVE  transfer'[i].state = transfer[i].state /\ grounds'[i] = grounds[i]
  <2>1. history'[i] = history[i] /\ transfer'[i] = transfer[i]
    BY <1>7, <1>12
  <2> QED
    BY <1>0, <2>1, GroundsKept
<1>13. Settlement!Move(id, Outcome(transfer'[id].state), grounds'[id])
  BY <1>0, <1>12, OneMoves
<1>14. outcome[id] \in {"open", "cleared"}
  <2>1. transfer[id].state \in OpenStates \cup {"ReleasePending"}
    BY DEF RollbackTransfer, CanRollbackFrom, Timed, OpenStates
  <2> QED
    BY <1>0, <2>1, OutcomeIs, Outcomes
<1>15. Settlement!Unwind(id)
  BY <1>6, <1>11, <1>13, <1>14, Outcomes DEF Settlement!Unwind
<1> QED
  BY <1>15 DEF Settlement!Next

(* A verdict is evidence gathered, or withdrawn, while nothing is cleared. *)
LEMMA VerdictSettles ==
  ASSUME TypeOK, NEW id \in 1 .. seq, UNCHANGED <<admin, seq, history>>,
         transfer[id].state \in OpenStates, transfer'[id].state = transfer[id].state,
         transfer'[id].initiator = transfer[id].initiator,
         \A i \in 1 .. seq : i # id => transfer'[i] = transfer[i]
  PROVE  Settlement!Next
<1>1. ASSUME NEW i \in 1 .. seq, i # id
      PROVE  transfer'[i].state = transfer[i].state /\ grounds'[i] = grounds[i]
  <2>1. history'[i] = history[i] /\ transfer'[i] = transfer[i]
    BY <1>1
  <2> QED
    BY <2>1, GroundsKept
<1>2. Settlement!Move(id, Outcome(transfer'[id].state), grounds'[id])
  BY <1>1, OneMoves
<1>3. Settlement!Move(id, "open", grounds'[id]) /\ outcome[id] = "open" /\ id \in Ids
  BY <1>2, OutcomeIs, Outcomes
<1>4. Escrowed(id) => Escrowed(id)'
  <2>1. Privileged' = Privileged
    BY DEF Privileged
  <2> QED
    BY <2>1 DEF Escrowed
<1>5. Waived(id) => Waived(id)'
  BY DEF Waived
<1>6. /\ grounds'[id] \subseteq Ground
      /\ "escrowed" \in grounds[id] => "escrowed" \in grounds'[id]
      /\ "waived" \in grounds[id] => "waived" \in grounds'[id]
  BY <1>4, <1>5, GroundsAre, GroundsBecome, Zenon
<1>7. grounds'[id] \in SUBSET Settlement!Ground /\ grounds[id] \cap Settlement!Sticky \subseteq grounds'[id]
  BY <1>6 DEF Ground, Settlement!Ground, Settlement!Sticky
<1>8. Settlement!Gather(id)
  BY <1>3, <1>7 DEF Settlement!Gather
<1> QED
  BY <1>3, <1>8 DEF Settlement!Next

(* A new transfer is opened without grounds.                               *)
LEMMA InitiateSettles ==
  ASSUME TypeOK, NEW caller \in Address, NEW mode \in TransferMode, InitiateTransfer(caller, mode)
  PROVE  Settlement!Next
<1>1. /\ seq \in Nat /\ seq' = seq + 1 /\ admin' = admin /\ seq + 1 \in Ids
      /\ 1 .. seq \subseteq Ids /\ MaxTransfers \in Nat
  BY ConstantsAssumption DEF InitiateTransfer, config, TypeOK, Ids
<1>2. \A i \in 1 .. seq : transfer'[i] = transfer[i] /\ history'[i] = history[i]
  BY <1>1 DEF InitiateTransfer
<1>3. /\ transfer'[seq + 1].state = "Initiated" /\ history'[seq + 1] = <<>>
      /\ ~ transfer'[seq + 1].verification_ok /\ ~ transfer'[seq + 1].oracle_ok
  BY <1>1 DEF InitiateTransfer
<1>4. Privileged' = Privileged
  BY <1>1 DEF Privileged
<1>5. \A i \in 1 .. seq : (Waived(i)' <=> Waived(i)) /\ (Escrowed(i)' <=> Escrowed(i))
  BY <1>2, <1>4 DEF Waived, Escrowed
<1> PICK n \in Ids : n = seq + 1
  BY <1>1
<1>6. /\ outcome[n] = "none" /\ grounds[n] = {}
  BY <1>1 DEF outcome, grounds, Grounds, Escrowed, Waived, Privileged
<1>7. outcome'[n] = "open" /\ grounds'[n] = {}
  <2>1. Known(n)'
    BY <1>1
  <2>2. outcome'[n] = "open"
    BY <1>3, <2>1, Outcomes DEF outcome, OpenStates
  <2>3. \A g : g \notin grounds'[n]
    BY <1>3, <2>1 DEF grounds, Grounds, Escrowed, Waived, Privileged
  <2> QED
    BY <2>2, <2>3
<1>8. ASSUME NEW i \in Ids, i # n
      PROVE  outcome'[i] = outcome[i] /\ grounds'[i] = grounds[i]
  <2>1. CASE i \in 1 .. seq
    <3>1. outcome'[i] = outcome[i]
      BY <1>1, <1>2, <2>1 DEF outcome
    <3>2. \A g : g \in grounds'[i] <=> g \in grounds[i]
      <4>1. i \in 1 .. seq' /\ transfer'[i] = transfer[i] /\ history'[i] = history[i] /\ admin' = admin
        BY <1>1, <1>2, <2>1
      <4> QED
        BY <2>1, <4>1, Zenon DEF grounds, Grounds, Escrowed, Waived, Privileged
    <3>3. grounds'[i] = grounds[i]
      BY <3>2
    <3> QED
      BY <3>1, <3>3
  <2>2. CASE i \notin 1 .. seq
    <3>1. i \notin 1 .. seq'
      BY <1>1, <1>8, <2>2 DEF Ids
    <3> QED
      BY <2>2, <3>1 DEF outcome, grounds, Grounds, Escrowed, Waived, Privileged
  <2> QED
    BY <2>1, <2>2
<1>9. outcome = [i \in Ids |-> outcome[i]] /\ outcome' = [i \in Ids |-> outcome'[i]]
  BY Zenon DEF outcome
<1>10. grounds = [i \in Ids |-> grounds[i]] /\ grounds' = [i \in Ids |-> grounds'[i]]
  BY Zenon DEF grounds, Grounds, Escrowed, Waived, Privileged
<1> HIDE DEF outcome, grounds
<1>11. outcome' = [outcome EXCEPT ![n] = "open"] /\ grounds' = [grounds EXCEPT ![n] = {}]
  BY <1>7, <1>8, <1>9, <1>10
<1>12. Settlement!Open(n)
  BY <1>6, <1>11 DEF Settlement!Open, Settlement!Move
<1> QED
  BY <1>12 DEF Settlement!Next

(* Every step of the contract is one of the promise or none.               *)
LEMMA SettlementStep ==
  TypeOK /\ StageEvidence /\ [Next]_vars => [Settlement!Next]_<<outcome, grounds>>
<1> SUFFICES ASSUME TypeOK, StageEvidence, [Next]_vars
             PROVE  Settlement!Next \/ UNCHANGED <<outcome, grounds>>
  OBVIOUS
<1>1. ASSUME NEW caller \in Address, Configure(caller) PROVE UNCHANGED <<outcome, grounds>>
  <2>1. CASE Initialize(caller)
    <3>1. seq = 0 /\ seq' = 0
      BY <2>1 DEF Initialize, StageEvidence, TypeOK
    <3>2. \A i \in Ids : ~ (i \in 1 .. 0)
      BY DEF Ids
    <3> QED
      BY <3>1, <3>2 DEF outcome, grounds, Grounds, Escrowed, Waived, Privileged
  <2>2. CASE ~ Initialize(caller)
    <3>1. UNCHANGED <<admin, seq, history, transfer>>
      BY <1>1, <2>2 DEF Configure, SetIntegrationContracts, SetDefaultTimeout, SetStateTimeout
    <3> QED
      BY <3>1, PromiseStutters
  <2> QED
    BY <2>1, <2>2
<1>2. ASSUME NEW caller \in Address, NEW id \in Ids, Step(caller, id) PROVE Settlement!Next
  <2>1. ASSUME NEW to \in TransferState, AdvanceState(caller, id, to) PROVE Settlement!Next
    BY <2>1, AllowedSettles DEF AdvanceState, Via
  <2>2. ASSUME NEW to \in TransferState, AdminOverrideState(caller, id, to) PROVE Settlement!Next
    BY <2>2, OverrideSettles
  <2>3. ASSUME NEW ok \in BOOLEAN,
               SubmitVerificationResult(caller, id, ok) \/ SubmitOracleResult(caller, id, ok)
        PROVE  Settlement!Next
    <3>1. id \in 1 .. seq /\ UNCHANGED <<admin, seq, history>> /\ transfer[id].state \in OpenStates
      BY <2>3 DEF SubmitVerificationResult, SubmitOracleResult, config, OpenStates
    <3>2. /\ transfer'[id].state = transfer[id].state
          /\ transfer'[id].initiator = transfer[id].initiator
          /\ \A i \in 1 .. seq : i # id => transfer'[i] = transfer[i]
      BY <2>3 DEF SubmitVerificationResult, SubmitOracleResult, TypeOK, Transfer
    <3> QED
      BY <3>1, <3>2, VerdictSettles
  <2> QED
    BY <1>2, <2>1, <2>2, <2>3, RollbackSettles DEF Step
<1>3. ASSUME NEW id \in Ids, HandleTimeout(id) PROVE Settlement!Next
  <2>1. id \in 1 .. seq /\ transfer[id].initiator \in Address
    BY <1>3 DEF HandleTimeout, TypeOK, Transfer
  <2> QED
    BY <1>3, <2>1, AllowedSettles DEF HandleTimeout, Via, TransferState
<1>4. ASSUME NEW id \in Ids, TryAutoProgress(id) PROVE Settlement!Next
  <2>1. id \in 1 .. seq /\ transfer[id].initiator \in Address
    BY <1>4 DEF TryAutoProgress, TypeOK, Transfer
  <2>2. PICK to \in AutoNext(transfer[id]) :
          /\ TransitionAllowed(transfer[id], to)
          /\ ApplyTransition(id, to, transfer[id].initiator, "auto")
    BY <1>4 DEF TryAutoProgress
  <2>3. to \in TransferState /\ "auto" \in Via \ {"override"}
    BY DEF AutoNext, TransferState, Via
  <2> QED
    BY <1>4, <2>1, <2>2, <2>3, AllowedSettles DEF TryAutoProgress
<1>5. CASE Tick
  <2>1. \A i \in 1 .. seq :
          /\ transfer'[i].state = transfer[i].state
          /\ transfer'[i].initiator = transfer[i].initiator
          /\ transfer'[i].verification_ok = transfer[i].verification_ok
          /\ transfer'[i].oracle_ok = transfer[i].oracle_ok
    BY <1>5 DEF Tick, TypeOK, Transfer
  <2> QED
    BY <1>5, <2>1, PromiseStutters DEF Tick, config
<1>6. CASE UNCHANGED vars
  BY <1>6, PromiseStutters DEF vars
<1>7. CASE Next
  BY <1>1, <1>2, <1>3, <1>4, <1>5, <1>7, InitiateSettles, Zenon DEF Next
<1> QED
  BY <1>6, <1>7

(* The contract implements the settlement promise.                         *)
THEOREM ContractSettles == Spec => SettlementSpec
<1>1. ASSUME Init PROVE Settlement!Init
  <2>1. \A i \in Ids : ~ Known(i)
    <3>1. seq = 0 /\ \A i \in Nat : ~ (i \in 1 .. 0)
      BY <1>1 DEF Init
    <3> QED
      BY <3>1 DEF Ids
  <2>2. \A i \in Ids : outcome[i] = "none" /\ grounds[i] = {}
    BY <2>1, Zenon DEF outcome, grounds, Grounds, Escrowed, Waived, Privileged
  <2>3. outcome = [i \in Ids |-> outcome[i]] /\ grounds = [i \in Ids |-> grounds[i]]
    BY Zenon DEF outcome, grounds, Grounds, Escrowed, Waived, Privileged
  <2> HIDE DEF outcome, grounds
  <2> QED
    BY <2>2, <2>3 DEF Settlement!Init
<1> QED
  BY <1>1, SettlementStep, TypeCorrect, StagesAreJustified, PTL
     DEF Spec, SettlementSpec, Settlement!Spec, Settlement!vars
=============================================================================
