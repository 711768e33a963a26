-------------------------- MODULE EmergencyControl --------------------------
(***************************************************************************)
(* Halting the Bridge-Watch contract: the administrator's and the pause    *)
(* guardian's single-key pause with its timelock (emergency_pause, unpause *)
(* in contracts/soroban/src/lib.rs), beside the threshold of operator keys *)
(* of contracts/soroban/src/emergency_multisig.rs and the *_multisig entry *)
(* points that use it.                                                     *)
(*                                                                         *)
(* `signature' is the set of signatures operators ever made; whoever calls *)
(* may present any of them, old ones included.  A signature is bound to an *)
(* action and a nonce.  The actions that blacklist a bridge, delist an     *)
(* oracle or set the mismatch threshold write nothing that is read here;   *)
(* one action stands for the three.                                        *)
(***************************************************************************)
EXTENDS SorobanHost

CONSTANTS
  Operator,       \* keys that may be registered as emergency operators
  Timelock,       \* the 86400 seconds of emergency_pause
  MaxLogEntries,  \* MAX_LOG_ENTRIES
  MaxNonce,       \* bound: multisig actions executed
  MaxSignatures,  \* bound: signatures made
  MaxPauses       \* bound: length of PAUSE_HISTORY

ASSUME EmergencyAssumption ==
  /\ Timelock \in Nat /\ MaxLogEntries \in Nat \ {0}
  /\ MaxNonce \in Nat /\ MaxSignatures \in Nat /\ MaxPauses \in Nat

VARIABLES
  quorum,     \* EMERGENCY_MULTISIG_CONFIG; no keys before it is configured
  msigNonce,  \* EMERGENCY_MULTISIG_NONCE
  signature,  \* Ed25519 signatures operators have made
  actionLog,  \* EMERGENCY_MULTISIG_LOG
  halted,     \* GLOBAL_PAUSED
  available,  \* UNPAUSE_AVAILABLE_AT
  history     \* PAUSE_HISTORY, as who changed the flag, how and when

emergencyVars == <<quorum, msigNonce, signature, actionLog, halted, available, history>>

EmergencyAction == {"Pause", "Unpause", "Override"}

Signature == [by : Operator, action : EmergencyAction, nonce : Nat]

PauseRecord == [paused : BOOLEAN, by : {"admin", "guardian", "operators"}, at : Nat]

EmergencyInit ==
  /\ quorum = [keys |-> {}, threshold |-> 1]
  /\ msigNonce = 0 /\ signature = {} /\ actionLog = <<>>
  /\ halted = FALSE /\ available = 0 /\ history = <<>>

\* A change of GLOBAL_PAUSED and its record; the history is never trimmed.
Recorded(paused, by) ==
  /\ Len(history) < MaxPauses
  /\ halted' = paused
  /\ history' = Append(history, [paused |-> paused, by |-> by, at |-> now])

\* BUG: pausing again keeps the timelock of the first pause.
EmergencyPause_OldTimelock(by) ==
  /\ by \in {"admin", "guardian"}
  /\ Recorded(TRUE, by)
  /\ available' = IF halted THEN available ELSE now + Timelock
  /\ UNCHANGED <<quorum, msigNonce, signature, actionLog>>

\* emergency_pause, by the administrator or the guardian.
EmergencyPause(by) ==
  /\ by \in {"admin", "guardian"}
  /\ Recorded(TRUE, by)
  /\ available' = now + Timelock
  /\ UNCHANGED <<quorum, msigNonce, signature, actionLog>>

\* unpause, by the administrator; also of a contract that is not paused.
Unpause ==
  /\ now >= available
  /\ Recorded(FALSE, "admin")
  /\ UNCHANGED <<quorum, msigNonce, signature, actionLog, available>>

\* configure_emergency_multisig: the nonce goes on.
ConfigureEmergencyMultisig(keys, threshold) ==
  /\ threshold \in 1 .. Cardinality(keys)
  /\ quorum' = [keys |-> keys, threshold |-> threshold]
  /\ UNCHANGED <<msigNonce, signature, actionLog, halted, available, history>>

\* A registered operator signs what get_emergency_multisig_nonce names.
Sign(o, action) ==
  /\ o \in quorum.keys
  /\ Cardinality(signature) < MaxSignatures
  /\ signature' = signature \cup {[by |-> o, action |-> action, nonce |-> msigNonce + 1]}
  /\ UNCHANGED <<quorum, msigNonce, actionLog, halted, available, history>>

\* BUG: the message leaves out the action.
Valid_AnyAction(o, action, nonce) == \E s \in signature : s.by = o /\ s.nonce = nonce

\* The nonce a call must name, and the message its signatures must verify.
Valid(o, action, nonce) == [by |-> o, action |-> action, nonce |-> nonce] \in signature

\* BUG: the oldest makes room one entry late.
Logged_OffByOne(entry) ==
  LET log == Append(actionLog, entry) IN
  IF Len(log) > MaxLogEntries + 1 THEN Tail(log) ELSE log

\* The log with one more entry; the oldest makes room.
Logged(entry) ==
  LET log == Append(actionLog, entry) IN
  IF Len(log) > MaxLogEntries THEN Tail(log) ELSE log

\* verify_and_execute: the presented signatures are of distinct registered
\* operators, all are valid, and they are enough.
VerifyAndExecute(action, presented) ==
  /\ msigNonce < MaxNonce
  /\ presented \subseteq quorum.keys
  /\ Cardinality(presented) >= quorum.threshold
  /\ \A o \in presented : Valid(o, action, msigNonce + 1)
  /\ msigNonce' = msigNonce + 1
  /\ actionLog' = Logged([nonce |-> msigNonce + 1, action |-> action, approvers |-> presented,
                         needed |-> quorum.threshold])

\* emergency_pause_multisig: the administrator may unpause at once.
PauseMultisig(presented) ==
  /\ VerifyAndExecute("Pause", presented)
  /\ Recorded(TRUE, "operators")
  /\ available' = now
  /\ UNCHANGED <<quorum, signature>>

\* unpause_emergency_multisig waits for no timelock and leaves it as it was.
UnpauseMultisig(presented) ==
  /\ VerifyAndExecute("Unpause", presented)
  /\ Recorded(FALSE, "operators")
  /\ UNCHANGED <<quorum, signature, available>>

\* set_mismatch_threshold_multisig, blacklist_bridge_multisig (idempotent)
\* and delist_oracle_node_multisig (reverted for a source already revoked).
OverrideMultisig(presented) ==
  /\ VerifyAndExecute("Override", presented)
  /\ UNCHANGED <<quorum, signature, halted, available, history>>

EmergencyStep ==
  \/ \E by \in {"admin", "guardian"} : EmergencyPause(by)
  \/ Unpause
  \/ \E K \in SUBSET Operator : \E n \in 1 .. Cardinality(K) : ConfigureEmergencyMultisig(K, n)
  \/ \E o \in Operator, a \in EmergencyAction : Sign(o, a)
  \/ \E S \in SUBSET Operator : PauseMultisig(S) \/ UnpauseMultisig(S) \/ OverrideMultisig(S)

EmergencyNext == \/ EmergencyStep /\ UNCHANGED now
                 \/ CloseLedger /\ UNCHANGED emergencyVars

EmergencySpec == now = 0 /\ EmergencyInit /\ [][EmergencyNext]_<<now, emergencyVars>>

-----------------------------------------------------------------------------
(* Properties.                                                             *)

EmergencyTypeOK ==
  /\ quorum \in [keys : SUBSET Operator, threshold : Nat \ {0}]
  /\ msigNonce \in Nat /\ signature \subseteq Signature
  /\ actionLog \in Seq([nonce : Nat, action : EmergencyAction, approvers : SUBSET Operator,
                        needed : Nat \ {0}])
  /\ Len(actionLog) <= MaxLogEntries
  /\ halted \in BOOLEAN /\ available \in Nat /\ history \in Seq(PauseRecord)

\* Whatever was signed, kept and presented again, and however the keys were
\* rotated: every logged action has the signatures of enough operators for
\* this very action, and no signature stands in two entries.
QuorumBound ==
  /\ \A i \in 1 .. Len(actionLog) :
       /\ actionLog[i].nonce = msigNonce - Len(actionLog) + i
       /\ Cardinality(actionLog[i].approvers) >= actionLog[i].needed
       /\ \A o \in actionLog[i].approvers :
            [by |-> o, action |-> actionLog[i].action, nonce |-> actionLog[i].nonce] \in signature

\* The administrator alone ends a single-key pause only after its timelock,
\* unless operators paused again in between: their pause resets the time to
\* now.  The flag is what the last record says.
TimelockHolds ==
  /\ \A i, j \in 1 .. Len(history) :
       /\ i < j
       /\ history[i].paused /\ history[i].by # "operators"
       /\ ~ history[j].paused /\ history[j].by = "admin"
       /\ \A k \in i + 1 .. j - 1 : history[k].paused => history[k].by # "operators"
       => history[j].at >= history[i].at + Timelock
  /\ halted = (history # <<>> /\ history[Len(history)].paused)
=============================================================================
