---------------------------- MODULE CircuitBreaker ----------------------------
(***************************************************************************)
(* contracts/soroban/src/circuit_breaker.rs: pauses by scope, lifted by    *)
(* the guardians' approvals or by the staged recovery (tripped,            *)
(* provisional cooldown, restored).                                        *)
(*                                                                         *)
(* `now' is the ledger sequence the stages count in.  The administrator    *)
(* calls whenever the code lets him.  Trigger configurations, whitelists,  *)
(* recovery deadlines and reasons are stored and decide nothing here; a    *)
(* pause needs an emergency guardian when it is global and any guardian    *)
(* otherwise.                                                              *)
(***************************************************************************)
EXTENDS SorobanHost, FiniteSetsExt

CONSTANTS
  Keeper,             \* accounts that may be made guardians
  Scope,              \* bridges and assets, "Global" apart
  Protocol,           \* recovery protocols an administrator may set
  GuardianThreshold,  \* config.guardian_threshold
  MaxTrips            \* bound: pauses ever triggered

ASSUME BreakerAssumption ==
  /\ Keeper \subseteq Account /\ "Global" \notin Scope
  /\ {GuardianThreshold, MaxTrips} \subseteq Nat
  /\ \A r \in Protocol : /\ {r.cooldown, r.window, r.cap} \subseteq Nat
                         /\ 0 < r.cap /\ r.cap <= 10000

VARIABLES
  role,      \* Guardians, "none" for others; an AdminGuardian has the rights of "emergency"
  protocol,  \* RecoveryProtocol
  trip,      \* PauseState(id), and how a pause was lifted, when (history)
  request,   \* RecoveryRequests: approvals by pause id, 0 when there is none
  cooldown   \* CooldownState(id), and the ledger it was started at (history)

breakerVars == <<role, protocol, trip, request, cooldown>>

Trips == 1 .. Len(trip)

NoCooldown == [stage |-> "none", since |-> 0, protocol |-> protocol, began |-> 0]

Active(p) == trip[p].lifted = "no"

\* scopes_match: a global pause matches whatever is asked for, not conversely.
Covers(p, scope) == trip[p].scope \in {"Global", scope}

BreakerInit ==
  /\ role = [a \in Keeper |-> "none"] /\ protocol \in Protocol
  /\ trip = <<>> /\ request = <<>> /\ cooldown = <<>>

\* add_guardian, remove_guardian, set_recovery_protocol.
ManageBreaker ==
  /\ \/ \E a \in Keeper : /\ \E r \in {"standard", "emergency", "none"} :
                                 /\ (role[a] = "none") # (r = "none")
                                 /\ role' = [role EXCEPT ![a] = r]
                           /\ UNCHANGED protocol
     \/ protocol' \in Protocol /\ UNCHANGED role
  /\ UNCHANGED <<trip, request, cooldown>>

\* pause_global, pause_bridge, pause_asset.
Pause(a, scope) ==
  /\ Len(trip) < MaxTrips
  /\ role[a] \in IF scope = "Global" THEN {"emergency"} ELSE {"standard", "emergency"}
  /\ trip' = Append(trip, [scope |-> scope, lifted |-> "no", at |-> 0])
  /\ request' = Append(request, 0)
  /\ cooldown' = Append(cooldown, NoCooldown)
  /\ UNCHANGED <<role, protocol>>

\* One more approval: the guardian who asked, or any other call.
Approve(a, p) ==
  /\ role[a] # "none"
  /\ request' = [request EXCEPT ![p] = @ + 1]
  /\ UNCHANGED <<role, protocol, trip, cooldown>>

RequestRecovery(a, p) == Active(p) /\ request[p] = 0 /\ Approve(a, p)

\* Approvals are counted, not told apart: one guardian can give all of them.
ApproveRecovery(a, p) ==
  /\ request[p] > 0
  /\ request[p] < GuardianThreshold \* bound: further approvals decide nothing
  /\ Approve(a, p)

Lift(p, how) == trip' = [trip EXCEPT ![p].lifted = how, ![p].at = now]

\* The cooldown of the pause, if one was started, stays behind; so may a
\* request of a pause that the cooldown has lifted, which is lifted twice then.
ExecuteRecovery(a, p) ==
  /\ role[a] # "none"
  /\ request[p] > 0 /\ request[p] >= GuardianThreshold
  /\ IF Active(p) THEN Lift(p, "guardians") ELSE UNCHANGED trip
  /\ request' = [request EXCEPT ![p] = 0]
  /\ UNCHANGED <<role, protocol, cooldown>>

StartCooldown(a, p) ==
  /\ role[a] # "none"
  /\ Active(p) /\ cooldown[p].stage = "none"
  /\ cooldown' = [cooldown EXCEPT ![p] =
       [stage |-> "Tripped", since |-> now, protocol |-> protocol, began |-> now]]
  /\ UNCHANGED <<role, protocol, trip, request>>

\* BUG: the recovery window is counted from the start of the cooldown.
Provisional_OldStart(p) ==
  /\ cooldown[p].stage = "Tripped"
  /\ now - cooldown[p].since >= cooldown[p].protocol.cooldown
  /\ cooldown' = [cooldown EXCEPT ![p].stage = "Provisional"]
  /\ UNCHANGED <<role, protocol, trip, request>>

\* evaluate_cooldown in the Tripped stage.
Provisional(p) ==
  /\ cooldown[p].stage = "Tripped"
  /\ now - cooldown[p].since >= cooldown[p].protocol.cooldown
  /\ cooldown' = [cooldown EXCEPT ![p].stage = "Provisional", ![p].since = now]
  /\ UNCHANGED <<role, protocol, trip, request>>

\* A later pause of the same scope that is still active: its timestamp, in
\* seconds, is never below the ledger sequence it is compared with.
Anomaly(p) == Active(p) /\ \E q \in p + 1 .. Len(trip) : Active(q) /\ Covers(p, trip[q].scope)

\* evaluate_cooldown in the provisional stage.  With an anomaly the code
\* stores a new start of the window and then panics, which reverts the store:
\* the window is never restarted, and the call does not succeed.
Restore(p) ==
  /\ cooldown[p].stage = "Provisional"
  /\ now - cooldown[p].since >= cooldown[p].protocol.window
  /\ ~ Anomaly(p)
  /\ IF Active(p) THEN Lift(p, "staged") ELSE UNCHANGED trip
  /\ cooldown' = [cooldown EXCEPT ![p].stage = "none"]
  /\ UNCHANGED <<role, protocol, request>>

\* effective_volume_cap_bps.
VolumeCap(scope) ==
  LET on == {p \in Trips : Active(p) /\ Covers(p, scope)} IN
  IF \E p \in on : cooldown[p].stage # "Provisional" THEN 0
  ELSE Min({10000} \cup {cooldown[p].protocol.cap : p \in on})

BreakerStep ==
  \/ ManageBreaker
  \/ \E a \in Keeper :
       \/ \E s \in Scope \cup {"Global"} : Pause(a, s)
       \/ \E p \in Trips : \/ RequestRecovery(a, p) \/ ApproveRecovery(a, p)
                           \/ ExecuteRecovery(a, p) \/ StartCooldown(a, p)
  \/ \E p \in Trips : Provisional(p) \/ Restore(p)

BreakerNext == \/ BreakerStep /\ UNCHANGED now
               \/ CloseLedger /\ UNCHANGED breakerVars

BreakerSpec == now = 0 /\ BreakerInit /\ [][BreakerNext]_<<now, breakerVars>>

-----------------------------------------------------------------------------
(* Properties.                                                             *)

BreakerTypeOK ==
  /\ role \in [Keeper -> {"none", "standard", "emergency"}] /\ protocol \in Protocol
  /\ trip \in Seq([scope : Scope \cup {"Global"}, lifted : {"no", "guardians", "staged"},
                   at : Nat])
  /\ request \in Seq(Nat)
  /\ cooldown \in Seq([stage : {"none", "Tripped", "Provisional"}, since : Nat,
                       protocol : Protocol, began : Nat])
  /\ {Len(request), Len(cooldown)} = {Len(trip)}

\* However protocols change and pauses overlap, the staged recovery lifts a
\* pause only after the whole cooldown and the whole window it was started
\* with, which no anomaly restarts (evaluate_cooldown), and as long as pauses cover a scope its traffic is
\* closed until each of them is past its cooldown, and then below each one's cap
\* (effective_volume_cap_bps).
StagedRecovery ==
  /\ \A p \in Trips : trip[p].lifted = "staged" =>
       LET c == cooldown[p] IN trip[p].at >= c.began + c.protocol.cooldown + c.protocol.window
  /\ \A s \in Scope : VolumeCap(s) > 0 =>
       \A p \in Trips : Active(p) /\ Covers(p, s) =>
         /\ now >= cooldown[p].began + cooldown[p].protocol.cooldown
         /\ VolumeCap(s) <= cooldown[p].protocol.cap
=============================================================================
