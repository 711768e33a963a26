-------------------------- MODULE AlertEffectGuard --------------------------
(***************************************************************************)
(* The at-most-once guard of alert deliveries, backend/src/services/       *)
(* alertEffectGuard.service.ts, for one (outbox event, channel) pair: its  *)
(* row of alert_effect_records and the workers that claim it, call the     *)
(* transport and report.  Every statement is a transaction of its own.     *)
(***************************************************************************)
EXTENDS Integers, Sequences

CONSTANT Deliverer  \* worker ids

VARIABLES
  effect,   \* the row; live: lease_expires_at is not past
  claim,    \* what each worker is about to do for the pair
  sent,     \* history: workers whose transport call was made
  outcomes  \* history: the reports the row took, in order

effectVars == <<effect, claim, sent, outcomes>>

EffectStatus == {"absent", "pending", "delivered", "ambiguous"}

EffectInit ==
  /\ effect = [status |-> "absent", claimedBy |-> {}, live |-> FALSE]
  /\ claim = [w \in Deliverer |-> "idle"] /\ sent = {} /\ outcomes = <<>>

Leased(w) == [status |-> "pending", claimedBy |-> {w}, live |-> TRUE]

\* claimEffect: insert on conflict ignore, then read back whose row it is.
ClaimEffect(w) ==
  \/ /\ claim[w] = "idle" /\ claim' = [claim EXCEPT ![w] = "readback"]
     /\ effect' = IF effect.status = "absent" THEN Leased(w) ELSE effect
     /\ UNCHANGED <<sent, outcomes>>
  \/ /\ claim[w] = "readback"
     /\ claim' = [claim EXCEPT ![w] =
          IF effect.claimedBy = {w} /\ effect.status = "pending" THEN "send" ELSE "idle"]
     /\ UNCHANGED <<effect, sent, outcomes>>

\* The caller's transport.
SendEffect(w) ==
  /\ claim[w] = "send"
  /\ claim' = [claim EXCEPT ![w] = "report"] /\ sent' = sent \cup {w}
  /\ UNCHANGED <<effect, outcomes>>

\* BUG: the lease may have been stolen.
Reports_AnyOwner(w) == effect.status = "pending"

\* WHERE claimed_by = w AND status = 'pending', however old the lease.
Reports(w) == effect.status = "pending" /\ effect.claimedBy = {w}

\* commitEffect, or markAmbiguous when the answer was lost.
ReportEffect(w, status) ==
  /\ claim[w] = "report"
  /\ claim' = [claim EXCEPT ![w] = "idle"]
  /\ IF Reports(w)
     THEN effect' = [effect EXCEPT !.status = status] /\ outcomes' = Append(outcomes, status)
     ELSE UNCHANGED <<effect, outcomes>>
  /\ UNCHANGED sent

DelivererCrash(w) ==
  claim[w] # "idle" /\ claim' = [claim EXCEPT ![w] = "idle"] /\ UNCHANGED <<effect, sent, outcomes>>

EffectLeaseLapses == effect.live /\ effect' = [effect EXCEPT !.live = FALSE]
                     /\ UNCHANGED <<claim, sent, outcomes>>

\* One UPDATE.  It returns a count: the new owner learns what it owns when
\* it claims the pair the next time.
ReclaimExpiredLeases(w) ==
  /\ effect.status = "pending" /\ ~ effect.live
  /\ effect' = Leased(w)
  /\ UNCHANGED <<claim, sent, outcomes>>

EffectNext ==
  \/ \E w \in Deliverer : \/ ClaimEffect(w) \/ SendEffect(w)
                          \/ \E s \in {"delivered", "ambiguous"} : ReportEffect(w, s)
                          \/ DelivererCrash(w) \/ ReclaimExpiredLeases(w)
  \/ EffectLeaseLapses

EffectSpec == EffectInit /\ [][EffectNext]_effectVars

-----------------------------------------------------------------------------
(* Properties.                                                             *)

EffectTypeOK ==
  /\ effect \in [status : EffectStatus, claimedBy : SUBSET Deliverer, live : BOOLEAN]
  /\ claim \in [Deliverer -> {"idle", "readback", "send", "report"}]
  /\ sent \subseteq Deliverer /\ outcomes \in Seq(EffectStatus)

\* Two workers may both call the transport, one of them on a stolen lease; the
\* row takes one report only, and its owner is a worker that made the call.
OneOutcome ==
  /\ Len(outcomes) <= 1
  /\ effect.status \in {"delivered", "ambiguous"} => effect.claimedBy \subseteq sent
=============================================================================
