---------------------------- MODULE DrainProtocol ----------------------------
(***************************************************************************)
(* The shutdown drain of one node, backend/src/services/drainProtocol      *)
(* .service.ts and the middleware that counts requests.  A call runs in    *)
(* one go to its next await; others then find the fields it left behind.   *)
(* Sessions and logs are written best-effort and decide nothing.           *)
(***************************************************************************)
EXTENDS Integers

CONSTANTS
  DrainCall,   \* startDrain and cancelDrain calls, with the timers they set
  MaxInFlight  \* bound: requests at a time

ASSUME DrainAssumption == MaxInFlight \in Nat

VARIABLES
  drainState,  \* currentState
  inFlight,    \* inFlightRequests
  drainCall,   \* what each call does when its await returns
  armed,       \* calls whose setTimeout is pending
  drainTimer   \* the calls whose timer the field holds: one or none

drainVars == <<drainState, inFlight, drainCall, armed, drainTimer>>

DrainState == {"ACTIVE", "DRAINING", "DRAINED", "CANCELLED", "FAILED"}

DrainInit == /\ drainState = "ACTIVE" /\ inFlight = 0
             /\ drainCall = [c \in DrainCall |-> "idle"] /\ armed = {} /\ drainTimer = {}

Awaits(c, what) == drainCall' = [drainCall EXCEPT ![c] = what]

IsDraining == drainState \in {"DRAINING", "DRAINED"}

\* onRequest; a change is answered 503 while draining, which is a request too.
RequestArrives == inFlight < MaxInFlight /\ inFlight' = inFlight + 1
                  /\ UNCHANGED <<drainState, drainCall, armed, drainTimer>>

\* "finish"; a connection cut before that is never counted off.
RequestFinishes == inFlight > 0 /\ inFlight' = inFlight - 1
                   /\ UNCHANGED <<drainState, drainCall, armed, drainTimer>>

\* startDrain up to its first await; also after DRAINED, FAILED or CANCELLED.
StartDrain(c) ==
  /\ drainCall[c] = "idle" /\ c \notin armed
  /\ drainState # "DRAINING" /\ drainState' = "DRAINING"
  /\ Awaits(c, "stopping")
  /\ UNCHANGED <<inFlight, armed, drainTimer>>

\* completeDrain, with the timers and the field's value it finds.
CompleteDrain(timers, field) ==
  IF drainState = "DRAINING"
  THEN drainState' = "DRAINED" /\ armed' = timers \ field /\ drainTimer' = {}
  ELSE UNCHANGED drainState /\ armed' = timers /\ drainTimer' = field

\* BUG: the timer is left to the case where nothing is in flight.
WorkersStopped_Unarmed(c) ==
  /\ drainCall[c] = "stopping"
  /\ IF inFlight = 0 THEN CompleteDrain(armed \cup {c}, {c})
                     ELSE UNCHANGED <<drainState, armed, drainTimer>>
  /\ Awaits(c, "idle")
  /\ UNCHANGED inFlight

\* The rest of startDrain, once the queues and workers have closed, that is
\* once the jobs under way are done, and the sockets are told to: it runs
\* whatever became of the session meanwhile, and forgets an older timer.
WorkersStopped(c) ==
  /\ drainCall[c] = "stopping"
  /\ IF inFlight = 0 THEN CompleteDrain(armed \cup {c}, {c})
     ELSE armed' = armed \cup {c} /\ drainTimer' = {c} /\ UNCHANGED drainState
  /\ Awaits(c, "idle")
  /\ UNCHANGED inFlight

\* The timer fires; handleDrainTimeout logs before it completes.
TimerFires(c) ==
  /\ c \in armed /\ armed' = armed \ {c}
  /\ Awaits(c, IF drainState = "DRAINING" THEN "timeout" ELSE drainCall[c])
  /\ UNCHANGED <<drainState, inFlight, drainTimer>>

HandleDrainTimeout(c) ==
  /\ drainCall[c] = "timeout" /\ Awaits(c, "idle")
  /\ CompleteDrain(armed, drainTimer)
  /\ UNCHANGED inFlight

ClearTimer == armed' = armed \ drainTimer /\ drainTimer' = {}

\* cancelDrain up to its await, and the rest: ACTIVE whatever came between.
CancelDrain(c) ==
  \/ /\ drainCall[c] = "idle" /\ c \notin armed /\ IsDraining
     /\ drainState' = "CANCELLED" /\ ClearTimer /\ Awaits(c, "resuming")
     /\ UNCHANGED inFlight
  \/ /\ drainCall[c] = "resuming" /\ Awaits(c, "idle")
     /\ drainState' = "ACTIVE"
     /\ UNCHANGED <<inFlight, armed, drainTimer>>

ForceShutdown == drainState' = "FAILED" /\ ClearTimer /\ UNCHANGED <<inFlight, drainCall>>

DrainNext ==
  \/ RequestArrives \/ RequestFinishes \/ ForceShutdown
  \/ \E c \in DrainCall : \/ StartDrain(c) \/ WorkersStopped(c) \/ CancelDrain(c)
                          \/ TimerFires(c) \/ HandleDrainTimeout(c)

\* Timers fire, and their handler's one await, a write to the log, returns.
\* Requests need not finish, and neither need the jobs under way, which the
\* queues and workers that startDrain stops wait for.
DrainFairness ==
  \A c \in DrainCall : WF_drainVars(TimerFires(c)) /\ WF_drainVars(HandleDrainTimeout(c))

DrainSpec == DrainInit /\ [][DrainNext]_drainVars /\ DrainFairness

-----------------------------------------------------------------------------
(* Properties.                                                             *)

DrainTypeOK ==
  /\ drainState \in DrainState /\ inFlight \in 0 .. MaxInFlight
  /\ drainCall \in [DrainCall -> {"idle", "stopping", "timeout", "resuming"}]
  /\ armed \subseteq DrainCall /\ drainTimer \subseteq DrainCall

\* A draining node is never left to its requests alone: whatever sessions were
\* cancelled, shut down or started over meanwhile, and although a session
\* forgets the timer of the one before, some call has yet to go on or to fire
\* a timer that will find the node draining.
EndUnderWay ==
  drainState = "DRAINING" =>
    \E c \in DrainCall : drainCall[c] \in {"stopping", "timeout"} \/ c \in armed

\* However sessions overlap, however many requests never finish, and whichever
\* timers were cleared or forgotten (completeDrain, cancelDrain): a node that
\* drains stops draining, once no startDrain is still stopping the workers.
StoppedDrainEnds ==
  drainState = "DRAINING" /\ (\A c \in DrainCall : drainCall[c] # "stopping")
    ~> drainState # "DRAINING"
=============================================================================
