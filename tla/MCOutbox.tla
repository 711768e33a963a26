------------------------------ MODULE MCOutbox ------------------------------
(***************************************************************************)
(* A small instance of OutboxDispatch for TLC.  A behaviour takes one of   *)
(* two courses: one event, two slots and every fault; or two events, one   *)
(* slot and no fault but an exhausted pool, for what must happen in the    *)
(* end.                                                                    *)
(***************************************************************************)
EXTENDS OutboxDispatch

CONSTANT slot \* the slot that works where no fault happens

VARIABLE calm

Calm == INSTANCE OutboxDispatch WITH Env <- {"pool"}, Worker <- {slot}, MaxRetries <- 1

OnlyFirst == \A e \in Event \ {1} : outbox'[e].status = "absent"

MCInit == Init /\ calm \in BOOLEAN

MCNext ==
  /\ \/ calm /\ Calm!Next
     \/ ~ calm /\ Next /\ OnlyFirst
  /\ UNCHANGED calm

MCSpec == MCInit /\ [][MCNext]_<<vars, calm>> /\ Calm!Fairness

\* ParkedIsRedriven where it holds: an event parked in the DLQ leaves it again
\* (runOutboxDlqRedriveJob), if one sweep holds every parked event and no fault
\* strikes between its statements.
CalmParkedIsRedriven ==
  \A e \in Event : calm /\ outbox[e].status = "dead_letter" ~> outbox[e].status # "dead_letter"
=============================================================================
