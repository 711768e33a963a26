----------------------------- MODULE MCCrossing -----------------------------
(***************************************************************************)
(* Small instances for TLC of the contracts that carry something over a    *)
(* bridge before a deadline: messages of the relay, and transfers with     *)
(* time passing.  They share nothing, so a behaviour exercises one of them *)
(* and leaves the other at rest.                                           *)
(***************************************************************************)
EXTENDS CrossChainRelay

CONSTANTS
  Address, NoAddress, RoleChoices, SeedTimeout, DefaultSecs, TimeoutChoices,
  Configurable, MaxTransfers, MaxHistory,  \* of the transfers
  Integrator                               \* the addresses that may be wired in

VARIABLES
  admin, roles, defaultTimeout, stateTimeout, seq, transfer, history,  \* of the transfers
  crossing                                 \* what a behaviour exercises

transferVars == <<admin, roles, defaultTimeout, stateTimeout, seq, transfer, history>>

Transfers == INSTANCE TransferStateMachine

\* The names of states and roles, for the constants that are stated with them.
Names == INSTANCE TransferStateMachine WITH RoleChoices <- {}, SeedTimeout <- <<>>

MCRoles == {Names!SameRole(a) : a \in Integrator}

\* A second for every state that initialize seeds (lib.rs:506-516), none for
\* the others, which fall back on the default.
MCSeed ==
  [s \in Names!TransferState |->
     IF s \in Names!Timed \cup {"RollingBack", "Failed"} THEN 1 ELSE 0]

MCInit ==
  /\ crossing \in {"messages", "transfers"}
  /\ RelayInit /\ Transfers!Init

MCNext ==
  /\ \/ crossing = "messages"  /\ RelayNext       /\ UNCHANGED transferVars
     \/ crossing = "transfers" /\ Transfers!Next  /\ UNCHANGED relayVars
  /\ UNCHANGED crossing

MCSpec ==
  /\ MCInit /\ [][MCNext]_<<crossing, relayVars, transferVars>>
  /\ RelayFairness /\ Transfers!Fairness

\* No transfer waits for ever in a timed state while its log has room, although
\* timeouts are reconfigured underneath it (handle_timeout, set_state_timeout).
TimeoutDrains == Transfers!TimeoutDrains
=============================================================================
