----------------------------- MODULE MCTransfer -----------------------------
(***************************************************************************)
(* Small instances of TransferStateMachine for TLC.                        *)
(***************************************************************************)
EXTENDS TransferStateMachine, TLC

CONSTANT Integrator \* the addresses an administrator may wire in; the others are users

\* One integrator holds every role at a time.
MCRoles == {SameRole(a) : a \in Integrator}

\* A second for every state that initialize seeds (lib.rs:506-516), none for
\* the others, which fall back on the default.
MCSeed ==
  [s \in TransferState |-> IF s \in Timed \cup {"RollingBack", "Failed"} THEN 1 ELSE 0]

Symmetry == Permutations(Integrator)
=============================================================================
