---------------------------- MODULE SorobanHost ----------------------------
(***************************************************************************)
(* What every contract under contracts/soroban sees of its host: accounts  *)
(* that sign invocations, and the timestamp of the ledger.  An invocation  *)
(* that panics or returns Err is reverted, so a contract's action is an    *)
(* invocation that succeeds and its checks are the guards.                 *)
(***************************************************************************)
EXTENDS Integers, Sequences, FiniteSets

CONSTANTS
  Account,  \* addresses whose identity a contract compares
  MaxTime   \* bound: the last timestamp

ASSUME HostAssumption == MaxTime \in Nat

VARIABLE now  \* env.ledger().timestamp(), in units of the shortest delay

CloseLedger == now < MaxTime /\ now' = now + 1
=============================================================================
