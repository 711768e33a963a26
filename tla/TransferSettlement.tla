------------------------- MODULE TransferSettlement -------------------------
(***************************************************************************)
(* What the transfer contract promises about each bridge transfer, with    *)
(* its twelve lifecycle states folded into the outcomes a counterparty     *)
(* can rely on.  A transfer is settled only after it was cleared, it is    *)
(* cleared only on complete grounds (liquidity escrowed, reserves          *)
(* verified, oracle attested) or on an administrator's waiver, and an      *)
(* outcome that ends the transfer is never taken back.                     *)
(***************************************************************************)
CONSTANT Ids                      \* the transfers that can ever be opened

VARIABLES outcome, grounds
vars == <<outcome, grounds>>

Outcome == {"none", "open", "cleared", "stalled", "unwinding",
            "settled", "failed", "refunded"}
Final   == {"settled", "failed", "refunded"}
Ground  == {"escrowed", "verified", "attested", "waived"}

\* Grounds that, once given, are never withdrawn; a verdict may be revised.
Sticky  == {"escrowed", "waived"}

Sufficient(g) == {"escrowed", "verified", "attested"} \subseteq g \/ "waived" \in g

Init == /\ outcome = [id \in Ids |-> "none"]
        /\ grounds = [id \in Ids |-> {}]

\* Move one transfer to outcome o with grounds g.
Move(id, o, g) == /\ outcome' = [outcome EXCEPT ![id] = o]
                  /\ grounds' = [grounds EXCEPT ![id] = g]

Open(id) == outcome[id] = "none" /\ Move(id, "open", {})

Gather(id) ==
  /\ outcome[id] = "open"
  /\ \E g \in SUBSET Ground : /\ grounds[id] \cap Sticky \subseteq g
                              /\ Move(id, "open", g)

Clear(id) ==
  /\ outcome[id] = "open"
  /\ \E g \in {grounds[id], grounds[id] \cup {"waived"}} :
        Sufficient(g) /\ Move(id, "cleared", g)

Settle(id) == outcome[id] = "cleared" /\ Move(id, "settled", grounds[id])

Stall(id)  == outcome[id] \in {"open", "cleared"} /\ Move(id, "stalled", grounds[id])

\* Only an administrator revives or buries a stalled transfer.
Resolve(id) ==
  /\ outcome[id] = "stalled"
  /\ \E o \in {"open", "cleared", "failed", "refunded"} :
        Move(id, o, grounds[id] \cup {"waived"})

Unwind(id) == /\ outcome[id] \in {"open", "cleared"}
              /\ \E o \in {"unwinding", "refunded", "failed"} : Move(id, o, grounds[id])

Refund(id) == outcome[id] = "unwinding" /\ Move(id, "refunded", grounds[id])

Next == \E id \in Ids : \/ Open(id) \/ Gather(id) \/ Clear(id) \/ Settle(id)
                        \/ Stall(id) \/ Resolve(id) \/ Unwind(id) \/ Refund(id)

Spec == Init /\ [][Next]_vars
=============================================================================
