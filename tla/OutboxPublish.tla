---------------------------- MODULE OutboxPublish ----------------------------
(***************************************************************************)
(* Publishing to the outbox, backend/src/outbox/eventProducer.ts, with the *)
(* sequence function of database/migrations/022_outbox_events.ts: database *)
(* transactions that number their events per aggregate, statement by       *)
(* statement.                                                              *)
(*                                                                         *)
(* A number is taken by an upsert, which locks the aggregate's row of      *)
(* outbox_events_sequence to the end of the transaction.  A transaction    *)
(* may roll back at any point: its caller throws, a statement fails, the   *)
(* connection breaks, or PostgreSQL chooses it to break a deadlock.        *)
(***************************************************************************)
EXTENDS Integers, Sequences, FiniteSets

CONSTANTS
  Publisher,  \* transactions ever opened
  Aggregate,  \* (aggregate_type, aggregate_id)
  MaxBatch    \* bound: events one transaction publishes

ASSUME PublishAssumption == MaxBatch \in Nat \ {0}

VARIABLES
  publication,  \* per transaction: state, events still to publish, number drawn
  counter,      \* newest version of outbox_events_sequence, committed or not
  locking,      \* who has written that version and is still open
  outboxRow     \* rows inserted into outbox_events, by transaction

publishVars == <<publication, counter, locking, outboxRow>>

Batch == UNION {[1 .. n -> Aggregate] : n \in 1 .. MaxBatch}

PublishInit ==
  /\ publication = [t \in Publisher |-> [state |-> "none", todo |-> <<>>, drawn |-> 0]]
  /\ counter = [a \in Aggregate |-> 0]
  /\ locking = [a \in Aggregate |-> {}]
  /\ outboxRow = {}

Open(t) == publication[t].state = "open"

\* publish, publishBatch, or a service's transaction: events in caller's order.
BeginPublish(t, batch) ==
  /\ publication[t].state = "none"
  /\ publication' = [publication EXCEPT ![t] = [state |-> "open", todo |-> batch, drawn |-> 0]]
  /\ UNCHANGED <<counter, locking, outboxRow>>

\* BUG: a PostgreSQL sequence, which locks nothing.
Grantable_Nextval(t, a) == TRUE

\* The upsert waits for another transaction that wrote the row.
Grantable(t, a) == locking[a] \subseteq {t}

\* get_next_outbox_sequence.
NextSequence(t) ==
  LET a == Head(publication[t].todo) IN
  /\ Open(t) /\ publication[t].todo # <<>> /\ publication[t].drawn = 0
  /\ Grantable(t, a)
  /\ counter' = [counter EXCEPT ![a] = @ + 1]
  /\ locking' = [locking EXCEPT ![a] = @ \cup {t}]
  /\ publication' = [publication EXCEPT ![t].drawn = counter'[a]]
  /\ UNCHANGED outboxRow

\* The insert, unique by aggregate and number.
InsertEvent(t) ==
  LET a == Head(publication[t].todo)  n == publication[t].drawn IN
  /\ Open(t) /\ n > 0
  /\ \A r \in outboxRow : <<r.of, r.no>> # <<a, n>>
  /\ outboxRow' = outboxRow \cup {[of |-> a, no |-> n, by |-> t]}
  /\ publication' = [publication EXCEPT ![t].todo = Tail(@), ![t].drawn = 0]
  /\ UNCHANGED <<counter, locking>>

Unlocked(t) == [a \in Aggregate |-> locking[a] \ {t}]

CommitPublish(t) ==
  /\ Open(t) /\ publication[t].todo = <<>>
  /\ publication' = [publication EXCEPT ![t].state = "committed"]
  /\ locking' = Unlocked(t)
  /\ UNCHANGED <<counter, outboxRow>>

\* Numbers that t has drawn, the last one perhaps without its row.
Drawn(t, a) ==
  Cardinality({r \in outboxRow : r.by = t /\ r.of = a})
  + (IF publication[t].drawn > 0 /\ Head(publication[t].todo) = a THEN 1 ELSE 0)

\* The sequence row goes back to its version before the transaction.
RollbackPublish(t) ==
  /\ Open(t)
  /\ counter' = [a \in Aggregate |-> counter[a] - Drawn(t, a)]
  /\ outboxRow' = {r \in outboxRow : r.by # t}
  /\ locking' = Unlocked(t)
  /\ publication' = [publication EXCEPT ![t] = [state |-> "rolled back", todo |-> <<>>, drawn |-> 0]]

PublishNext ==
  \E t \in Publisher : \/ \E b \in Batch : BeginPublish(t, b)
                       \/ NextSequence(t) \/ InsertEvent(t)
                       \/ CommitPublish(t) \/ RollbackPublish(t)

PublishSpec == PublishInit /\ [][PublishNext]_publishVars

-----------------------------------------------------------------------------
(* Properties.                                                             *)

PublishTypeOK ==
  /\ publication \in [Publisher -> [state : {"none", "open", "committed", "rolled back"},
                                    todo : Seq(Aggregate), drawn : Nat]]
  /\ counter \in [Aggregate -> Nat] /\ locking \in [Aggregate -> SUBSET Publisher]
  /\ outboxRow \subseteq [of : Aggregate, no : Nat \ {0}, by : Publisher]

Published(a) == {r \in outboxRow : r.of = a /\ publication[r.by].state = "committed"}

\* However transactions interleave, batch and roll back: what a poll can see
\* of an aggregate are the numbers 1 .. n without gap or repeat at any time,
\* so that no event ever appears behind one that was already visible, and the
\* sequence goes on where they end once nobody is publishing.
PublishedInOrder ==
  \A a \in Aggregate :
    LET n == Cardinality(Published(a)) IN
    /\ {r.no : r \in Published(a)} = 1 .. n
    /\ locking[a] = {} => counter[a] = n
=============================================================================
