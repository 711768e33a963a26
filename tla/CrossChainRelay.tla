-------------------------- MODULE CrossChainRelay --------------------------
(***************************************************************************)
(* The Soroban contract contracts/soroban/src/relay: cross-chain messages, *)
(* their priority queue, the operators that relay them, and their expiry.  *)
(*                                                                         *)
(* One action is one invocation that returns Ok.  One that returns Err is  *)
(* reverted by the host, what it wrote before included; but batch_relay    *)
(* returns Ok whatever became of its items, and keeps what they wrote.     *)
(* A message is known by its place in the order of acceptance (its id is a *)
(* hash over sender, nonce and the rest).  `left' is the number of seconds *)
(* to its expiry.  Payloads and fees are only checked on the way in.       *)
(***************************************************************************)
EXTENDS Collections

CONSTANTS
  Sender,      \* accounts that send messages
  Operator,    \* accounts that may be registered as relay operators
  Chain,       \* ChainId
  Preset,      \* chains initialize enables; the others have no configuration
  Ttl,         \* seconds to live a message may have, the default one included
  Priority,    \* message_priority_value: 0 is the most urgent
  MaxMessages  \* bound: messages ever sent

ASSUME RelayAssumption ==
  /\ Preset \subseteq Chain
  /\ Ttl \subseteq Nat \ {0}
  /\ Priority \subseteq Nat
  /\ MaxMessages \in Nat

VARIABLES
  initialized, \* Initialized
  config,      \* ChainConfig(chain): absent, enabled or disabled
  operator,    \* Operator(address): absent, active or inactive
  nonce,       \* Nonce(sender)
  message,     \* Message(id), in order of acceptance
  queue,       \* MessageQueue
  tally,       \* messages_relayed of each operator
  total,       \* TotalRelayed
  relayed      \* message_relayed events, as pairs of message and operator

setup == <<initialized, config, operator>>
relayVars == <<initialized, config, operator, nonce, message, queue, tally, total, relayed>>

\* MessageStatus::Failed is never stored.
MessageStatus == {"Pending", "Verified", "Relayed", "Expired"}

Message == [sender : Sender, nonce : Nat, source : Chain, priority : Priority,
            left : Nat, status : MessageStatus]

Sent == 1 .. Len(message)

IsExpired(m) == message[m].left = 0

\* BUG: a relayed message passes the status check.
Relayable_RelayedToo(m) == message[m].status # "Expired"

Relayable(m) == message[m].status \in {"Pending", "Verified"}

\* The messages of S, with a new status.
Marked(S, status) ==
  [m \in Sent |-> IF m \in S THEN [message[m] EXCEPT !.status = status] ELSE message[m]]

RelayInit ==
  /\ initialized = FALSE
  /\ config = [c \in Chain |-> "absent"]
  /\ operator = [o \in Operator |-> "absent"]
  /\ nonce = [s \in Sender |-> 0]
  /\ message = <<>>
  /\ queue = <<>>
  /\ tally = [o \in Operator |-> 0]
  /\ total = 0
  /\ relayed = {}

Initialize ==
  /\ ~ initialized
  /\ initialized' = TRUE
  /\ config' = [c \in Chain |-> IF c \in Preset THEN "enabled" ELSE "absent"]
  /\ UNCHANGED <<operator, nonce, message, queue, tally, total, relayed>>

ConfigureChain(c, setting) ==
  /\ initialized
  /\ config' = [config EXCEPT ![c] = setting]
  /\ UNCHANGED <<initialized, operator, nonce, message, queue, tally, total, relayed>>

\* An operator is registered once; nothing reactivates it.
RegisterRelayOperator(o) ==
  /\ initialized
  /\ operator[o] = "absent"
  /\ operator' = [operator EXCEPT ![o] = "active"]
  /\ UNCHANGED <<initialized, config, nonce, message, queue, tally, total, relayed>>

DeactivateRelayOperator(o) ==
  /\ initialized
  /\ operator[o] # "absent"
  /\ operator' = [operator EXCEPT ![o] = "inactive"]
  /\ UNCHANGED <<initialized, config, nonce, message, queue, tally, total, relayed>>

-----------------------------------------------------------------------------
\* BUG: a message overtakes its equals.
Overtakes_Equals(p, m) == p <= message[m].priority

Overtakes(p, m) == p < message[m].priority

\* insert_queue_by_priority: before the first message of lower priority.
Insertion(p, id) ==
  LET behind == {i \in 1 .. Len(queue) : Overtakes(p, queue[i])}
      at     == IF behind = {} THEN Len(queue) + 1
                ELSE CHOOSE i \in behind : \A j \in behind : i <= j
  IN SubSeq(queue, 1, at - 1) \o <<id>> \o SubSeq(queue, at, Len(queue))

NonceAccepted(s, n) == n = nonce[s]

SendMessage(s, n, source, dest, p, ttl) ==
  /\ initialized
  /\ Len(message) < MaxMessages
  /\ config[dest] = "enabled"
  /\ NonceAccepted(s, n)
  /\ message' = Append(message, [sender |-> s, nonce |-> n, source |-> source,
                                 priority |-> p, left |-> ttl, status |-> "Pending"])
  /\ queue' = Insertion(p, Len(message) + 1)
  /\ nonce' = [nonce EXCEPT ![s] = @ + 1]
  /\ UNCHANGED <<setup, tally, total, relayed>>

\* The proof is signed with the key of an operator that is still active.
VerifyMessage(m) ==
  /\ m \in Sent
  /\ ~ IsExpired(m)
  /\ message[m].status = "Pending"
  /\ config[message[m].source] = "enabled"
  /\ \E o \in Operator : operator[o] = "active"
  /\ message' = Marked({m}, "Verified")
  /\ UNCHANGED <<setup, nonce, queue, tally, total, relayed>>

\* BUG: relayed messages stay in the queue.
Unqueued_Nothing(S) == queue

Unqueued(S) == Selected(queue, Sent \ S)

\* Operator o relays the messages in `done'; those in `late' have expired.
Relay(o, done, late) ==
  /\ operator[o] = "active"
  /\ message' = [m \in Sent |-> IF m \in done THEN [message[m] EXCEPT !.status = "Relayed"]
                                ELSE Marked(late, "Expired")[m]]
  /\ queue' = Unqueued(done)
  /\ tally' = [tally EXCEPT ![o] = @ + Cardinality(done)]
  /\ total' = total + Cardinality(done)
  /\ relayed' = relayed \cup (done \X {o})
  /\ UNCHANGED <<setup, nonce>>

RelayMessage(o, m) ==
  /\ m \in Sent
  /\ ~ IsExpired(m) /\ Relayable(m)
  /\ Relay(o, {m}, {})

\* Items of a batch differ in their messages and in whether their signature is
\* the operator's.  Their order is immaterial, and so is a repeated item:
\* its message was relayed or marked the first time.  An operator that is not
\* active fails every item, before anything is written.
BatchRelay(o, items, signed) ==
  /\ items # {} /\ signed \subseteq items
  /\ LET late == {m \in items : IsExpired(m)}
     IN Relay(o, {m \in signed \ late : Relayable(m)}, late)

-----------------------------------------------------------------------------
\* BUG: a verified message cannot expire any more.
Lapsed_PendingOnly(m) == IsExpired(m) /\ message[m].status = "Pending"

\* BUG: the clock is not asked.
Lapsed_AnyTime(m) == message[m].status \in {"Pending", "Verified"}

Lapsed(m) == IsExpired(m) /\ message[m].status \in {"Pending", "Verified"}

Removable(m) == Lapsed(m) \/ message[m].status \in {"Relayed", "Expired"}

\* The scan goes on past a removed message and stops after `max' kept ones.
Reached(m, max) ==
  \E i \in 1 .. Len(queue) :
    /\ queue[i] = m
    /\ Cardinality({j \in 1 .. i - 1 : ~ Removable(queue[j])}) < max

\* BUG: what could not be relayed in time counts as failed.
CleanupStatus_Failed == "Failed"

CleanupStatus == "Expired"

CleanupExpiredMessages(max) ==
  LET gone == {m \in Sent : Removable(m) /\ Reached(m, max)} IN
  /\ initialized
  /\ gone # {}
  /\ message' = Marked({m \in gone : Lapsed(m)}, CleanupStatus)
  /\ queue' = Unqueued(gone)
  /\ UNCHANGED <<setup, nonce, tally, total, relayed>>

\* A second passes on the ledger.
Tick ==
  /\ \E m \in Sent : ~ IsExpired(m)
  /\ message' = [m \in Sent |->
        [message[m] EXCEPT !.left = IF IsExpired(m) THEN 0 ELSE @ - 1]]
  /\ UNCHANGED <<setup, nonce, queue, tally, total, relayed>>

Manage ==
  \/ Initialize
  \/ \E c \in Chain, setting \in {"enabled", "disabled"} : ConfigureChain(c, setting)
  \/ \E o \in Operator : RegisterRelayOperator(o) \/ DeactivateRelayOperator(o)

Send ==
  \E s \in Sender, n \in 0 .. MaxMessages, source, dest \in Chain, p \in Priority, ttl \in Ttl :
     SendMessage(s, n, source, dest, p, ttl)

RelayNext ==
  \/ Manage
  \/ Send
  \/ \E m \in Sent : VerifyMessage(m)
  \/ \E o \in Operator, m \in Sent : RelayMessage(o, m)
  \/ \E o \in Operator, items, signed \in SUBSET Sent : BatchRelay(o, items, signed)
  \/ \E max \in 1 .. MaxMessages : CleanupExpiredMessages(max)
  \/ Tick

RelaySpec == RelayInit /\ [][RelayNext]_relayVars

\* Ledgers keep closing, and somebody calls the permissionless clean-up with
\* a scan as long as the queue.
RelayFairness == WF_relayVars(Tick) /\ WF_relayVars(CleanupExpiredMessages(MaxMessages))

-----------------------------------------------------------------------------
(* Properties.                                                             *)

\* Every stored key holds a value of its type, and no message is ever Failed.
RelayTypeOK ==
  /\ initialized \in BOOLEAN
  /\ config \in [Chain -> {"absent", "enabled", "disabled"}]
  /\ operator \in [Operator -> {"absent", "active", "inactive"}]
  /\ nonce \in [Sender -> Nat]
  /\ message \in Seq(Message)
  /\ queue \in Seq(Sent)
  /\ tally \in [Operator -> Nat]
  /\ total \in Nat
  /\ relayed \subseteq Sent \X Operator

\* The queue holds every message that can still be relayed, none twice and
\* none that was relayed, through batches that half fail and partial
\* clean-ups; its head is the oldest message of the highest priority.
QueueOrder ==
  /\ \A m \in Sent : Relayable(m) => \E i \in 1 .. Len(queue) : queue[i] = m
  /\ \A i \in 1 .. Len(queue) : message[queue[i]].status # "Relayed"
  /\ \A i, j \in 1 .. Len(queue) : i < j =>
        \/ message[queue[i]].priority < message[queue[j]].priority
        \/ message[queue[i]].priority = message[queue[j]].priority /\ queue[i] < queue[j]

\* A signed message is relayed at most once: accepted once, as the nonces of
\* its sender are 0, 1, 2 ... in the order of acceptance, and then relayed by
\* one operator, although expiry may overwrite the status that says so;
\* TotalRelayed and the operators' own counters agree with the events.
RelayedOnce ==
  /\ \A m \in Sent : message[m].nonce =
        Cardinality({k \in 1 .. m - 1 : message[k].sender = message[m].sender})
  /\ \A m \in Sent : /\ Cardinality({o \in Operator : <<m, o>> \in relayed}) <= 1
                     /\ message[m].status = "Relayed" => \E o \in Operator : <<m, o>> \in relayed
                     /\ Relayable(m) => \A o \in Operator : <<m, o>> \notin relayed
  /\ total = Cardinality(relayed)
  /\ \A o \in Operator : tally[o] = Cardinality({m \in Sent : <<m, o>> \in relayed})

\* A message only counts as expired once its time is up, whoever marked it.
ExpiredIsLate == \A m \in Sent : message[m].status = "Expired" => IsExpired(m)

Open(m) == m \in Sent /\ Relayable(m)

\* Nothing waits for ever: a message is relayed or expires in the end,
\* whatever stands before it in the queue.
SentIsResolved == \A m \in 1 .. MaxMessages : Open(m) ~> ~ Open(m)

\* cleanup_expired_messages, "cleanup expired pending messages": expiry is for
\* messages that are still pending; one that was relayed stays relayed.
RelayedStays ==
  [][\A m \in Sent : message[m].status = "Relayed" => message'[m].status = "Relayed"]_relayVars
=============================================================================
