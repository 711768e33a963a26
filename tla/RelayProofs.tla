---------------------------- MODULE RelayProofs -----------------------------
(***************************************************************************)
(* The cross-chain relay: nonces, events and the queue.                    *)
(***************************************************************************)
EXTENDS CrossChainRelay, CollectionProofs, TLAPS

-----------------------------------------------------------------------------
(* Messages, for any senders, operators, chains and priorities. The nonces *)
(* are the order of acceptance, each relayed message has one event, and    *)
(* the queue has what is still to be relayed, in order.                    *)

Settings == {"absent", "enabled", "disabled"}
Standing == {"absent", "active", "inactive"}

\* Who sent which messages, and in which order.
NonceInv ==
  /\ message \in Seq(Message) /\ nonce \in [Sender -> Nat]
  /\ \A s \in Sender : nonce[s] = Cardinality({k \in Sent : message[k].sender = s})
  /\ \A m \in Sent : message[m].nonce =
        Cardinality({k \in 1 .. m - 1 : message[k].sender = message[m].sender})

\* Who relayed which messages.
EventInv ==
  /\ relayed \subseteq Sent \X Operator /\ IsFiniteSet(relayed)
  /\ total = Cardinality(relayed) /\ tally \in [Operator -> Nat]
  /\ \A o \in Operator : tally[o] = Cardinality({m \in Sent : <<m, o>> \in relayed})
  /\ \A m \in Sent :
       /\ \A o1, o2 \in Operator : <<m, o1>> \in relayed /\ <<m, o2>> \in relayed => o1 = o2
       /\ message[m].status = "Relayed" => \E o \in Operator : <<m, o>> \in relayed
       /\ Relayable(m) => \A o \in Operator : <<m, o>> \notin relayed

QueueInv == queue \in Seq(Sent) /\ QueueOrder

RelayInv ==
  /\ initialized \in BOOLEAN
  /\ config \in [Chain -> Settings] /\ operator \in [Operator -> Standing]
  /\ NonceInv /\ EventInv /\ QueueInv /\ ExpiredIsLate

\* Nothing has been sent.
LEMMA RelayInvInit == RelayInit => RelayInv
<1> SUFFICES ASSUME RelayInit PROVE RelayInv
  OBVIOUS
<1>1. /\ message = <<>> /\ queue = <<>> /\ relayed = {} /\ total = 0 /\ Sent = {}
      /\ message \in Seq(Message) /\ queue \in Seq(Sent) /\ Len(queue) = 0
  BY DEF RelayInit, Sent
<1>2. NonceInv
  <2>1. \A s \in Sender : {k \in Sent : message[k].sender = s} = {} /\ nonce[s] = 0
    BY <1>1 DEF RelayInit
  <2>2. nonce \in [Sender -> Nat]
    BY DEF RelayInit
  <2> QED
    BY <1>1, <2>1, <2>2, FS_EmptySet DEF NonceInv
<1>3. EventInv
  <2>1. \A o \in Operator : {m \in Sent : <<m, o>> \in relayed} = {} /\ tally[o] = 0
    BY <1>1 DEF RelayInit
  <2>2. tally \in [Operator -> Nat]
    BY DEF RelayInit
  <2> QED
    BY <1>1, <2>1, <2>2, FS_EmptySet DEF EventInv
<1>4. QueueInv /\ ExpiredIsLate
  BY <1>1 DEF QueueInv, QueueOrder, ExpiredIsLate
<1>5. /\ initialized \in BOOLEAN
      /\ config \in [Chain -> Settings] /\ operator \in [Operator -> Standing]
  BY DEF RelayInit, Settings, Standing
<1> QED
  BY <1>2, <1>3, <1>4, <1>5 DEF RelayInv

-----------------------------------------------------------------------------
\* Messages change their status and their time left, nothing else.
Rewritten ==
  /\ message' \in Seq(Message) /\ Len(message') = Len(message)
  /\ \A m \in Sent : /\ message'[m].sender = message[m].sender
                     /\ message'[m].nonce = message[m].nonce
                     /\ message'[m].priority = message[m].priority

\* Rewriting messages leaves their nonces what they were.
LEMMA NoncesStay ==
  ASSUME NonceInv, Rewritten, nonce' = nonce PROVE NonceInv'
<1>1. Sent' = Sent /\ Len(message) \in Nat
  BY DEF Rewritten, Sent, NonceInv
<1>2. ASSUME NEW s \in Sender PROVE nonce'[s] = Cardinality({k \in Sent' : message'[k].sender = s})
  <2>1. {k \in Sent' : message'[k].sender = s} = {k \in Sent : message[k].sender = s}
    BY <1>1 DEF Rewritten
  <2> QED
    BY <2>1 DEF NonceInv
<1>3. ASSUME NEW m \in Sent'
      PROVE  message'[m].nonce =
               Cardinality({k \in 1 .. m - 1 : message'[k].sender = message'[m].sender})
  <2>1. \A k \in 1 .. m - 1 : k \in Sent
    BY <1>1 DEF Sent
  <2>2. m \in Sent
    BY <1>1
  <2>3. {k \in 1 .. m - 1 : message'[k].sender = message'[m].sender}
          = {k \in 1 .. m - 1 : message[k].sender = message[m].sender}
    BY <2>1, <2>2 DEF Rewritten
  <2> QED
    BY <2>2, <2>3 DEF NonceInv, Rewritten
<1> QED
  BY <1>1, <1>2, <1>3 DEF NonceInv, Rewritten

\* Messages keep their order when only their statuses and times change.
LEMMA OrderStays ==
  ASSUME NonceInv, QueueInv, Rewritten, queue' = queue,
         \A m \in Sent : /\ message'[m].status = "Relayed" => message[m].status = "Relayed"
                         /\ message'[m].status \in {"Pending", "Verified"} => Relayable(m)
  PROVE  QueueInv'
<1>1. Sent' = Sent /\ queue \in Seq(Sent) /\ \A i \in 1 .. Len(queue) : queue[i] \in Sent
  BY ElementOfSeq DEF Rewritten, Sent, QueueInv
<1>2. \A m \in Sent : message'[m].status \in {"Pending", "Verified"} => \E i \in 1 .. Len(queue) : queue[i] = m
  BY DEF QueueInv, QueueOrder
<1>3. \A i \in 1 .. Len(queue) : message'[queue[i]].status # "Relayed"
  BY <1>1 DEF QueueInv, QueueOrder
<1>4. ASSUME NEW i \in 1 .. Len(queue), NEW j \in 1 .. Len(queue), i < j
      PROVE  \/ message'[queue[i]].priority < message'[queue[j]].priority
             \/ message'[queue[i]].priority = message'[queue[j]].priority /\ queue[i] < queue[j]
  <2>1. /\ message'[queue[i]].priority = message[queue[i]].priority
        /\ message'[queue[j]].priority = message[queue[j]].priority
    BY <1>1 DEF Rewritten
  <2> QED
    BY <1>4, <2>1 DEF QueueInv, QueueOrder
<1> QED
  BY <1>1, <1>2, <1>3, <1>4 DEF QueueInv, QueueOrder, Relayable

\* Nor does it change when messages that need no queue any more are taken out.
LEMMA OrderShrinks ==
  ASSUME NonceInv, QueueInv, Rewritten, NEW S, queue' = Unqueued(S),
         \A m \in Sent :
           /\ message'[m].status = "Relayed" => message[m].status = "Relayed" \/ m \in S
           /\ message'[m].status \in {"Pending", "Verified"} => Relayable(m) /\ m \notin S
  PROVE  QueueInv'
<1>1. /\ Sent' = Sent /\ queue \in Seq(Sent) /\ Len(queue) \in Nat
      /\ \A i \in 1 .. Len(queue) : queue[i] \in Sent
  BY ElementOfSeq DEF Rewritten, Sent, QueueInv
<1>2. queue' \in Seq(Sent) /\ Selection(queue, Sent \ S, Len(queue), queue')
  BY <1>1, SelectedIs DEF Unqueued
<1>3. \A i \in 1 .. Len(queue') : queue'[i] \in Sent
  BY <1>2, ElementOfSeq
<1>4. ASSUME NEW m \in Sent, message'[m].status \in {"Pending", "Verified"}
      PROVE  \E i \in 1 .. Len(queue') : queue'[i] = m
  <2>1. PICK i \in 1 .. Len(queue) : queue[i] = m
    BY <1>4 DEF QueueInv, QueueOrder
  <2>2. queue[i] \in Sent \ S
    BY <1>4, <2>1
  <2>3. \E j \in 1 .. Len(queue') : queue'[j] = queue[i]
    BY <1>2, <2>2 DEF Selection
  <2> QED
    BY <2>1, <2>3
<1>5. ASSUME NEW i \in 1 .. Len(queue') PROVE message'[queue'[i]].status # "Relayed"
  <2>1. PICK j \in 1 .. Len(queue) : queue[j] = queue'[i] /\ queue'[i] \in Sent \ S
    BY <1>2 DEF Selection
  <2>2. message[queue[j]].status # "Relayed"
    BY DEF QueueInv, QueueOrder
  <2> QED
    BY <2>1, <2>2
<1>6. ASSUME NEW i \in 1 .. Len(queue'), NEW j \in 1 .. Len(queue'), i < j
      PROVE  \/ message'[queue'[i]].priority < message'[queue'[j]].priority
             \/ message'[queue'[i]].priority = message'[queue'[j]].priority /\ queue'[i] < queue'[j]
  <2>1. PICK k \in 1 .. Len(queue), l \in 1 .. Len(queue) :
          k < l /\ queue[k] = queue'[i] /\ queue[l] = queue'[j]
    <3> DEFINE kept == Sent \ S
    <3>1. Selection(queue, kept, Len(queue), queue')
      BY <1>2
    <3>2. \A x, y \in 1 .. Len(queue') : x < y =>
            \E k, l \in 1 .. Len(queue) : k < l /\ queue[k] = queue'[x] /\ queue[l] = queue'[y]
      BY <3>1, Zenon DEF Selection
    <3> QED
      BY <1>6, <3>2
  <2>2. \/ message[queue[k]].priority < message[queue[l]].priority
        \/ message[queue[k]].priority = message[queue[l]].priority /\ queue[k] < queue[l]
    BY <2>1 DEF QueueInv, QueueOrder
  <2>3. /\ message'[queue'[i]].priority = message[queue[k]].priority
        /\ message'[queue'[j]].priority = message[queue[l]].priority
    BY <1>1, <2>1 DEF Rewritten
  <2> QED
    BY <2>1, <2>2, <2>3
<1> QED
  BY <1>1, <1>2, <1>4, <1>5, <1>6 DEF QueueInv, QueueOrder, Relayable

-----------------------------------------------------------------------------
\* What a call writes to the messages one by one is a rewriting.
LEMMA RewritingIs ==
  ASSUME NonceInv, message' = [m \in Sent |-> message'[m]],
         \A m \in Sent : /\ message'[m] \in Message
                         /\ message'[m].sender = message[m].sender
                         /\ message'[m].nonce = message[m].nonce
                         /\ message'[m].priority = message[m].priority
  PROVE  Rewritten
<1>1. Len(message) \in Nat
  BY DEF NonceInv
<1>2. message' \in [1 .. Len(message) -> Message]
  BY DEF Sent
<1>3. message' \in Seq(Message) /\ Len(message') = Len(message)
  BY <1>1, <1>2
<1> QED
  BY <1>3 DEF Rewritten

\* Marking messages writes their status and nothing else.
LEMMA MarkedIs ==
  ASSUME NonceInv, NEW S, NEW st \in MessageStatus
  PROVE  /\ Marked(S, st) = [m \in Sent |-> Marked(S, st)[m]]
         /\ \A m \in Sent :
              /\ Marked(S, st)[m] \in Message
              /\ Marked(S, st)[m].sender = message[m].sender
              /\ Marked(S, st)[m].nonce = message[m].nonce
              /\ Marked(S, st)[m].priority = message[m].priority
              /\ Marked(S, st)[m].left = message[m].left
              /\ Marked(S, st)[m].status = IF m \in S THEN st ELSE message[m].status
<1>1. \A m \in Sent : message[m] \in Message
  BY ElementOfSeq DEF NonceInv, Sent
<1>2. Marked(S, st) = [m \in Sent |-> IF m \in S THEN [message[m] EXCEPT !.status = st] ELSE message[m]]
  BY DEF Marked
<1>3. ASSUME NEW m \in Sent
      PROVE  /\ Marked(S, st)[m] \in Message
             /\ Marked(S, st)[m].sender = message[m].sender
             /\ Marked(S, st)[m].nonce = message[m].nonce
             /\ Marked(S, st)[m].priority = message[m].priority
             /\ Marked(S, st)[m].left = message[m].left
             /\ Marked(S, st)[m].status = IF m \in S THEN st ELSE message[m].status
  <2>1. Marked(S, st)[m] = IF m \in S THEN [message[m] EXCEPT !.status = st] ELSE message[m]
    BY <1>2
  <2>2. message[m] \in Message
    BY <1>1
  <2> QED
    BY <2>1, <2>2 DEF Message
<1> QED
  BY <1>2, <1>3

\* The events of a rewriting that relays nothing.
LEMMA EventsStay ==
  ASSUME NonceInv, EventInv, Rewritten, UNCHANGED <<tally, total, relayed>>,
         \A m \in Sent : /\ message'[m].status = "Relayed" => message[m].status = "Relayed"
                         /\ message'[m].status \in {"Pending", "Verified"} => Relayable(m)
  PROVE  EventInv'
<1>1. Sent' = Sent
  BY DEF Rewritten, Sent
<1>2. \A o \in Operator : {m \in Sent' : <<m, o>> \in relayed'} = {m \in Sent : <<m, o>> \in relayed}
  BY <1>1
<1>3. \A o \in Operator : tally'[o] = Cardinality({m \in Sent' : <<m, o>> \in relayed'})
  BY <1>2 DEF EventInv
<1>4. ASSUME NEW m \in Sent'
      PROVE  /\ \A o1, o2 \in Operator : <<m, o1>> \in relayed' /\ <<m, o2>> \in relayed' => o1 = o2
             /\ message'[m].status = "Relayed" => \E o \in Operator : <<m, o>> \in relayed'
             /\ message'[m].status \in {"Pending", "Verified"} => \A o \in Operator : <<m, o>> \notin relayed'
  BY <1>1 DEF EventInv
<1> QED
  BY <1>1, <1>3, <1>4 DEF EventInv, Relayable

\* Relaying adds one event for each message, and no message has two.
LEMMA EventsGrow ==
  ASSUME NonceInv, EventInv, Rewritten, NEW o \in Operator, NEW done \in SUBSET Sent,
         \A m \in done : Relayable(m),
         tally' = [tally EXCEPT ![o] = @ + Cardinality(done)],
         total' = total + Cardinality(done), relayed' = relayed \cup (done \X {o}),
         \A m \in Sent :
           /\ message'[m].status = "Relayed" => message[m].status = "Relayed" \/ m \in done
           /\ message'[m].status \in {"Pending", "Verified"} => Relayable(m) /\ m \notin done
  PROVE  EventInv'
<1>1. Sent' = Sent /\ Len(message) \in Nat
  BY DEF Rewritten, Sent, NonceInv
<1>2. IsFiniteSet(done) /\ Cardinality(done) \in Nat
  <2>1. IsFiniteSet(Sent)
    BY <1>1, FS_Interval DEF Sent
  <2> QED
    BY <2>1, FS_Subset, FS_CardinalityType
<1> DEFINE new == done \X {o}
           Of(e) == {m \in Sent : <<m, e>> \in relayed}
<1>3. \A g : g \in new <=> \E m \in done : g = <<m, o>>
  OBVIOUS
<1>4. IsFiniteSet(new) /\ Cardinality(new) = Cardinality(done)
  <2>1. IsFiniteSet({o}) /\ Cardinality({o}) = 1
    BY FS_Singleton
  <2>2. IsFiniteSet(new) /\ Cardinality(new) = Cardinality(done) * Cardinality({o})
    BY <1>2, <2>1, FS_Product
  <2> QED
    BY <1>2, <2>1, <2>2
<1>5. \A m \in done, e \in Operator : <<m, e>> \notin relayed
  BY DEF EventInv
<1>6. relayed \cap new = {}
  BY <1>3, <1>5
<1>7. IsFiniteSet(relayed') /\ Cardinality(relayed') = Cardinality(relayed) + Cardinality(done)
  <2>1. IsFiniteSet(relayed) /\ Cardinality(relayed) \in Nat
    BY FS_CardinalityType DEF EventInv
  <2>2. relayed' = relayed \cup new
    OBVIOUS
  <2> HIDE DEF new
  <2>3. /\ IsFiniteSet(relayed \cup new)
        /\ Cardinality(relayed \cup new)
             = Cardinality(relayed) + Cardinality(new) - Cardinality(relayed \cap new)
    BY <1>4, <2>1, FS_Union
  <2>4. Cardinality(relayed \cap new) = 0
    BY <1>6, FS_EmptySet
  <2>5. Cardinality(relayed \cup new) = Cardinality(relayed) + Cardinality(done)
    BY <1>2, <1>4, <2>1, <2>3, <2>4
  <2> QED
    BY <2>2, <2>3, <2>5
<1>8. ASSUME NEW e \in Operator
      PROVE  tally'[e] = Cardinality({m \in Sent' : <<m, e>> \in relayed'}) /\ tally'[e] \in Nat
  <2>1. tally[e] = Cardinality(Of(e)) /\ tally[e] \in Nat
    BY DEF EventInv
  <2>2. CASE e # o
    <3>1. {m \in Sent' : <<m, e>> \in relayed'} = Of(e)
      BY <1>1, <1>3, <2>2
    <3>2. tally'[e] = tally[e]
      BY <2>2 DEF EventInv
    <3> QED
      BY <2>1, <3>1, <3>2
  <2>3. CASE e = o
    <3>1. {m \in Sent' : <<m, e>> \in relayed'} = Of(e) \cup done
      BY <1>1, <1>3, <2>3
    <3>2. Of(e) \cap done = {}
      BY <1>5
    <3>3. IsFiniteSet(Of(e))
      <4>1. IsFiniteSet(Sent)
        BY <1>1, FS_Interval DEF Sent
      <4> QED
        BY <4>1, FS_Subset
    <3>4. tally'[e] = tally[e] + Cardinality(done)
      BY <2>3 DEF EventInv
    <3> HIDE DEF Of
    <3>5. Cardinality(Of(e) \cup done) = Cardinality(Of(e)) + Cardinality(done)
      <4>1. Cardinality(Of(e) \cup done)
              = Cardinality(Of(e)) + Cardinality(done) - Cardinality(Of(e) \cap done)
        BY <1>2, <3>3, FS_Union
      <4>2. Cardinality(Of(e) \cap done) = 0
        BY <3>2, FS_EmptySet
      <4>3. Cardinality(Of(e)) \in Nat
        BY <3>3, FS_CardinalityType
      <4> QED
        BY <1>2, <4>1, <4>2, <4>3
    <3>6. Cardinality({m \in Sent' : <<m, e>> \in relayed'}) = Cardinality(Of(e)) + Cardinality(done)
      BY <3>1, <3>5
    <3>7. tally'[e] \in Nat
      BY <1>2, <2>1, <3>4
    <3> QED
      BY <2>1, <3>4, <3>6, <3>7
  <2> QED
    BY <2>2, <2>3
<1>9. ASSUME NEW m \in Sent'
      PROVE  /\ \A o1, o2 \in Operator : <<m, o1>> \in relayed' /\ <<m, o2>> \in relayed' => o1 = o2
             /\ message'[m].status = "Relayed" => \E e \in Operator : <<m, e>> \in relayed'
             /\ message'[m].status \in {"Pending", "Verified"} => \A e \in Operator : <<m, e>> \notin relayed'
  <2>1. m \in Sent
    BY <1>1
  <2>2. \A e \in Operator : <<m, e>> \in relayed' <=> <<m, e>> \in relayed \/ (m \in done /\ e = o)
    BY <1>3
  <2>3. CASE m \in done
    BY <1>5, <2>1, <2>2, <2>3
  <2>4. CASE m \notin done
    BY <2>1, <2>2, <2>4 DEF EventInv
  <2> QED
    BY <2>3, <2>4
<1>10. relayed' \subseteq Sent' \X Operator /\ total' = Cardinality(relayed')
  BY <1>1, <1>7 DEF EventInv
<1>11. tally' \in [Operator -> Nat]
  BY <1>2 DEF EventInv
<1> QED
  BY <1>7, <1>8, <1>9, <1>10, <1>11 DEF EventInv, Relayable

-----------------------------------------------------------------------------
\* The step of every relay, whatever the items of the call.
LEMMA RelayKeeps ==
  ASSUME RelayInv, NEW o \in Operator, NEW done \in SUBSET Sent, NEW late \in SUBSET Sent,
         \A m \in done : Relayable(m) /\ ~ IsExpired(m), \A m \in late : IsExpired(m),
         Relay(o, done, late)
  PROVE  RelayInv'
<1>1. /\ message' = [m \in Sent |-> IF m \in done THEN [message[m] EXCEPT !.status = "Relayed"]
                                    ELSE Marked(late, "Expired")[m]]
      /\ queue' = Unqueued(done)
      /\ tally' = [tally EXCEPT ![o] = @ + Cardinality(done)]
      /\ total' = total + Cardinality(done)
      /\ relayed' = relayed \cup (done \X {o})
      /\ UNCHANGED <<initialized, config, operator, nonce>>
  BY DEF Relay, setup
<1>2. NonceInv /\ EventInv /\ QueueInv /\ ExpiredIsLate
  BY DEF RelayInv
<1>3. ASSUME NEW m \in Sent
      PROVE  /\ message'[m] \in Message
             /\ message'[m].sender = message[m].sender
             /\ message'[m].nonce = message[m].nonce
             /\ message'[m].priority = message[m].priority
             /\ message'[m].left = message[m].left
             /\ message'[m].status = IF m \in done THEN "Relayed"
                                     ELSE IF m \in late THEN "Expired" ELSE message[m].status
  <2>1. message[m] \in Message
    BY <1>2, ElementOfSeq DEF NonceInv, Sent
  <2>2. CASE m \in done
    <3>1. message'[m] = [message[m] EXCEPT !.status = "Relayed"]
      BY <1>1, <2>2
    <3> QED
      BY <2>1, <2>2, <3>1 DEF Message, MessageStatus
  <2>3. CASE m \notin done
    <3>1. message'[m] = Marked(late, "Expired")[m]
      BY <1>1, <2>3
    <3>2. "Expired" \in MessageStatus
      BY DEF MessageStatus
    <3> QED
      BY <1>2, <2>3, <3>1, <3>2, MarkedIs
  <2> QED
    BY <2>2, <2>3
<1>4. Rewritten
  <2>1. message' = [m \in Sent |-> message'[m]]
    BY <1>1
  <2> QED
    BY <1>2, <1>3, <2>1, RewritingIs
<1>5. ASSUME NEW m \in Sent
      PROVE  /\ message'[m].status = "Relayed" => message[m].status = "Relayed" \/ m \in done
             /\ message'[m].status \in {"Pending", "Verified"} => Relayable(m) /\ m \notin done
  BY <1>3 DEF Relayable
<1>6. NonceInv'
  BY <1>1, <1>2, <1>4, NoncesStay
<1>7. EventInv'
  BY <1>1, <1>2, <1>4, <1>5, EventsGrow
<1>8. QueueInv'
  BY <1>1, <1>2, <1>4, <1>5, OrderShrinks
<1>9. ExpiredIsLate'
  <2>1. Sent' = Sent
    BY <1>4 DEF Rewritten, Sent
  <2>2. ASSUME NEW m \in Sent, message'[m].status = "Expired" PROVE message'[m].left = 0
    <3>1. CASE m \in late
      BY <1>3, <3>1 DEF IsExpired
    <3>2. CASE m \notin late
      BY <1>2, <1>3, <2>2, <3>2 DEF ExpiredIsLate, IsExpired
    <3> QED
      BY <3>1, <3>2
  <2> QED
    BY <2>1, <2>2 DEF ExpiredIsLate, IsExpired
<1> QED
  BY <1>1, <1>6, <1>7, <1>8, <1>9 DEF RelayInv

\* Verifying a message leaves it in its place.
LEMMA VerificationKeeps ==
  ASSUME RelayInv, NEW m \in Sent, VerifyMessage(m) PROVE RelayInv'
<1>1. /\ message' = Marked({m}, "Verified") /\ message[m].status = "Pending"
      /\ UNCHANGED <<initialized, config, operator, nonce, queue, tally, total, relayed>>
  BY DEF VerifyMessage, setup
<1>2. NonceInv /\ EventInv /\ QueueInv /\ ExpiredIsLate /\ "Verified" \in MessageStatus
  BY DEF RelayInv, MessageStatus
<1>3. /\ message' = [k \in Sent |-> message'[k]]
      /\ \A k \in Sent :
           /\ message'[k] \in Message
           /\ message'[k].sender = message[k].sender
           /\ message'[k].nonce = message[k].nonce
           /\ message'[k].priority = message[k].priority
           /\ message'[k].left = message[k].left
           /\ message'[k].status = IF k \in {m} THEN "Verified" ELSE message[k].status
  <2> DEFINE S == {m}
  <2>1. message' = Marked(S, "Verified")
    BY <1>1
  <2> HIDE DEF S
  <2>2. /\ message' = [k \in Sent |-> message'[k]]
        /\ \A k \in Sent :
             /\ message'[k] \in Message
             /\ message'[k].sender = message[k].sender
             /\ message'[k].nonce = message[k].nonce
             /\ message'[k].priority = message[k].priority
             /\ message'[k].left = message[k].left
             /\ message'[k].status = IF k \in S THEN "Verified" ELSE message[k].status
    BY <1>2, <2>1, MarkedIs
  <2> QED
    BY <2>2 DEF S
<1>4. Rewritten
  BY <1>2, <1>3, RewritingIs
<1>5. ASSUME NEW k \in Sent
      PROVE  /\ message'[k].status = "Relayed" => message[k].status = "Relayed"
             /\ message'[k].status \in {"Pending", "Verified"} => Relayable(k)
  BY <1>1, <1>3 DEF Relayable
<1>6. NonceInv' /\ EventInv' /\ QueueInv'
  BY <1>1, <1>2, <1>4, <1>5, NoncesStay, EventsStay, OrderStays
<1>7. ExpiredIsLate'
  <2>1. Sent' = Sent
    BY <1>4 DEF Rewritten, Sent
  <2> QED
    BY <1>2, <1>3, <2>1 DEF ExpiredIsLate, IsExpired
<1> QED
  BY <1>1, <1>6, <1>7 DEF RelayInv

\* A clean-up takes out what is done with, and marks what is late.
LEMMA CleanupKeeps ==
  ASSUME RelayInv, NEW max, CleanupExpiredMessages(max) PROVE RelayInv'
<1> DEFINE gone == {m \in Sent : Removable(m) /\ Reached(m, max)}
           late == {m \in gone : Lapsed(m)}
<1>1. /\ message' = Marked(late, "Expired") /\ queue' = Unqueued(gone)
      /\ UNCHANGED <<initialized, config, operator, nonce, tally, total, relayed>>
  BY DEF CleanupExpiredMessages, CleanupStatus, setup
<1>2. NonceInv /\ EventInv /\ QueueInv /\ ExpiredIsLate /\ "Expired" \in MessageStatus
  BY DEF RelayInv, MessageStatus
<1>3. \A m \in Sent : /\ m \in late => IsExpired(m) /\ m \in gone
                      /\ m \in gone => m \in late \/ ~ Relayable(m)
  BY DEF Removable, Lapsed, Relayable
<1> HIDE DEF gone, late
<1>4. /\ message' = [k \in Sent |-> message'[k]]
      /\ \A k \in Sent :
           /\ message'[k] \in Message
           /\ message'[k].sender = message[k].sender
           /\ message'[k].nonce = message[k].nonce
           /\ message'[k].priority = message[k].priority
           /\ message'[k].left = message[k].left
           /\ message'[k].status = IF k \in late THEN "Expired" ELSE message[k].status
  BY <1>1, <1>2, MarkedIs
<1>5. Rewritten
  BY <1>2, <1>4, RewritingIs
<1>6. ASSUME NEW k \in Sent
      PROVE  /\ message'[k].status = "Relayed" => message[k].status = "Relayed"
             /\ message'[k].status \in {"Pending", "Verified"} => Relayable(k) /\ k \notin gone
  BY <1>3, <1>4 DEF Relayable
<1>7. NonceInv' /\ EventInv'
  BY <1>1, <1>2, <1>5, <1>6, NoncesStay, EventsStay
<1>8. QueueInv'
  BY <1>1, <1>2, <1>5, <1>6, OrderShrinks
<1>9. ExpiredIsLate'
  <2>1. Sent' = Sent
    BY <1>5 DEF Rewritten, Sent
  <2>2. ASSUME NEW m \in Sent, message'[m].status = "Expired" PROVE message'[m].left = 0
    <3>1. CASE m \in late
      BY <1>3, <1>4, <3>1 DEF IsExpired
    <3>2. CASE m \notin late
      BY <1>2, <1>4, <2>2, <3>2 DEF ExpiredIsLate, IsExpired
    <3> QED
      BY <3>1, <3>2
  <2> QED
    BY <2>1, <2>2 DEF ExpiredIsLate, IsExpired
<1> QED
  BY <1>1, <1>7, <1>8, <1>9 DEF RelayInv

\* The clock only ever makes messages late.
LEMMA TickKeeps == ASSUME RelayInv, Tick PROVE RelayInv'
<1>1. /\ message' = [m \in Sent |->
            [message[m] EXCEPT !.left = IF IsExpired(m) THEN 0 ELSE message[m].left - 1]]
      /\ UNCHANGED <<initialized, config, operator, nonce, queue, tally, total, relayed>>
  BY DEF Tick, setup
<1>2. NonceInv /\ EventInv /\ QueueInv /\ ExpiredIsLate
  BY DEF RelayInv
<1>3. ASSUME NEW m \in Sent
      PROVE  /\ message'[m] \in Message
             /\ message'[m].sender = message[m].sender
             /\ message'[m].nonce = message[m].nonce
             /\ message'[m].priority = message[m].priority
             /\ message'[m].status = message[m].status
             /\ IsExpired(m) => message'[m].left = 0
  <2>1. message[m] \in Message
    BY <1>2, ElementOfSeq DEF NonceInv, Sent
  <2>2. message'[m] = [message[m] EXCEPT !.left = IF IsExpired(m) THEN 0 ELSE message[m].left - 1]
    BY <1>1
  <2> QED
    BY <2>1, <2>2 DEF Message, IsExpired
<1>4. Rewritten
  <2>1. message' = [m \in Sent |-> message'[m]]
    BY <1>1
  <2> QED
    BY <1>2, <1>3, <2>1, RewritingIs
<1>5. \A m \in Sent : /\ message'[m].status = "Relayed" => message[m].status = "Relayed"
                      /\ message'[m].status \in {"Pending", "Verified"} => Relayable(m)
  BY <1>3 DEF Relayable
<1>6. NonceInv' /\ EventInv' /\ QueueInv'
  BY <1>1, <1>2, <1>4, <1>5, NoncesStay, EventsStay, OrderStays
<1>7. ExpiredIsLate'
  <2>1. Sent' = Sent
    BY <1>4 DEF Rewritten, Sent
  <2> QED
    BY <1>2, <1>3, <2>1 DEF ExpiredIsLate, IsExpired
<1> QED
  BY <1>1, <1>6, <1>7 DEF RelayInv

\* Chains and operators are not part of it.
LEMMA ManagementKeeps == ASSUME RelayInv, Manage PROVE RelayInv'
<1>1. UNCHANGED <<nonce, message, queue, tally, total, relayed>>
  BY DEF Manage, Initialize, ConfigureChain, RegisterRelayOperator, DeactivateRelayOperator
<1>2. NonceInv' /\ EventInv' /\ QueueInv' /\ ExpiredIsLate'
  <2>1. NonceInv'
    BY <1>1 DEF RelayInv, NonceInv, Sent
  <2>2. EventInv'
    BY <1>1 DEF RelayInv, EventInv, Relayable, Sent
  <2>3. QueueInv'
    BY <1>1 DEF RelayInv, QueueInv, QueueOrder, Relayable, Sent
  <2>4. ExpiredIsLate'
    BY <1>1 DEF RelayInv, ExpiredIsLate, IsExpired, Sent
  <2> QED
    BY <2>1, <2>2, <2>3, <2>4
<1>3. /\ initialized' \in BOOLEAN
      /\ config' \in [Chain -> Settings] /\ operator' \in [Operator -> Standing]
  BY DEF RelayInv, Manage, Initialize, ConfigureChain, RegisterRelayOperator,
     DeactivateRelayOperator, Settings, Standing
<1> QED
  BY <1>2, <1>3 DEF RelayInv

-----------------------------------------------------------------------------
\* A sequence with one more element before its at-th.
Inserted(s, x, at) == SubSeq(s, 1, at - 1) \o <<x>> \o SubSeq(s, at, Len(s))

\* The others keep their order around it.
Insert(t, S, s, x, at) ==
  /\ t \in Seq(S) /\ Len(t) = Len(s) + 1
  /\ t[at] = x
  /\ \A i \in 1 .. at - 1 : t[i] = s[i]
  /\ \A i \in at + 1 .. Len(s) + 1 : t[i] = s[i - 1]

LEMMA InsertedIs ==
  ASSUME NEW S, NEW s \in Seq(S), NEW x \in S, NEW at \in 1 .. Len(s) + 1,
         NEW t, t = Inserted(s, x, at)
  PROVE  Insert(t, S, s, x, at)
<1>0. Len(s) \in Nat /\ at \in Nat /\ \A i \in 1 .. Len(s) : s[i] \in S
  BY ElementOfSeq
<1> DEFINE a == SubSeq(s, 1, at - 1)
           b == SubSeq(s, at, Len(s))
<1>1. a \in Seq(S) /\ Len(a) = at - 1 /\ \A i \in 1 .. at - 1 : a[i] = s[i]
  BY <1>0, SubSeqProperties
<1>2. b \in Seq(S) /\ Len(b) = Len(s) - at + 1 /\ \A i \in 1 .. Len(s) - at + 1 : b[i] = s[at + i - 1]
  BY <1>0, SubSeqProperties
<1>3. <<x>> \in Seq(S) /\ Len(<<x>>) = 1 /\ <<x>>[1] = x
  OBVIOUS
<1> HIDE DEF a, b
<1> DEFINE c == a \o <<x>>
<1>4. /\ c \in Seq(S) /\ Len(c) = at
      /\ \A i \in 1 .. at : c[i] = IF i <= at - 1 THEN a[i] ELSE <<x>>[i - (at - 1)]
  BY <1>0, <1>1, <1>3, ConcatProperties
<1>5. c[at] = x /\ \A i \in 1 .. at - 1 : c[i] = s[i]
  BY <1>0, <1>1, <1>3, <1>4
<1> HIDE DEF c
<1>6. /\ c \o b \in Seq(S) /\ Len(c \o b) = Len(c) + Len(b)
      /\ \A i \in 1 .. Len(c) + Len(b) : (c \o b)[i] = IF i <= Len(c) THEN c[i] ELSE b[i - Len(c)]
  BY <1>2, <1>4, ConcatProperties
<1>7. t = c \o b
  BY Zenon DEF a, b, c, Inserted
<1>8. t \in Seq(S) /\ Len(t) = Len(s) + 1
  <2>1. t \in Seq(S) /\ Len(t) = Len(c) + Len(b)
    BY <1>6, <1>7, Zenon
  <2>2. Len(c) + Len(b) = Len(s) + 1
    BY <1>0, <1>2, <1>4
  <2> QED
    BY <2>1, <2>2
<1>9. t[at] = x /\ \A i \in 1 .. at - 1 : t[i] = s[i]
  <2>1. \A i \in 1 .. at : i \in 1 .. Len(c) + Len(b) /\ i <= Len(c)
    BY <1>0, <1>2, <1>4
  <2>2. \A i \in 1 .. at : t[i] = c[i]
    BY <1>6, <1>7, <2>1
  <2>3. at \in 1 .. at /\ \A i \in 1 .. at - 1 : i \in 1 .. at
    BY <1>0
  <2>4. t[at] = x
    BY <1>5, <2>2, <2>3
  <2>5. \A i \in 1 .. at - 1 : t[i] = s[i]
    BY <1>5, <2>2, <2>3
  <2> QED
    BY <2>4, <2>5
<1>10. ASSUME NEW i \in at + 1 .. Len(s) + 1 PROVE t[i] = s[i - 1]
  <2>1. i \in 1 .. Len(c) + Len(b) /\ ~ (i <= Len(c)) /\ i - Len(c) = i - at
    BY <1>0, <1>2, <1>4
  <2>2. t[i] = b[i - at]
    BY <1>6, <1>7, <2>1
  <2>3. i - at \in 1 .. Len(s) - at + 1 /\ at + (i - at) - 1 = i - 1
    BY <1>0
  <2> QED
    BY <1>2, <2>2, <2>3
<1> QED
  BY <1>8, <1>9, <1>10 DEF Insert

\* Nothing before the place of a message is of lower priority, and
\* everything from there on is.
LEMMA PlaceIs ==
  ASSUME NonceInv, QueueInv, NEW p \in Nat, Priority \subseteq Nat
  PROVE  \E at \in 1 .. Len(queue) + 1 :
           /\ \A id : Insertion(p, id) = Inserted(queue, id, at)
           /\ \A i \in 1 .. at - 1 : message[queue[i]].priority <= p
           /\ \A i \in at .. Len(queue) : p < message[queue[i]].priority
<1>1. /\ Len(queue) \in Nat
      /\ \A i \in 1 .. Len(queue) : /\ queue[i] \in Sent
                                    /\ message[queue[i]].priority \in Nat
  <2>1. queue \in Seq(Sent)
    BY DEF QueueInv
  <2>2. \A m \in Sent : message[m] \in Message
    BY ElementOfSeq DEF NonceInv, Sent
  <2>3. \A m \in Sent : message[m].priority \in Nat
    BY <2>2 DEF Message
  <2> QED
    BY <2>1, <2>3, ElementOfSeq
<1> DEFINE behind == {i \in 1 .. Len(queue) : p < message[queue[i]].priority}
           at == IF behind = {} THEN Len(queue) + 1
                 ELSE CHOOSE i \in behind : \A j \in behind : i <= j
<1>2. \A id : Insertion(p, id) = Inserted(queue, id, at)
  BY DEF Insertion, Overtakes, Inserted
<1>3. CASE behind = {}
  <2>1. at = Len(queue) + 1 /\ \A i \in 1 .. Len(queue) : message[queue[i]].priority <= p
    BY <1>1, <1>3
  <2> HIDE DEF at
  <2>2. at \in 1 .. Len(queue) + 1 /\ \A i \in 1 .. at - 1 : i \in 1 .. Len(queue)
    BY <1>1, <2>1
  <2>3. \A i \in at .. Len(queue) : FALSE
    BY <1>1, <2>1
  <2> QED
    BY <1>2, <2>1, <2>2, <2>3
<1>4. CASE behind # {}
  <2>1. behind \subseteq Nat
    BY <1>1
  <2>2. \E n \in behind : \A j \in behind : n <= j
    BY <1>4, <2>1, LeastNatural
  <2>3. at \in behind /\ \A j \in behind : at <= j
    BY <1>4, <2>2
  <2> HIDE DEF at
  <2>4. at \in 1 .. Len(queue) /\ p < message[queue[at]].priority
    BY <2>3
  <2>5. ASSUME NEW i \in 1 .. at - 1 PROVE message[queue[i]].priority <= p
    <3>1. i \in 1 .. Len(queue) /\ i < at
      BY <1>1, <2>4
    <3>2. i \notin behind
      BY <2>3, <2>4, <3>1
    <3> QED
      BY <1>1, <3>1, <3>2
  <2>6. ASSUME NEW i \in at .. Len(queue) PROVE p < message[queue[i]].priority
    <3>1. i \in 1 .. Len(queue) /\ at \in 1 .. Len(queue) /\ (i = at \/ at < i)
      BY <1>1, <2>4
    <3>2. i # at => message[queue[at]].priority <= message[queue[i]].priority
      BY <1>1, <3>1 DEF QueueInv, QueueOrder
    <3> QED
      BY <1>1, <2>4, <3>1, <3>2
  <2>7. at \in 1 .. Len(queue) + 1
    BY <1>1, <2>4
  <2> QED
    BY <1>2, <2>5, <2>6, <2>7
<1> QED
  BY <1>3, <1>4

\* A message that is accepted takes the next nonce and its place in the queue.
LEMMA SendingKeeps ==
  ASSUME RelayInv, Priority \subseteq Nat, NEW s \in Sender, NEW n, NEW source \in Chain,
         NEW dest, NEW p \in Priority, NEW ttl \in Nat, SendMessage(s, n, source, dest, p, ttl)
  PROVE  RelayInv'
<1> DEFINE id == Len(message) + 1
           new == [sender |-> s, nonce |-> n, source |-> source, priority |-> p,
                   left |-> ttl, status |-> "Pending"]
<1>1. /\ message' = Append(message, new) /\ queue' = Insertion(p, id) /\ n = nonce[s]
      /\ nonce' = [nonce EXCEPT ![s] = @ + 1]
      /\ UNCHANGED <<initialized, config, operator, tally, total, relayed>>
  BY DEF SendMessage, NonceAccepted, setup
<1>2. NonceInv /\ EventInv /\ QueueInv /\ ExpiredIsLate /\ p \in Nat
  BY DEF RelayInv
<1>3. /\ new \in Message /\ new.sender = s /\ new.nonce = nonce[s] /\ new.priority = p
      /\ new.status = "Pending" /\ nonce[s] \in Nat
  BY <1>1, <1>2 DEF Message, MessageStatus, NonceInv
<1> HIDE DEF new
<1>4. /\ message' \in Seq(Message) /\ Len(message') = id
      /\ \A m \in 1 .. Len(message) : message'[m] = message[m]
      /\ message'[Len(message) + 1] = new /\ message \in Seq(Message)
  BY <1>1, <1>2, <1>3, AppendProperties DEF NonceInv
<1>5. /\ id \in Nat /\ id \notin Sent /\ id \in Sent'
      /\ \A m \in Sent : m \in Nat /\ m < id /\ m \in Sent' /\ message'[m] = message[m]
      /\ \A m \in Sent' : m \in Sent \/ m = id
      /\ message'[id] = new
  <2>1. Len(message) \in Nat
    BY <1>4
  <2> QED
    BY <1>4, <2>1 DEF Sent
<1>6. Sent \subseteq Sent'
  BY <1>5
<1>7. IsFiniteSet(Sent)
  <2>1. Len(message) \in Nat
    BY <1>4
  <2> QED
    BY <2>1, FS_Interval DEF Sent
<1> HIDE DEF id
<1>8. NonceInv'
  <2>1. ASSUME NEW r \in Sender
        PROVE  nonce'[r] = Cardinality({k \in Sent' : message'[k].sender = r})
    <3> DEFINE old == {k \in Sent : message[k].sender = r}
    <3>1. IsFiniteSet(old) /\ nonce[r] = Cardinality(old) /\ id \notin old
      BY <1>2, <1>5, <1>7, FS_Subset DEF NonceInv
    <3>2. CASE r = s
      <4>1. {k \in Sent' : message'[k].sender = r} = old \cup {id}
        BY <1>3, <1>5, <3>2
      <4> HIDE DEF old
      <4>2. Cardinality(old \cup {id}) = Cardinality(old) + 1
        BY <3>1, FS_AddElement
      <4>3. nonce'[r] = nonce[r] + 1
        BY <1>1, <1>2, <3>2 DEF NonceInv
      <4> QED
        BY <3>1, <4>1, <4>2, <4>3
    <3>3. CASE r # s
      <4>1. {k \in Sent' : message'[k].sender = r} = old
        BY <1>3, <1>5, <3>3
      <4>2. nonce'[r] = nonce[r]
        BY <1>1, <1>2, <3>3 DEF NonceInv
      <4> QED
        BY <3>1, <4>1, <4>2
    <3> QED
      BY <3>2, <3>3
  <2>2. ASSUME NEW m \in Sent'
        PROVE  message'[m].nonce =
                 Cardinality({k \in 1 .. m - 1 : message'[k].sender = message'[m].sender})
    <3>1. CASE m \in Sent
      <4>1. \A k \in 1 .. m - 1 : k \in Sent
        BY <1>4, <3>1 DEF Sent
      <4>2. {k \in 1 .. m - 1 : message'[k].sender = message'[m].sender}
              = {k \in 1 .. m - 1 : message[k].sender = message[m].sender}
        BY <1>5, <3>1, <4>1
      <4> QED
        BY <1>2, <1>5, <3>1, <4>2 DEF NonceInv
    <3>2. CASE m = id
      <4>1. 1 .. m - 1 = Sent
        BY <1>4, <3>2 DEF Sent, id
      <4>2. {k \in 1 .. m - 1 : message'[k].sender = message'[m].sender}
              = {k \in Sent : message[k].sender = s}
        BY <1>3, <1>5, <3>2, <4>1
      <4>3. message'[m].nonce = nonce[s]
        BY <1>3, <1>5, <3>2
      <4> QED
        BY <1>2, <4>2, <4>3 DEF NonceInv
    <3> QED
      BY <1>5, <3>1, <3>2
  <2>3. nonce' \in [Sender -> Nat]
    BY <1>1, <1>2, <1>3 DEF NonceInv
  <2> QED
    BY <1>4, <2>1, <2>2, <2>3 DEF NonceInv
<1>9. EventInv'
  <2>1. ASSUME NEW e \in Operator
        PROVE  {m \in Sent' : <<m, e>> \in relayed'} = {m \in Sent : <<m, e>> \in relayed}
    BY <1>1, <1>2, <1>6 DEF EventInv
  <2>2. ASSUME NEW m \in Sent'
        PROVE  /\ \A o1, o2 \in Operator : <<m, o1>> \in relayed' /\ <<m, o2>> \in relayed' => o1 = o2
               /\ message'[m].status = "Relayed" => \E e \in Operator : <<m, e>> \in relayed'
               /\ message'[m].status \in {"Pending", "Verified"} => \A e \in Operator : <<m, e>> \notin relayed'
    <3>1. CASE m \in Sent
      BY <1>1, <1>2, <1>5, <3>1 DEF EventInv, Relayable
    <3>2. CASE m = id
      <4>1. \A e : <<m, e>> \notin relayed'
        BY <1>1, <1>2, <1>5, <3>2 DEF EventInv
      <4>2. message'[m].status = "Pending"
        BY <1>3, <1>5, <3>2
      <4> QED
        BY <4>1, <4>2
    <3> QED
      BY <1>5, <3>1, <3>2
  <2>3. relayed' \subseteq Sent' \X Operator
    BY <1>1, <1>2, <1>6 DEF EventInv
  <2> QED
    BY <1>1, <1>2, <2>1, <2>2, <2>3 DEF EventInv, Relayable
<1>10. QueueInv'
  <2>1. PICK at \in 1 .. Len(queue) + 1 :
          /\ \A x : Insertion(p, x) = Inserted(queue, x, at)
          /\ \A i \in 1 .. at - 1 : message[queue[i]].priority <= p
          /\ \A i \in at .. Len(queue) : p < message[queue[i]].priority
    BY <1>2, PlaceIs
  <2>2. /\ queue \in Seq(Sent) /\ queue \in Seq(Sent') /\ Len(queue) \in Nat
        /\ \A i \in 1 .. Len(queue) : queue[i] \in Sent
    <3>1. queue \in Seq(Sent)
      BY <1>2 DEF QueueInv
    <3> QED
      BY <1>6, <3>1, SeqMonotonic, ElementOfSeq
  <2>3. queue' = Inserted(queue, id, at)
    BY <1>1, <2>1
  <2>4. /\ queue' \in Seq(Sent') /\ Len(queue') = Len(queue) + 1 /\ queue'[at] = id
        /\ \A i \in 1 .. at - 1 : queue'[i] = queue[i]
        /\ \A i \in at + 1 .. Len(queue) + 1 : queue'[i] = queue[i - 1]
    <3>1. PICK S, x, t : S = Sent' /\ x = id /\ t = queue'
      OBVIOUS
    <3>2. queue \in Seq(S) /\ x \in S /\ at \in 1 .. Len(queue) + 1
      BY <1>5, <2>2, <3>1
    <3>3. t = Inserted(queue, x, at)
      BY <2>3, <3>1
    <3>4. Insert(t, S, queue, x, at)
      BY <3>2, <3>3, InsertedIs
    <3> QED
      BY <3>1, <3>4 DEF Insert
  <2>5. /\ \A i \in 1 .. Len(queue') : i \in 1 .. at - 1 \/ i = at \/ i \in at + 1 .. Len(queue) + 1
        /\ \A i \in 1 .. at - 1 : i \in 1 .. Len(queue)
        /\ \A i \in at + 1 .. Len(queue) + 1 : i - 1 \in 1 .. Len(queue) /\ i - 1 \in at .. Len(queue)
        /\ \A i \in 1 .. Len(queue) : \/ i \in 1 .. at - 1 /\ i \in 1 .. Len(queue')
                                      \/ i + 1 \in at + 1 .. Len(queue) + 1 /\ i + 1 \in 1 .. Len(queue')
        /\ at \in 1 .. Len(queue')
    BY <2>2, <2>4
  <2>6. \A i \in 1 .. Len(queue) : \E j \in 1 .. Len(queue') : queue'[j] = queue[i]
    <3>1. ASSUME NEW i \in 1 .. Len(queue) PROVE \E j \in 1 .. Len(queue') : queue'[j] = queue[i]
      <4>1. CASE i \in 1 .. at - 1 /\ i \in 1 .. Len(queue')
        BY <2>4, <4>1
      <4>2. CASE i + 1 \in at + 1 .. Len(queue) + 1 /\ i + 1 \in 1 .. Len(queue')
        <5>1. queue'[i + 1] = queue[i]
          BY <2>4, <4>2
        <5> QED
          BY <4>2, <5>1
      <4> QED
        BY <2>5, <4>1, <4>2
    <3> QED
      BY <3>1
  <2>7. ASSUME NEW m \in Sent', message'[m].status \in {"Pending", "Verified"}
        PROVE  \E i \in 1 .. Len(queue') : queue'[i] = m
    <3>1. CASE m = id
      BY <2>4, <2>5, <3>1
    <3>2. CASE m \in Sent
      <4>1. PICK i \in 1 .. Len(queue) : queue[i] = m
        BY <1>2, <1>5, <2>7, <3>2 DEF QueueInv, QueueOrder, Relayable
      <4> QED
        BY <2>6, <4>1
    <3> QED
      BY <1>5, <3>1, <3>2
  <2>8. \A i \in 1 .. Len(queue') : queue'[i] = id \/ \E j \in 1 .. Len(queue) : queue'[i] = queue[j]
    BY <2>4, <2>5
  <2>9. ASSUME NEW i \in 1 .. Len(queue') PROVE message'[queue'[i]].status # "Relayed"
    <3>1. CASE queue'[i] = id
      BY <1>3, <1>5, <3>1
    <3>2. CASE \E j \in 1 .. Len(queue) : queue'[i] = queue[j]
      <4>1. PICK j \in 1 .. Len(queue) : queue'[i] = queue[j]
        BY <3>2
      <4>2. message[queue[j]].status # "Relayed" /\ queue[j] \in Sent
        BY <1>2, <2>2 DEF QueueInv, QueueOrder
      <4> QED
        BY <1>5, <4>1, <4>2
    <3> QED
      BY <2>8, <3>1, <3>2
  <2> DEFINE Before(k, l) == \/ message'[k].priority < message'[l].priority
                             \/ message'[k].priority = message'[l].priority /\ k < l
  <2>10. ASSUME NEW k \in 1 .. Len(queue), NEW l \in 1 .. Len(queue), k < l
         PROVE  Before(queue[k], queue[l])
    <3>1. message'[queue[k]] = message[queue[k]] /\ message'[queue[l]] = message[queue[l]]
      BY <1>5, <2>2
    <3> QED
      BY <1>2, <2>10, <3>1 DEF QueueInv, QueueOrder
  <2>11. ASSUME NEW k \in 1 .. at - 1 PROVE Before(queue[k], id)
    <3>1. queue[k] \in Sent /\ message[queue[k]].priority <= p
      BY <2>1, <2>2, <2>5
    <3>2. message[queue[k]].priority \in Nat
      <4>1. message[queue[k]] \in Message
        BY <1>4, <3>1, ElementOfSeq DEF Sent
      <4> QED
        BY <4>1 DEF Message
    <3>3. message'[queue[k]].priority = message[queue[k]].priority /\ queue[k] < id
      BY <1>5, <3>1
    <3>4. message'[id].priority = p
      BY <1>3, <1>5
    <3> QED
      BY <1>2, <3>1, <3>2, <3>3, <3>4
  <2>12. ASSUME NEW k \in at .. Len(queue) PROVE Before(id, queue[k])
    <3>1. queue[k] \in Sent /\ p < message[queue[k]].priority
      BY <2>1, <2>2
    <3>2. message'[queue[k]].priority = message[queue[k]].priority /\ message'[id].priority = p
      BY <1>3, <1>5, <3>1
    <3> QED
      BY <3>1, <3>2
  <2> HIDE DEF Before
  <2>13. ASSUME NEW i \in 1 .. Len(queue'), NEW j \in 1 .. Len(queue'), i < j
         PROVE  Before(queue'[i], queue'[j])
    <3>1. CASE i \in 1 .. at - 1 /\ j \in 1 .. at - 1
      BY <2>4, <2>5, <2>10, <2>13, <3>1
    <3>2. CASE i \in 1 .. at - 1 /\ j = at
      BY <2>4, <2>11, <3>2
    <3>3. CASE i \in 1 .. at - 1 /\ j \in at + 1 .. Len(queue) + 1
      <4>1. i < j - 1 /\ j - 1 \in 1 .. Len(queue) /\ i \in 1 .. Len(queue)
        BY <2>2, <2>5, <3>3
      <4>2. Before(queue[i], queue[j - 1])
        BY <2>10, <4>1
      <4> QED
        BY <2>4, <3>3, <4>2
    <3>4. CASE i = at /\ j \in at + 1 .. Len(queue) + 1
      <4>1. Before(id, queue[j - 1])
        BY <2>5, <2>12, <3>4
      <4> QED
        BY <2>4, <3>4, <4>1
    <3>5. CASE i \in at + 1 .. Len(queue) + 1 /\ j \in at + 1 .. Len(queue) + 1
      <4>1. i - 1 < j - 1 /\ i - 1 \in 1 .. Len(queue) /\ j - 1 \in 1 .. Len(queue)
        BY <2>2, <2>5, <2>13, <3>5
      <4>2. Before(queue[i - 1], queue[j - 1])
        BY <2>10, <4>1
      <4> QED
        BY <2>4, <3>5, <4>2
    <3> QED
      BY <2>2, <2>5, <2>13, <3>1, <3>2, <3>3, <3>4, <3>5
  <2>14. QueueOrder'
    BY <2>7, <2>9, <2>13 DEF QueueOrder, Relayable, Before
  <2> QED
    BY <2>4, <2>14 DEF QueueInv
<1>11. ExpiredIsLate'
  <2>1. ASSUME NEW m \in Sent', message'[m].status = "Expired" PROVE message'[m].left = 0
    <3>1. m \in Sent
      BY <1>3, <1>5, <2>1
    <3> QED
      BY <1>2, <1>5, <2>1, <3>1 DEF ExpiredIsLate, IsExpired
  <2> QED
    BY <2>1 DEF ExpiredIsLate, IsExpired
<1> QED
  BY <1>1, <1>8, <1>9, <1>10, <1>11 DEF RelayInv

-----------------------------------------------------------------------------
\* Every step keeps the four parts together.
LEMMA RelayInvStep == RelayInv /\ [RelayNext]_relayVars => RelayInv'
<1> SUFFICES ASSUME RelayInv, [RelayNext]_relayVars PROVE RelayInv'
  OBVIOUS
<1>1. CASE Manage
  BY <1>1, ManagementKeeps
<1>2. CASE Send
  <2>1. PICK s \in Sender, n \in 0 .. MaxMessages, source \in Chain, dest \in Chain,
             p \in Priority, ttl \in Ttl : SendMessage(s, n, source, dest, p, ttl)
    BY <1>2 DEF Send
  <2>2. Priority \subseteq Nat /\ ttl \in Nat
    BY RelayAssumption
  <2> QED
    BY <2>1, <2>2, SendingKeeps
<1>3. ASSUME NEW m \in Sent, VerifyMessage(m) PROVE RelayInv'
  BY <1>3, VerificationKeeps
<1>4. ASSUME NEW o \in Operator, NEW m \in Sent, RelayMessage(o, m) PROVE RelayInv'
  <2>1. Relayable(m) /\ ~ IsExpired(m) /\ Relay(o, {m}, {})
    BY <1>4 DEF RelayMessage
  <2>2. \A k \in {m} : Relayable(k) /\ ~ IsExpired(k)
    BY <2>1, Zenon
  <2>3. {m} \in SUBSET Sent /\ {} \in SUBSET Sent
    OBVIOUS
  <2> QED
    BY <2>1, <2>2, <2>3, RelayKeeps
<1>5. ASSUME NEW o \in Operator, NEW items \in SUBSET Sent, NEW signed \in SUBSET Sent,
             BatchRelay(o, items, signed)
      PROVE  RelayInv'
  <2> DEFINE late == {m \in items : IsExpired(m)}
             done == {m \in signed \ late : Relayable(m)}
  <2>1. signed \subseteq items /\ Relay(o, done, late)
    BY <1>5 DEF BatchRelay
  <2>2. /\ done \in SUBSET Sent /\ late \in SUBSET Sent
        /\ \A m \in late : IsExpired(m)
        /\ \A m \in done : Relayable(m) /\ ~ IsExpired(m)
    BY <2>1
  <2> HIDE DEF late, done
  <2> QED
    BY <2>1, <2>2, RelayKeeps
<1>6. ASSUME NEW max \in 1 .. MaxMessages, CleanupExpiredMessages(max) PROVE RelayInv'
  BY <1>6, CleanupKeeps
<1>7. CASE Tick
  BY <1>7, TickKeeps
<1>8. CASE UNCHANGED relayVars
  <2>1. UNCHANGED <<nonce, message, queue, tally, total, relayed, initialized, config, operator>>
    BY <1>8 DEF relayVars
  <2>2. NonceInv'
    BY <2>1 DEF RelayInv, NonceInv, Sent
  <2>3. EventInv'
    BY <2>1 DEF RelayInv, EventInv, Relayable, Sent
  <2>4. QueueInv'
    BY <2>1 DEF RelayInv, QueueInv, QueueOrder, Relayable, Sent
  <2>5. ExpiredIsLate'
    BY <2>1 DEF RelayInv, ExpiredIsLate, IsExpired, Sent
  <2> QED
    BY <2>1, <2>2, <2>3, <2>4, <2>5 DEF RelayInv
<1> QED
  BY <1>1, <1>2, <1>3, <1>4, <1>5, <1>6, <1>7, <1>8 DEF RelayNext

\* What the properties say, from the invariant.
LEMMA RelayInvSays == RelayInv => RelayTypeOK /\ QueueOrder /\ RelayedOnce /\ ExpiredIsLate
<1> SUFFICES ASSUME RelayInv PROVE RelayTypeOK /\ QueueOrder /\ RelayedOnce /\ ExpiredIsLate
  OBVIOUS
<1>1. EventInv /\ NonceInv /\ QueueInv
  BY DEF RelayInv
<1>2. total \in Nat
  BY <1>1, FS_CardinalityType DEF EventInv
<1>3. RelayTypeOK
  BY <1>1, <1>2 DEF RelayTypeOK, RelayInv, NonceInv, EventInv, QueueInv, Settings, Standing
<1>4. ASSUME NEW m \in Sent PROVE Cardinality({o \in Operator : <<m, o>> \in relayed}) <= 1
  <2> DEFINE B == {o \in Operator : <<m, o>> \in relayed}
  <2>1. B = {} \/ \E o \in Operator : B = {o}
    BY <1>1 DEF EventInv
  <2> HIDE DEF B
  <2>2. CASE B = {}
    <3>1. Cardinality(B) = 0
      BY <2>2, FS_EmptySet
    <3> QED
      BY <3>1 DEF B
  <2>3. CASE \E o \in Operator : B = {o}
    <3>1. PICK o \in Operator : B = {o}
      BY <2>3
    <3>2. Cardinality(B) = 1
      BY <3>1, FS_Singleton
    <3> QED
      BY <3>2 DEF B
  <2> QED
    BY <2>1, <2>2, <2>3
<1>5. RelayedOnce
  BY <1>1, <1>4 DEF RelayedOnce, EventInv, NonceInv
<1> QED
  BY <1>1, <1>3, <1>5 DEF RelayInv, QueueInv

\* The four parts hold in every state of the contract.
LEMMA RelayInvHolds == RelaySpec => []RelayInv
  BY RelayInvInit, RelayInvStep, PTL DEF RelaySpec

(* Every stored key of the relay keeps its type, and no message is Failed.  *)
THEOREM RelayTypeCorrect == RelaySpec => []RelayTypeOK
  BY RelayInvHolds, RelayInvSays, PTL

(* The queue holds every message that can still be relayed, none twice and *)
(* none that was relayed, by priority and then by age, for any senders,    *)
(* priorities and number of messages, through batches and clean-ups.       *)
THEOREM QueueIsOrdered == RelaySpec => []QueueOrder
  BY RelayInvHolds, RelayInvSays, PTL

(* A signed message is accepted once and relayed once, and the contract's  *)
(* counters agree with its events, for any operators and batches.          *)
THEOREM MessagesAreRelayedOnce == RelaySpec => []RelayedOnce
  BY RelayInvHolds, RelayInvSays, PTL

(* A message only counts as expired once its time is up.                   *)
THEOREM ExpiryIsLate == RelaySpec => []ExpiredIsLate
  BY RelayInvHolds, RelayInvSays, PTL
=============================================================================
