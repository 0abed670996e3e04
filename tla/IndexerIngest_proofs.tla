------------------------ MODULE IndexerIngest_proofs ------------------------
(***************************************************************************)
(* Proofs about the ingestion pipeline, for any number of events, pools,   *)
(* slots and disturbances.                                                 *)
(***************************************************************************)
EXTENDS IndexerIngest, FiniteSetTheorems, TLAPS

(***************************************************************************)
(* The inductive strengthening.  PublishedInOrder: the queue history has   *)
(* every earlier event before a later one, except those whose publication  *)
(* was lost.  Behind: no slot, orphans included, works ahead of the first  *)
(* unsettled message.  Past: what a slot beyond a stage has established.   *)
(***************************************************************************)
Took(e) == applied[e] > 0 \/ Excused(e)
PoolKnown(e) == Kind[e] = "create" => PoolOf[e] \in edges \/ e \in failed

PublishedInOrder ==
  /\ \A c \in Event : c < cursor =>
       c \in lost \/ \E m \in 1..Len(published) : published[m] = c
  /\ \A n \in 1..Len(published) : \A c \in Event : c < published[n] =>
       c \in lost \/ \E m \in 1..(n - 1) : published[m] = c

Behind == \A s \in Slot : Busy(s) => handler[s].n \in 1..(Settled + 1)

Past ==
  \A s \in Slot :
    /\ handler[s].pc \in {"aggregate", "fanout", "forward"} => Ev(s) \in stored
    /\ handler[s].pc \in {"fanout", "forward"} => Took(Ev(s)) /\ PoolKnown(Ev(s))

SettledKnown == \A n \in acked \cup dropped : PoolKnown(published[n])

IInv ==
  /\ TypeOK /\ InOrderSettlement
  /\ StoredFirst /\ EffectUnlessCreationLost
  /\ PublishedInOrder /\ Behind /\ Past /\ SettledKnown

(***************************************************************************)
(* The queue operations RabbitMQ performs on the indexer queue.            *)
(***************************************************************************)
LEMMA TailQueue ==
  ASSUME NEW q \in Seq(Message), q # << >>
  PROVE  /\ Tail(q) \in Seq(Message) /\ Head(q) \in Message
         /\ Len(q) \in Nat \ {0} /\ Len(Tail(q)) = Len(q) - 1
         /\ Head(q) = q[1]
         /\ \A i \in 1..Len(Tail(q)) : Tail(q)[i] = q[i + 1]
  OBVIOUS

LEMMA PushFront ==
  ASSUME NEW q \in Seq(Message), NEW m \in Message
  PROVE  /\ << m >> \o q \in Seq(Message)
         /\ Len(<< m >> \o q) = Len(q) + 1
         /\ (<< m >> \o q)[1] = m
         /\ \A i \in 2..(Len(q) + 1) : (<< m >> \o q)[i] = q[i - 1]
  OBVIOUS

LEMMA InitInv == ASSUME Init PROVE TypeOK /\ InOrderSettlement
  BY IngestAssumption DEF Init, TypeOK, InOrderSettlement, Settled, Held, Live,
     NoWork, Work, Pc, Busy, Event, Message

(***************************************************************************)
(* A step that leaves the queue, the history and what each slot holds      *)
(* alone keeps the order.                                                  *)
(***************************************************************************)
LEMMA QuietStep ==
  ASSUME TypeOK, InOrderSettlement,
         UNCHANGED <<published, queue, acked, dropped>>,
         \A s \in Slot : handler'[s].live = handler[s].live /\ handler'[s].n = handler[s].n
  PROVE  InOrderSettlement'
  BY DEF InOrderSettlement, Settled, Held, Live

(***************************************************************************)
(* A slot that ends its work: its message settled.                         *)
(***************************************************************************)
LEMMA LiveSettles ==
  ASSUME TypeOK, InOrderSettlement, NEW s \in Slot, Live(s), Finish(s),
         UNCHANGED <<published, queue>>,
         \/ acked' = acked \cup {handler[s].n} /\ dropped' = dropped
         \/ dropped' = dropped \cup {handler[s].n} /\ acked' = acked
  PROVE  InOrderSettlement'
  <1>1. \A t \in Slot : ~Live(t)'
    BY DEF Finish, NoWork, Live, TypeOK, Work, InOrderSettlement
  <1>2. Held = 1 /\ Held' = 0
    BY <1>1 DEF Held
  <1>3. Settled' = Settled + 1 /\ handler[s].n = Settled + 1
    BY <1>2 DEF Settled, InOrderSettlement, TypeOK
  <1>4. acked' \cup dropped' = 1..Settled'
    BY <1>3 DEF InOrderSettlement
  <1>5. acked' \cap dropped' = {}
    BY <1>3 DEF InOrderSettlement
  <1>6. \A i \in 1..Len(queue') : queue'[i].n = Settled' + Held' + i
    BY <1>2, <1>3 DEF InOrderSettlement, TypeOK
  <1>7. Settled' \in Nat
    BY <1>3 DEF InOrderSettlement
  <1>8. QED
    BY <1>1, <1>4, <1>5, <1>6, <1>7 DEF InOrderSettlement

(***************************************************************************)
(* The message a live slot held goes back to the head and no slot is live. *)
(***************************************************************************)
LEMMA LiveRequeues ==
  ASSUME TypeOK, InOrderSettlement, NEW s \in Slot, Live(s),
         queue' = Requeued(s), \A t \in Slot : ~Live(t)',
         UNCHANGED <<published, acked, dropped>>
  PROVE  InOrderSettlement'
  <1> DEFINE m == [n |-> handler[s].n, redelivered |-> TRUE]
  <1>1. m \in Message /\ queue \in Seq(Message) /\ queue' = << m >> \o queue
    BY DEF TypeOK, Work, Message, Requeued
  <1>2. Len(queue') = Len(queue) + 1 /\ queue'[1] = m
        /\ \A i \in 2..(Len(queue) + 1) : queue'[i] = queue[i - 1]
    BY <1>1, PushFront
  <1>3. Held = 1 /\ Held' = 0
    BY DEF Held
  <1>4. Settled' = Settled /\ handler[s].n = Settled + 1 /\ Len(queue) \in Nat
    BY <1>1, <1>2, <1>3 DEF Settled, InOrderSettlement, TypeOK
  <1>5. ASSUME NEW i \in 1..Len(queue')
        PROVE  queue'[i].n = Settled' + Held' + i
    <2>1. CASE i = 1
      BY <2>1, <1>2, <1>3, <1>4 DEF InOrderSettlement
    <2>2. CASE i # 1
      <3>1. i - 1 \in 1..Len(queue) /\ queue'[i] = queue[i - 1]
        BY <2>2, <1>2, <1>4
      <3>2. QED
        BY <3>1, <1>3, <1>4 DEF InOrderSettlement
    <2>3. QED
      BY <2>1, <2>2
  <1>6. QED
    BY <1>3, <1>4, <1>5 DEF InOrderSettlement

LEMMA ExitOrder ==
  ASSUME TypeOK, InOrderSettlement, Exit, UNCHANGED published
  PROVE  InOrderSettlement'
  <1>1. /\ UNCHANGED <<acked, dropped>>
        /\ \A t \in Slot : ~Live(t)'
    BY DEF Exit, NoWork, Live
  <1>2. CASE \E s \in Slot : Live(s) /\ queue' = Requeued(s)
    BY <1>1, <1>2, LiveRequeues
  <1>3. CASE (\A s \in Slot : ~Live(s)) /\ UNCHANGED queue
    <2>1. Held = 0 /\ Held' = 0
      BY <1>1, <1>3 DEF Held
    <2>2. QED
      BY <2>1, <1>1, <1>3 DEF InOrderSettlement, Settled
  <1>4. QED
    BY <1>2, <1>3 DEF Exit

LEMMA SettleStep ==
  ASSUME TypeOK, InOrderSettlement, NEW s \in Slot, UNCHANGED published,
         Ack(s) \/ NackDrop(s) \/ NackRequeue(s)
  PROVE  InOrderSettlement'
  <1>1. CASE ~Live(s)
    BY <1>1, ExitOrder DEF Ack, NackDrop, NackRequeue
  <1>2. CASE Live(s) /\ (Ack(s) \/ NackDrop(s))
    BY <1>2, LiveSettles DEF Ack, NackDrop
  <1>3. CASE Live(s) /\ NackRequeue(s)
    <2>1. queue' = Requeued(s) /\ Finish(s) /\ UNCHANGED <<acked, dropped>>
      BY <1>3 DEF NackRequeue
    <2>2. \A t \in Slot : ~Live(t)'
      BY <1>3, <2>1 DEF Finish, NoWork, Live, TypeOK, Work, InOrderSettlement
    <2>3. QED
      BY <1>3, <2>1, <2>2, LiveRequeues
  <1>4. QED
    BY <1>1, <1>2, <1>3

LEMMA PublishStep ==
  ASSUME TypeOK, InOrderSettlement, Publish
  PROVE  InOrderSettlement'
  <1> DEFINE m == [n |-> Len(published) + 1, redelivered |-> FALSE]
  <1>1. /\ published \in Seq(Event) /\ queue \in Seq(Message) /\ m \in Message
        /\ published' = Append(published, cursor) /\ queue' = Append(queue, m)
        /\ UNCHANGED <<handler, acked, dropped>>
    BY DEF Publish, TypeOK, Message
  <1>2. Held' = Held /\ Held \in {0, 1}
    BY <1>1 DEF Held, Live
  <1>3. /\ Len(published') = Len(published) + 1 /\ Len(queue') = Len(queue) + 1
        /\ Len(queue) \in Nat /\ Len(published) \in Nat
        /\ queue'[Len(queue) + 1] = m
        /\ \A i \in 1..Len(queue) : queue'[i] = queue[i]
    BY <1>1
  <1>4. Settled' = Settled /\ m.n = Settled + Held + Len(queue) + 1
    BY <1>2, <1>3 DEF Settled
  <1>5. ASSUME NEW i \in 1..Len(queue')
        PROVE  queue'[i].n = Settled' + Held' + i
    <2>1. CASE i = Len(queue) + 1
      BY <2>1, <1>2, <1>3, <1>4 DEF InOrderSettlement
    <2>2. CASE i # Len(queue) + 1
      <3>1. i \in 1..Len(queue) /\ queue'[i] = queue[i]
        BY <2>2, <1>3
      <3>2. QED
        BY <3>1, <1>2, <1>4 DEF InOrderSettlement
    <2>3. QED
      BY <2>1, <2>2
  <1>6. QED
    BY <1>1, <1>4, <1>5 DEF InOrderSettlement, Live

LEMMA DeliverStep ==
  ASSUME TypeOK, InOrderSettlement, NEW s \in Slot, Deliver(s)
  PROVE  InOrderSettlement'
  <1>1. /\ queue \in Seq(Message) /\ queue # << >> /\ queue' = Tail(queue)
        /\ UNCHANGED <<published, acked, dropped>>
        /\ \A t \in Slot : ~Live(t)
    BY DEF Deliver, TypeOK, ixVars, Live
  <1>2. /\ Len(queue) \in Nat \ {0} /\ Len(queue') = Len(queue) - 1
        /\ Head(queue) = queue[1]
        /\ \A i \in 1..Len(queue') : queue'[i] = queue[i + 1]
    BY <1>1, TailQueue
  <1>3. /\ Live(s)' /\ handler'[s].n = Head(queue).n
        /\ \A t \in Slot : Live(t)' => t = s
    BY <1>1 DEF Deliver, TypeOK, Live
  <1>4. Held = 0 /\ Held' = 1
    BY <1>1, <1>3 DEF Held
  <1>5. Settled' = Settled
    BY <1>1, <1>2, <1>4 DEF Settled, TypeOK
  <1>6. Head(queue).n = Settled + 1
    BY <1>2, <1>4 DEF InOrderSettlement
  <1>7. \A i \in 1..Len(queue') : queue'[i].n = Settled' + Held' + i
    <2>1. SUFFICES ASSUME NEW i \in 1..Len(queue')
                   PROVE  queue'[i].n = Settled' + Held' + i
      OBVIOUS
    <2>2. i + 1 \in 1..Len(queue) /\ i \in Nat /\ queue'[i] = queue[i + 1]
      BY <1>2
    <2>3. QED
      BY <2>2, <1>4, <1>5 DEF InOrderSettlement
  <1>8. QED
    BY <1>1, <1>3, <1>4, <1>5, <1>6, <1>7 DEF InOrderSettlement

(***************************************************************************)
(* Every step keeps the queue order.                                       *)
(***************************************************************************)
LEMMA HandlerOrder ==
  ASSUME TypeOK, InOrderSettlement, NEW s \in Slot, HandlerStep(s)
  PROVE  InOrderSettlement'
  <1>1. UNCHANGED published
    BY DEF HandlerStep, Persist, PersistFails, Aggregate, AggregateRetry,
       AggregateFails, Fanout, Forward, ForwardFails, ixVars
  <1>2. CASE Ack(s) \/ NackDrop(s) \/ NackRequeue(s)
    BY <1>1, <1>2, SettleStep
  <1>3. CASE \E pc \in Pc : Goto(s, pc) /\ UNCHANGED <<queue, acked, dropped>>
    BY <1>1, <1>3, QuietStep DEF Goto, TypeOK, Work
  <1>4. QED
    BY <1>2, <1>3 DEF HandlerStep, Persist, PersistFails, Aggregate,
       AggregateRetry, AggregateFails, Fanout, Forward, ForwardFails, Pc

LEMMA ReconnectOrder ==
  ASSUME TypeOK, InOrderSettlement, Reconnect
  PROVE  InOrderSettlement'
  <1>1. PICK s \in Slot : /\ Live(s) /\ queue' = Requeued(s)
                         /\ handler' = [handler EXCEPT ![s].live = FALSE]
    BY DEF Reconnect, Live
  <1>2. \A t \in Slot : ~Live(t)'
    BY <1>1 DEF TypeOK, Work, Live, InOrderSettlement
  <1>3. QED
    BY <1>1, <1>2, LiveRequeues DEF Reconnect, ixVars

LEMMA OrderStep ==
  ASSUME TypeOK, InOrderSettlement, [Next]_vars
  PROVE  InOrderSettlement'
  <1>1. CASE PublishLost \/ IndexerRestart \/ UNCHANGED vars
    BY <1>1, QuietStep DEF PublishLost, IndexerRestart, vars
  <1>2. CASE Publish
    BY <1>2, PublishStep
  <1>3. ASSUME NEW s \in Slot, Deliver(s) PROVE InOrderSettlement'
    BY <1>3, DeliverStep
  <1>4. ASSUME NEW s \in Slot, HandlerStep(s) PROVE InOrderSettlement'
    BY <1>4, HandlerOrder
  <1>5. QED
    BY <1>1, <1>2, <1>3, <1>4, ReconnectOrder, ExitOrder DEF Next, Crash, ixVars

(***************************************************************************)
(* Every step keeps the types.  What a delivered message refers to exists  *)
(* because the queue is in order.                                          *)
(***************************************************************************)
LEMMA IndexerTypes ==
  ASSUME TypeOK, Publish \/ PublishLost \/ IndexerRestart
  PROVE  TypeOK'
  <1>1. N \in Nat \ {0}
    BY IngestAssumption
  <1>2. CASE Publish
    <2>1. /\ published' \in Seq(Event) /\ Len(published') = Len(published) + 1
          /\ queue' \in Seq(Message) /\ cursor' \in 1..(N + 1)
      BY <1>1, <1>2 DEF TypeOK, Publish, NextHandler, Event, Message
    <2>2. Len(published) \in Nat /\ lost' \subseteq Event
      BY <1>1, <1>2 DEF TypeOK, Publish, NextHandler, Event
    <2>3. \A s \in Slot : IF Busy(s)' THEN handler'[s].n \in 1..Len(published')
                          ELSE handler'[s] = NoWork
      BY <2>1, <2>2, <1>2 DEF TypeOK, Publish, Busy
    <2>4. QED
      BY <2>1, <2>2, <2>3, <1>2 DEF TypeOK, Publish, storeVars
  <1>3. CASE PublishLost
    BY <1>1, <1>3 DEF TypeOK, PublishLost, NextHandler, storeVars, Event, Busy
  <1>4. CASE IndexerRestart
    BY <1>1, <1>4 DEF TypeOK, IndexerRestart, storeVars, Event, Busy
  <1>5. QED
    BY <1>2, <1>3, <1>4

LEMMA DeliverTypes ==
  ASSUME TypeOK, InOrderSettlement, NEW s \in Slot, Deliver(s)
  PROVE  TypeOK'
  <1>1. /\ queue' \in Seq(Message) /\ Head(queue) \in Message
        /\ Head(queue) = queue[1] /\ Len(queue) \in Nat \ {0}
    BY TailQueue DEF TypeOK, Deliver
  <1>2. Head(queue).n \in 1..Len(published)
    <2>1. queue[1].n = Settled + Held + 1 /\ Settled \in Nat
      BY <1>1 DEF InOrderSettlement
    <2>2. Held \in {0, 1} /\ Len(published) \in Nat
      BY DEF Held, TypeOK
    <2>3. QED
      BY <1>1, <2>1, <2>2 DEF Settled
  <1>3. handler' \in [Slot -> Work]
    BY <1>1 DEF TypeOK, Deliver, Work, Pc, Message
  <1>4. \A t \in Slot : IF Busy(t)' THEN handler'[t].n \in 1..Len(published')
                                   ELSE handler'[t] = NoWork
    BY <1>2 DEF TypeOK, Deliver, Busy, ixVars
  <1>5. QED
    BY <1>1, <1>3, <1>4 DEF TypeOK, Deliver, ixVars, storeVars

LEMMA ExitTypes ==
  ASSUME TypeOK, Exit
  PROVE  /\ handler' \in [Slot -> Work] /\ queue' \in Seq(Message)
         /\ acked' \subseteq Nat /\ dropped' \subseteq Nat
         /\ \A t \in Slot : handler'[t] = NoWork /\ ~Busy(t)'
  <1>1. ASSUME NEW s \in Slot PROVE Requeued(s) \in Seq(Message)
    <2>1. [n |-> handler[s].n, redelivered |-> TRUE] \in Message
      BY DEF TypeOK, Work, Message
    <2>2. QED
      BY <2>1, PushFront DEF Requeued, TypeOK
  <1>2. queue' \in Seq(Message)
    BY <1>1 DEF Exit, TypeOK
  <1>3. QED
    BY <1>2 DEF Exit, TypeOK, Work, Pc, NoWork, Busy

(***************************************************************************)
(* What the end of a slot's work, or its next stage, does to the types.    *)
(***************************************************************************)
LEMMA WorkTypes ==
  ASSUME TypeOK, NEW s \in Slot, Busy(s), UNCHANGED published,
         \/ Ack(s) \/ NackDrop(s) \/ NackRequeue(s)
         \/ /\ \E pc \in Pc \ {"idle"} : Goto(s, pc)
            /\ UNCHANGED <<queue, acked, dropped>>
  PROVE  /\ handler' \in [Slot -> Work] /\ queue' \in Seq(Message)
         /\ acked' \subseteq Nat /\ dropped' \subseteq Nat
         /\ \A t \in Slot : IF Busy(t)' THEN handler'[t].n \in 1..Len(published')
                                      ELSE handler'[t] = NoWork
  <1>1. CASE Finish(s) /\ ~Exit
    <2>1. handler' \in [Slot -> Work]
      BY <1>1 DEF Finish, TypeOK, NoWork, Work, Pc
    <2>2. Requeued(s) \in Seq(Message)
      <3>1. [n |-> handler[s].n, redelivered |-> TRUE] \in Message
        BY DEF TypeOK, Work, Message
      <3>2. QED
        BY <3>1, PushFront DEF Requeued, TypeOK
    <2>3. queue' \in Seq(Message) /\ acked' \subseteq Nat /\ dropped' \subseteq Nat
      BY <1>1, <2>2 DEF Ack, NackDrop, NackRequeue, TypeOK, Work, Goto
    <2>4. QED
      BY <1>1, <2>1, <2>3 DEF Finish, TypeOK, NoWork, Busy
  <1>2. CASE \E pc \in Pc \ {"idle"} : /\ Goto(s, pc)
                                       /\ UNCHANGED <<queue, acked, dropped>>
    <2>1. PICK pc \in Pc \ {"idle"} : Goto(s, pc)
      BY <1>2
    <2>2. /\ handler' \in [Slot -> Work]
          /\ handler'[s].pc = pc /\ handler'[s].n = handler[s].n
          /\ \A t \in Slot : t # s => handler'[t] = handler[t]
      BY <2>1 DEF Goto, TypeOK, Work
    <2>3. \A t \in Slot : IF Busy(t)' THEN handler'[t].n \in 1..Len(published')
                                     ELSE handler'[t] = NoWork
      BY <2>2 DEF TypeOK, Busy
    <2>4. QED
      BY <1>2, <2>2, <2>3 DEF TypeOK
  <1>3. CASE Exit
    BY <1>3, ExitTypes
  <1>4. QED
    BY <1>1, <1>2, <1>3 DEF Ack, NackDrop, NackRequeue

LEMMA HandlerTypes ==
  ASSUME TypeOK, NEW s \in Slot, HandlerStep(s)
  PROVE  TypeOK'
  <1>1. /\ Busy(s)
        /\ UNCHANGED ixVars
        /\ \/ Ack(s) \/ NackDrop(s) \/ NackRequeue(s)
           \/ /\ \E pc \in Pc \ {"idle"} : Goto(s, pc)
              /\ UNCHANGED <<queue, acked, dropped>>
    BY DEF HandlerStep, Persist, PersistFails, Aggregate, AggregateRetry,
       AggregateFails, Fanout, Forward, ForwardFails, Busy, Pc
  <1>2. Ev(s) \in Event
    BY <1>1 DEF TypeOK, Ev
  <1>3. PoolOf[Ev(s)] \in Pool
    BY <1>2, IngestAssumption
  <1>4. /\ handler' \in [Slot -> Work] /\ queue' \in Seq(Message)
        /\ acked' \subseteq Nat /\ dropped' \subseteq Nat
        /\ \A t \in Slot : IF Busy(t)' THEN handler'[t].n \in 1..Len(published')
                                     ELSE handler'[t] = NoWork
    BY <1>1, WorkTypes DEF ixVars
  <1>5. stored' \subseteq Event /\ announced' \subseteq Event /\ failed' \subseteq Event
    BY <1>2 DEF HandlerStep, Persist, PersistFails, Aggregate, AggregateRetry,
       AggregateFails, Fanout, Forward, ForwardFails, TypeOK, storeVars
  <1>6. applied' \in [Event -> Nat] /\ edges' \subseteq Pool
    BY <1>2, <1>3 DEF HandlerStep, Persist, PersistFails, Aggregate, Effect,
       AggregateRetry, AggregateFails, Fanout, Forward, ForwardFails, TypeOK,
       storeVars
  <1>7. lastAgg' \in Nat /\ faults' \in Nat /\ UNCHANGED reconnects
    BY DEF HandlerStep, Persist, PersistFails, Aggregate, AggregateRetry, Fault,
       AggregateFails, Fanout, Forward, ForwardFails, TypeOK, storeVars, Work
  <1>8. QED
    BY <1>1, <1>4, <1>5, <1>6, <1>7 DEF TypeOK, ixVars

LEMMA TypeStep ==
  ASSUME TypeOK, InOrderSettlement, [Next]_vars
  PROVE  TypeOK'
  <1>1. ASSUME NEW s \in Slot PROVE Requeued(s) \in Seq(Message)
    <2>1. [n |-> handler[s].n, redelivered |-> TRUE] \in Message
      BY DEF TypeOK, Work, Message
    <2>2. QED
      BY <2>1, PushFront DEF Requeued, TypeOK
  <1>2. CASE Reconnect
    <2>1. handler' \in [Slot -> Work] /\ queue' \in Seq(Message)
      BY <1>1, <1>2 DEF Reconnect, TypeOK, Work
    <2>2. \A t \in Slot : IF Busy(t)' THEN handler'[t].n \in 1..Len(published')
                                     ELSE handler'[t] = NoWork
      <3>1. PICK s \in Slot : /\ Live(s)
                             /\ handler' = [handler EXCEPT ![s].live = FALSE]
        BY <1>2 DEF Reconnect, Live
      <3>2. Busy(s) /\ UNCHANGED published
        BY <1>2, <3>1 DEF TypeOK, Live, NoWork, Reconnect, ixVars
      <3>3. /\ handler'[s].pc = handler[s].pc /\ handler'[s].n = handler[s].n
            /\ \A t \in Slot : t # s => handler'[t] = handler[t]
        BY <3>1 DEF TypeOK, Work
      <3>4. QED
        BY <3>2, <3>3 DEF TypeOK, Busy
    <2>3. QED
      BY <1>2, <2>1, <2>2 DEF Reconnect, TypeOK, ixVars, storeVars
  <1>3. CASE Crash
    <2>1. Exit /\ UNCHANGED <<ixVars, storeVars, reconnects>> /\ faults' \in Nat
      BY <1>3 DEF Crash, Fault, TypeOK
    <2>2. QED
      BY <2>1, ExitTypes DEF TypeOK, ixVars, storeVars
  <1>4. CASE UNCHANGED vars
    BY <1>4 DEF TypeOK, vars, Busy
  <1>5. ASSUME NEW s \in Slot, Deliver(s) \/ HandlerStep(s) PROVE TypeOK'
    BY <1>5, DeliverTypes, HandlerTypes
  <1>6. QED
    BY <1>2, <1>3, <1>4, <1>5, IndexerTypes DEF Next

(***************************************************************************)
(* Type correctness and in-order settlement of the specification.          *)
(***************************************************************************)
THEOREM TypeCorrect == Spec => []TypeOK
  <1>1. TypeOK /\ InOrderSettlement /\ [Next]_vars
        => TypeOK' /\ InOrderSettlement'
    BY TypeStep, OrderStep
  <1>2. QED
    BY <1>1, InitInv, PTL DEF Spec

THEOREM SettledInOrder == Spec => []InOrderSettlement
  <1>1. TypeOK /\ InOrderSettlement /\ [Next]_vars
        => TypeOK' /\ InOrderSettlement'
    BY TypeStep, OrderStep
  <1>2. QED
    BY <1>1, InitInv, PTL DEF Spec

(***************************************************************************)
(* No step takes back what is stored, sent, applied or settled.            *)
(***************************************************************************)
LEMMA Frame ==
  ASSUME TypeOK, TypeOK', InOrderSettlement, InOrderSettlement', [Next]_vars
  PROVE  /\ Len(published) <= Len(published')
         /\ \A n \in 1..Len(published) : published'[n] = published[n]
         /\ stored \subseteq stored' /\ edges \subseteq edges'
         /\ lost \subseteq lost' /\ failed \subseteq failed'
         /\ \A e \in Event : applied'[e] >= applied[e]
         /\ Settled <= Settled'
  <1>1. /\ Len(published) <= Len(published')
        /\ \A n \in 1..Len(published) : published'[n] = published[n]
        /\ lost \subseteq lost'
    <2>1. CASE UNCHANGED <<published, lost>>
      BY <2>1 DEF TypeOK
    <2>2. CASE Publish
      BY <2>2 DEF Publish, TypeOK
    <2>3. CASE PublishLost
      BY <2>3 DEF PublishLost, TypeOK
    <2>4. QED
      BY <2>1, <2>2, <2>3 DEF Next, vars, IndexerRestart, Deliver,
         HandlerStep, Persist, PersistFails, Aggregate, AggregateRetry,
         AggregateFails, Fanout, Forward, ForwardFails, Reconnect, Crash, ixVars
  <1>2. /\ stored \subseteq stored' /\ edges \subseteq edges'
        /\ failed \subseteq failed'
        /\ \A e \in Event : applied'[e] >= applied[e]
    <2>1. CASE UNCHANGED storeVars
      BY <2>1 DEF storeVars, TypeOK
    <2>2. ASSUME NEW s \in Slot, HandlerStep(s)
          PROVE  /\ stored \subseteq stored' /\ edges \subseteq edges'
                 /\ failed \subseteq failed'
                 /\ \A e \in Event : applied'[e] >= applied[e]
      <3>1. CASE UNCHANGED <<edges, applied>>
        BY <2>2, <3>1 DEF HandlerStep, Persist, PersistFails, Aggregate,
           AggregateRetry, AggregateFails, Fanout, Forward, ForwardFails,
           storeVars, TypeOK
      <3>2. CASE Effect(Ev(s))
        <4>1. edges \subseteq edges'
          BY <3>2 DEF Effect
        <4>2. \A e \in Event : applied'[e] >= applied[e]
          BY <3>2 DEF Effect, TypeOK
        <4>3. stored \subseteq stored' /\ failed \subseteq failed'
          BY <2>2 DEF HandlerStep, Persist, PersistFails, Aggregate,
             AggregateRetry, AggregateFails, Fanout, Forward, ForwardFails,
             storeVars
        <4>4. QED
          BY <4>1, <4>2, <4>3
      <3>3. QED
        BY <2>2, <3>1, <3>2 DEF HandlerStep, Persist, PersistFails, Aggregate,
           AggregateRetry, AggregateFails, Fanout, Forward, ForwardFails,
           storeVars
    <2>3. QED
      BY <2>1, <2>2 DEF Next, vars, Publish, PublishLost,
         IndexerRestart, Deliver, Reconnect, Crash, storeVars
  <1>3. acked \cup dropped \subseteq acked' \cup dropped'
    BY DEF Exit, Next, vars, Publish, PublishLost, IndexerRestart, Deliver,
       HandlerStep, Persist, PersistFails, Aggregate, AggregateRetry,
       AggregateFails, Fanout, Forward, ForwardFails, Reconnect, Crash, Ack,
       NackDrop, NackRequeue
  <1>4. Settled <= Settled'
    <2>1. CASE Settled = 0
      BY <2>1 DEF InOrderSettlement
    <2>2. CASE Settled # 0
      <3>1. Settled \in 1..Settled'
        BY <2>2, <1>3 DEF InOrderSettlement
      <3>2. QED
        BY <3>1 DEF InOrderSettlement
    <2>3. QED
      BY <2>1, <2>2
  <1>5. QED
    BY <1>1, <1>2, <1>4

LEMMA TookStays ==
  ASSUME TypeOK, TypeOK', InOrderSettlement, InOrderSettlement', [Next]_vars,
         NEW e \in Event
  PROVE  /\ Took(e) => Took(e)'
         /\ PoolKnown(e) => PoolKnown(e)'
  <1>1. /\ edges \subseteq edges' /\ lost \subseteq lost' /\ failed \subseteq failed'
        /\ applied'[e] >= applied[e] /\ applied[e] \in Nat /\ applied'[e] \in Nat
    BY Frame DEF TypeOK
  <1>2. applied[e] > 0 => applied'[e] > 0
    BY <1>1
  <1>3. Excused(e) => Excused(e)'
    BY <1>1 DEF Excused, Creations
  <1>4. QED
    BY <1>1, <1>2, <1>3 DEF Took, PoolKnown

(***************************************************************************)
(* What a slot holds after a step it held before, unless it was delivered. *)
(***************************************************************************)
LEMMA SlotFrame ==
  ASSUME TypeOK, [Next]_vars, NEW t \in Slot, Busy(t)'
  PROVE  \/ Deliver(t)
         \/ Busy(t) /\ handler'[t].n = handler[t].n /\ HandlerStep(t)
         \/ /\ Busy(t) /\ handler'[t].n = handler[t].n
            /\ handler'[t].pc = handler[t].pc
  <1>1. ~Exit
    BY ExitTypes
  <1>2. CASE UNCHANGED handler
    BY <1>2 DEF Busy
  <1>3. ASSUME NEW s \in Slot, Deliver(s), s # t
        PROVE  handler'[t] = handler[t]
    BY <1>3 DEF Deliver, TypeOK
  <1>4. ASSUME NEW s \in Slot, HandlerStep(s), s # t
        PROVE  handler'[t] = handler[t]
    <2>1. Finish(s) \/ \E pc \in Pc : Goto(s, pc)
      BY <1>4, <1>1 DEF HandlerStep, Persist, PersistFails, Aggregate,
         AggregateRetry, AggregateFails, Fanout, Forward, ForwardFails, Ack,
         NackDrop, NackRequeue, Pc
    <2>2. QED
      BY <1>4, <2>1 DEF Finish, Goto, TypeOK
  <1>5. CASE HandlerStep(t)
    <2>1. Busy(t)
      BY <1>5 DEF HandlerStep, Persist, PersistFails, Aggregate, AggregateRetry,
         AggregateFails, Fanout, Forward, ForwardFails, Busy
    <2>2. ~Finish(t)
      BY DEF Finish, NoWork, Busy, TypeOK
    <2>3. \E pc \in Pc : Goto(t, pc)
      BY <1>5, <1>1, <2>2 DEF HandlerStep, Persist, PersistFails, Aggregate,
         AggregateRetry, AggregateFails, Fanout, Forward, ForwardFails, Ack,
         NackDrop, NackRequeue, Pc
    <2>4. QED
      BY <1>5, <2>1, <2>3 DEF Goto, TypeOK, Work
  <1>6. CASE Reconnect
    BY <1>6 DEF Reconnect, Busy, TypeOK, Work
  <1>7. CASE Crash
    BY <1>7, <1>1 DEF Crash
  <1>8. QED
    BY <1>2, <1>3, <1>4, <1>5, <1>6, <1>7 DEF Next, vars, Publish,
       PublishLost, IndexerRestart, Busy

LEMMA NextSettles ==
  ASSUME NEW k \in Nat, NEW x, x = k + 1
  PROVE  x \in 1..(k + 1)
  OBVIOUS

LEMMA BehindStep ==
  ASSUME TypeOK, TypeOK', InOrderSettlement, InOrderSettlement', Behind,
         [Next]_vars
  PROVE  Behind'
  <1>1. SUFFICES ASSUME NEW t \in Slot, Busy(t)'
                 PROVE  handler'[t].n \in 1..(Settled' + 1)
    BY DEF Behind
  <1>2. CASE Deliver(t)
    <2>1. Live(t)'
      BY <1>2 DEF Deliver, Live, TypeOK
    <2>2. handler'[t].n = Settled' + 1
      BY <2>1 DEF InOrderSettlement
    <2>3. Settled' \in Nat
      BY DEF InOrderSettlement
    <2>4. QED
      BY <2>2, <2>3, NextSettles
  <1>3. CASE Busy(t) /\ handler'[t].n = handler[t].n
    <2>1. handler[t].n \in Nat /\ Settled \in Nat /\ Settled' \in Nat
      BY DEF TypeOK, Work, InOrderSettlement
    <2>2. QED
      BY <1>3, <2>1, Frame DEF Behind
  <1>4. QED
    BY <1>1, <1>2, <1>3, SlotFrame

LEMMA PublishedInOrderStep ==
  ASSUME TypeOK, TypeOK', InOrderSettlement, InOrderSettlement',
         PublishedInOrder, [Next]_vars
  PROVE  PublishedInOrder'
  <1>1. CASE UNCHANGED <<cursor, published, lost>>
    BY <1>1 DEF PublishedInOrder
  <1>2. CASE IndexerRestart
    BY <1>2 DEF IndexerRestart, PublishedInOrder, TypeOK, Event
  <1>3. CASE PublishLost
    BY <1>3 DEF PublishLost, NextHandler, PublishedInOrder, TypeOK, Event
  <1>4. CASE Publish
    <2>1. /\ cursor \in Event /\ cursor' = cursor + 1 /\ lost' = lost
          /\ published' = Append(published, cursor) /\ published \in Seq(Event)
      BY <1>4 DEF Publish, NextHandler, TypeOK
    <2>2. /\ Len(published') = Len(published) + 1 /\ Len(published) \in Nat
          /\ published'[Len(published) + 1] = cursor
          /\ \A n \in 1..Len(published) : published'[n] = published[n]
      BY <2>1
    <2>3. ASSUME NEW c \in Event, c < cursor'
          PROVE  c \in lost' \/ \E m \in 1..Len(published') : published'[m] = c
      BY <2>1, <2>2, <2>3 DEF PublishedInOrder, Event
    <2>4. ASSUME NEW n \in 1..Len(published'), NEW c \in Event, c < published'[n]
          PROVE  c \in lost' \/ \E m \in 1..(n - 1) : published'[m] = c
      BY <2>1, <2>2, <2>4 DEF PublishedInOrder, Event
    <2>5. QED
      BY <2>3, <2>4 DEF PublishedInOrder
  <1>5. QED
    BY <1>1, <1>2, <1>3, <1>4 DEF Next, vars, Deliver, HandlerStep,
       Persist, PersistFails, Aggregate, AggregateRetry, AggregateFails, Fanout,
       Forward, ForwardFails, Reconnect, Crash, ixVars

(***************************************************************************)
(* The heart of the matter: when a slot meets an unknown pool, everything  *)
(* sent before its message has settled, so every earlier creation of the   *)
(* pool was lost or failed.                                                *)
(***************************************************************************)
LEMMA UnknownPoolExcused ==
  ASSUME TypeOK, InOrderSettlement, PublishedInOrder, Behind, SettledKnown,
         NEW s \in Slot, Busy(s), PoolOf[Ev(s)] \notin edges
  PROVE  Excused(Ev(s))
  <1>1. SUFFICES ASSUME NEW c \in Creations(PoolOf[Ev(s)]), c < Ev(s), c \notin lost
                 PROVE  c \in failed
    BY DEF Excused
  <1>2. handler[s].n \in 1..Len(published) /\ c \in Event
    BY DEF TypeOK, Creations
  <1>3. PICK m \in 1..(handler[s].n - 1) : published[m] = c
    BY <1>1, <1>2 DEF PublishedInOrder, Ev
  <1>4. m \in acked \cup dropped
    BY <1>2, <1>3 DEF Behind, InOrderSettlement
  <1>5. QED
    BY <1>3, <1>4 DEF SettledKnown, PoolKnown, Creations

LEMMA EvFrame ==
  ASSUME TypeOK, TypeOK', InOrderSettlement, InOrderSettlement', [Next]_vars
  PROVE  /\ \A s \in Slot : Busy(s) => /\ Ev(s) \in Event
                                       /\ published'[handler[s].n] = Ev(s)
         /\ \A n \in acked \cup dropped : /\ published[n] \in Event
                                          /\ published'[n] = published[n]
  <1>1. /\ published \in Seq(Event) /\ Len(published) \in Nat
        /\ \A n \in 1..Len(published) : published'[n] = published[n]
    <2>1. published \in Seq(Event)
      BY DEF TypeOK
    <2>2. \A n \in 1..Len(published) : published'[n] = published[n]
      BY Frame
    <2>3. QED
      BY <2>1, <2>2
  <1>2. \A n \in 1..Len(published) : published[n] \in Event
    BY <1>1
  <1>3. acked \cup dropped \subseteq 1..Len(published)
    <2>1. Held \in {0, 1} /\ Len(queue) \in Nat
      BY DEF Held, TypeOK
    <2>2. Settled <= Len(published)
      BY <1>1, <2>1 DEF Settled
    <2>3. acked \cup dropped = 1..Settled /\ Settled \in Nat
      BY DEF InOrderSettlement
    <2>4. QED
      BY <1>1, <2>2, <2>3
  <1>4. \A s \in Slot : Busy(s) => handler[s].n \in 1..Len(published)
    BY DEF TypeOK
  <1>5. QED
    BY <1>1, <1>2, <1>3, <1>4 DEF Ev

(***************************************************************************)
(* After its aggregation an event took effect or is excused.               *)
(***************************************************************************)
LEMMA AggregateTakes ==
  ASSUME TypeOK, TypeOK', InOrderSettlement, InOrderSettlement',
         PublishedInOrder, Behind, SettledKnown, [Next]_vars,
         NEW s \in Slot, Aggregate(s), NEW e, e = Ev(s)
  PROVE  Took(e)' /\ PoolKnown(e)'
  <1>1. Busy(s) /\ e \in Event /\ Effect(e)
    BY EvFrame DEF Aggregate, Busy
  <1>2. CASE TakesEffect(e)
    <2>1. applied[e] \in Nat /\ applied'[e] = applied[e] + 1
      BY <1>1, <1>2 DEF Effect, TypeOK
    <2>2. QED
      BY <1>1, <2>1 DEF Took, PoolKnown, Effect
  <1>3. CASE ~TakesEffect(e)
    <2>1. Excused(e)
      BY <1>1, <1>3, UnknownPoolExcused DEF TakesEffect
    <2>2. Took(e)'
      BY <1>1, <2>1, TookStays DEF Took
    <2>3. QED
      BY <1>3, <2>2 DEF TakesEffect, PoolKnown
  <1>4. QED
    BY <1>2, <1>3

LEMMA PastStep ==
  ASSUME TypeOK, TypeOK', InOrderSettlement, InOrderSettlement',
         PublishedInOrder, Behind, SettledKnown, Past, [Next]_vars
  PROVE  Past'
  <1>1. SUFFICES ASSUME NEW t \in Slot, Busy(t)'
                 PROVE  /\ handler'[t].pc \in {"aggregate", "fanout", "forward"}
                             => Ev(t)' \in stored'
                        /\ handler'[t].pc \in {"fanout", "forward"}
                             => Took(Ev(t))' /\ PoolKnown(Ev(t))'
    BY DEF Past, Busy
  <1>2. CASE Deliver(t)
    BY <1>2 DEF Deliver, TypeOK
  <1>3. CASE Busy(t) /\ handler'[t].n = handler[t].n
    <2>1. Ev(t)' = Ev(t) /\ Ev(t) \in Event
      BY <1>3, EvFrame DEF Ev
    <2> DEFINE e == Ev(t)
    <2>2. PICK x \in Event : x = e
      BY <2>1
    <2>3. SUFFICES /\ handler'[t].pc \in {"aggregate", "fanout", "forward"}
                        => x \in stored'
                   /\ handler'[t].pc \in {"fanout", "forward"}
                        => Took(x)' /\ PoolKnown(x)'
      BY <2>1, <2>2 DEF Took, PoolKnown, Excused, Creations
    <2>4. /\ stored \subseteq stored'
          /\ Took(x) => Took(x)'
          /\ PoolKnown(x) => PoolKnown(x)'
      BY Frame, TookStays
    <2>5. CASE handler'[t].pc = handler[t].pc
      BY <2>2, <2>4, <2>5 DEF Past
    <2>6. CASE Persist(t)
      BY <2>2, <2>6 DEF Persist, Goto, TypeOK
    <2>7. CASE Aggregate(t)
      BY <2>2, <2>4, <2>7, AggregateTakes DEF Aggregate, Past
    <2>8. CASE AggregateFails(t)
      BY <2>2, <2>4, <2>8 DEF AggregateFails, Past, Took, PoolKnown, Excused, Creations
    <2>9. CASE Fanout(t)
      BY <2>2, <2>4, <2>9 DEF Fanout, Past
    <2>10. CASE Finish(t) \/ Exit
      <3>1. handler'[t] = NoWork
        BY <2>10, ExitTypes DEF Finish, TypeOK
      <3>2. QED
        BY <1>1, <3>1 DEF Busy, NoWork
    <2>11. CASE HandlerStep(t)
      BY <2>6, <2>7, <2>8, <2>9, <2>10, <2>11 DEF HandlerStep, PersistFails,
         AggregateRetry, Forward, ForwardFails, Ack, NackDrop, NackRequeue
    <2>12. ~Deliver(t)
      BY <1>3 DEF Deliver
    <2>13. QED
      BY <1>1, <2>5, <2>11, <2>12, SlotFrame
  <1>4. QED
    BY <1>1, <1>2, <1>3, SlotFrame

LEMMA StoredFirstStep ==
  ASSUME TypeOK, TypeOK', InOrderSettlement, InOrderSettlement',
         Past, StoredFirst, [Next]_vars
  PROVE  StoredFirst'
  <1>1. CASE UNCHANGED <<stored, applied, announced>>
    BY <1>1 DEF StoredFirst
  <1>2. ASSUME NEW s \in Slot, HandlerStep(s) PROVE StoredFirst'
    <2>1. CASE UNCHANGED <<applied, announced>> /\ stored \subseteq stored'
      BY <2>1 DEF StoredFirst
    <2>2. CASE Aggregate(s) \/ AggregateFails(s)
      <3>1. /\ Ev(s) \in stored
            /\ UNCHANGED <<stored, announced>>
            /\ applied' = applied \/ applied' = [applied EXCEPT ![Ev(s)] = @ + 1]
        BY <2>2 DEF Aggregate, AggregateFails, Effect, Past
      <3>2. ASSUME NEW e \in Event, applied'[e] > 0 PROVE e \in stored
        <4>1. e = Ev(s) \/ applied'[e] = applied[e]
          BY <3>1 DEF TypeOK
        <4>2. QED
          BY <3>1, <3>2, <4>1 DEF StoredFirst
      <3>3. QED
        BY <3>1, <3>2 DEF StoredFirst
    <2>3. CASE Fanout(s)
      BY <2>3 DEF Fanout, Past, StoredFirst
    <2>4. QED
      BY <1>2, <2>1, <2>2, <2>3 DEF HandlerStep, Persist, PersistFails,
         AggregateRetry, Forward, ForwardFails, storeVars
  <1>3. QED
    BY <1>1, <1>2 DEF Next, vars, Publish, PublishLost,
       IndexerRestart, Deliver, Reconnect, Crash, storeVars

(***************************************************************************)
(* A message that settles in a step is the one a live slot held, and its   *)
(* event then took effect, is excused, and its pool is known if it had to. *)
(***************************************************************************)
LEMMA SettlesKnown ==
  ASSUME TypeOK, TypeOK', InOrderSettlement, InOrderSettlement',
         PublishedInOrder, Behind, SettledKnown, Past, [Next]_vars,
         NEW n, n \in acked' \cup dropped', n \notin acked \cup dropped,
         NEW e, e = published'[n]
  PROVE  e \in Event /\ Took(e)' /\ PoolKnown(e)'
  <1>1. PICK s \in Slot : HandlerStep(s) /\ Finish(s) /\ n = handler[s].n
                         /\ (Ack(s) \/ NackDrop(s))
    BY DEF Next, vars, Publish, PublishLost, IndexerRestart, Deliver,
       HandlerStep, Persist, PersistFails, Aggregate, AggregateRetry,
       AggregateFails, Fanout, Forward, ForwardFails, Reconnect, Crash, Exit,
       Ack, NackDrop, NackRequeue
  <1>2. e \in Event /\ e = Ev(s) /\ Busy(s)
    <2>1. Busy(s)
      BY <1>1 DEF HandlerStep, Persist, PersistFails, Aggregate, AggregateRetry,
         AggregateFails, Fanout, Forward, ForwardFails, Busy
    <2>2. QED
      BY <1>1, <2>1, EvFrame
  <1>3. SUFFICES Took(e)' /\ PoolKnown(e)'
    BY <1>2
  <1>4. CASE PersistFails(s) \/ AggregateFails(s)
    BY <1>2, <1>4 DEF PersistFails, AggregateFails, Took, PoolKnown, Excused
  <1>5. CASE AggregateRetry(s)
    <2>1. Kind[e] = "mint" /\ PoolOf[e] \notin edges
      BY <1>2, <1>5 DEF AggregateRetry, TakesEffect
    <2>2. Took(e)
      BY <1>2, <2>1, UnknownPoolExcused DEF Took
    <2>3. PoolKnown(e)'
      BY <2>1 DEF PoolKnown
    <2>4. QED
      BY <1>2, <2>2, <2>3, TookStays
  <1>6. CASE Forward(s) \/ ForwardFails(s)
    <2>1. Took(e) /\ PoolKnown(e)
      BY <1>2, <1>6 DEF Forward, ForwardFails, Past
    <2>2. QED
      BY <1>2, <2>1, TookStays
  <1>7. CASE Persist(s) \/ Aggregate(s) \/ Fanout(s)
    BY <1>1, <1>2, <1>7 DEF Persist, Aggregate, Fanout, Goto, Finish, NoWork,
       Busy, TypeOK, Work
  <1>8. QED
    BY <1>1, <1>4, <1>5, <1>6, <1>7 DEF HandlerStep

LEMMA SettledKnownStep ==
  ASSUME TypeOK, TypeOK', InOrderSettlement, InOrderSettlement',
         PublishedInOrder, Behind, SettledKnown, Past, [Next]_vars
  PROVE  SettledKnown'
  <1>1. SUFFICES ASSUME NEW n, n \in acked' \cup dropped'
                 PROVE  PoolKnown(published[n])'
    BY DEF SettledKnown
  <1>2. PICK e : e = published'[n]
    OBVIOUS
  <1>3. SUFFICES PoolKnown(e)'
    BY <1>2 DEF PoolKnown
  <1>4. CASE n \in acked \cup dropped
    <2>1. e = published[n] /\ e \in Event
      BY <1>2, <1>4, EvFrame
    <2>2. PoolKnown(e)
      BY <1>4, <2>1 DEF SettledKnown
    <2>3. QED
      BY <2>1, <2>2, TookStays
  <1>5. CASE n \notin acked \cup dropped
    BY <1>1, <1>2, <1>5, SettlesKnown
  <1>6. QED
    BY <1>4, <1>5

LEMMA EffectStep ==
  ASSUME TypeOK, TypeOK', InOrderSettlement, InOrderSettlement',
         PublishedInOrder, Behind, SettledKnown, Past,
         EffectUnlessCreationLost, [Next]_vars
  PROVE  EffectUnlessCreationLost'
  <1>1. ASSUME NEW n, n \in acked' \cup dropped'
        PROVE  Took(published[n])'
    <2>1. PICK e : e = published'[n]
      OBVIOUS
    <2>2. SUFFICES Took(e)'
      BY <2>1 DEF Took, Excused, Creations
    <2>3. CASE n \in acked \cup dropped
      <3>1. e = published[n] /\ e \in Event
        BY <2>1, <2>3, EvFrame
      <3>2. Took(e)
        BY <2>3, <3>1 DEF EffectUnlessCreationLost, Took
      <3>3. QED
        BY <3>1, <3>2, TookStays
    <2>4. CASE n \notin acked \cup dropped
      BY <1>1, <2>1, <2>4, SettlesKnown
    <2>5. QED
      BY <2>3, <2>4
  <1>2. ASSUME NEW e, e \in announced' PROVE Took(e)'
    <2>1. e \in Event
      BY <1>2 DEF TypeOK
    <2>2. Took(e)
      <3>1. CASE e \in announced
        BY <3>1 DEF EffectUnlessCreationLost, Took
      <3>2. CASE e \notin announced
        <4>1. PICK s \in Slot : Fanout(s) /\ e = Ev(s)
          BY <1>2, <3>2 DEF Next, vars, Publish, PublishLost,
             IndexerRestart, Deliver, HandlerStep, Persist, PersistFails,
             Aggregate, AggregateRetry, AggregateFails, Fanout, Forward,
             ForwardFails, Reconnect, Crash, storeVars
        <4>2. QED
          BY <4>1 DEF Fanout, Past
      <3>3. QED
        BY <3>1, <3>2
    <2>3. QED
      BY <2>1, <2>2, TookStays
  <1>3. QED
    BY <1>1, <1>2 DEF EffectUnlessCreationLost, Took

LEMMA InitIInv == ASSUME Init PROVE IInv
  <1>1. TypeOK /\ InOrderSettlement
    BY InitInv
  <1>2. /\ StoredFirst /\ EffectUnlessCreationLost
        /\ PublishedInOrder /\ Behind /\ Past /\ SettledKnown
    BY DEF Init, StoredFirst, EffectUnlessCreationLost, PublishedInOrder, Behind,
       Past, SettledKnown, NoWork, Busy, Event
  <1>3. QED
    BY <1>1, <1>2 DEF IInv

LEMMA IInvStep == IInv /\ [Next]_vars => IInv'
  <1>1. SUFFICES ASSUME IInv, [Next]_vars PROVE IInv'
    OBVIOUS
  <1>2. TypeOK' /\ InOrderSettlement'
    BY <1>1, TypeStep, OrderStep DEF IInv
  <1>3. /\ PublishedInOrder' /\ Behind' /\ Past' /\ SettledKnown'
        /\ StoredFirst' /\ EffectUnlessCreationLost'
    BY <1>1, <1>2, PublishedInOrderStep, BehindStep, PastStep, SettledKnownStep,
       StoredFirstStep, EffectStep DEF IInv
  <1>4. QED
    BY <1>2, <1>3 DEF IInv

THEOREM Inductive == Spec => []IInv
  BY InitIInv, IInvStep, PTL DEF Spec

(***************************************************************************)
(* Nothing is aggregated or announced before it is stored.                 *)
(***************************************************************************)
THEOREM StoredFirstHolds == Spec => []StoredFirst
  <1>1. IInv => StoredFirst
    BY DEF IInv
  <1>2. QED
    BY <1>1, Inductive, PTL

(***************************************************************************)
(* What is settled or announced took effect or is excused.                 *)
(***************************************************************************)
THEOREM EffectHolds == Spec => []EffectUnlessCreationLost
  <1>1. IInv => EffectUnlessCreationLost
    BY DEF IInv
  <1>2. QED
    BY <1>1, Inductive, PTL

(***************************************************************************)
(* While the connection lasts no call is orphaned, and no aggregation is   *)
(* ahead of the first unsettled message.                                   *)
(***************************************************************************)
Steady ==
  /\ reconnects = 0 => \A s \in Slot : Busy(s) => Live(s)
  /\ lastAgg <= Settled + 1

LEMMA StaysBehind ==
  ASSUME NEW k \in Nat, NEW settled \in Nat, NEW later \in Nat,
         k <= settled + 1, settled <= later
  PROVE  k <= later + 1
  OBVIOUS

LEMMA SteadyStep ==
  ASSUME IInv, IInv', Steady, [Next]_vars
  PROVE  Steady'
  <1> USE DEF IInv
  <1>1. ASSUME NEW t \in Slot, reconnects' = 0, Busy(t)' PROVE Live(t)'
    <2>1. reconnects = 0
      BY <1>1 DEF Next, vars, Publish, PublishLost, IndexerRestart,
         Deliver, HandlerStep, Persist, PersistFails, Aggregate, AggregateRetry,
         AggregateFails, Fanout, Forward, ForwardFails, Reconnect, Crash, TypeOK
    <2>2. ~Reconnect
      BY <1>1, <2>1 DEF Reconnect
    <2>3. CASE UNCHANGED handler
      BY <1>1, <2>1, <2>3 DEF Steady, Busy, Live
    <2>4. ASSUME NEW s \in Slot, Deliver(s) PROVE Live(t)'
      BY <1>1, <2>1, <2>4 DEF Deliver, Steady, Busy, Live, TypeOK
    <2>5. ASSUME NEW s \in Slot, HandlerStep(s) PROVE Live(t)'
      <3>1. CASE Finish(s)
        BY <1>1, <2>1, <3>1 DEF Finish, NoWork, Steady, Busy, Live, TypeOK
      <3>2. CASE Busy(s) /\ \E pc \in Pc : Goto(s, pc)
        <4>1. Live(s)
          BY <2>1, <3>2 DEF Steady
        <4>2. QED
          BY <1>1, <2>1, <3>2, <4>1 DEF Goto, Steady, Busy, Live, TypeOK, Work
      <3>3. ~Exit
        BY <1>1, ExitTypes
      <3>4. QED
        BY <2>5, <3>1, <3>2, <3>3 DEF HandlerStep, Persist, PersistFails, Aggregate,
           AggregateRetry, AggregateFails, Fanout, Forward, ForwardFails, Ack,
           NackDrop, NackRequeue, Busy, Pc
    <2>6. CASE Crash
      BY <1>1, <2>6, ExitTypes DEF Crash
    <2>7. QED
      BY <2>2, <2>3, <2>4, <2>5, <2>6 DEF Next, vars, Publish,
         PublishLost, IndexerRestart
  <1>2. lastAgg' <= Settled' + 1
    <2>1. /\ Settled \in Nat /\ Settled' \in Nat /\ lastAgg \in Nat
          /\ lastAgg' \in Nat /\ Settled <= Settled'
      <3>1. Settled \in Nat /\ Settled' \in Nat
        BY DEF InOrderSettlement
      <3>2. lastAgg \in Nat /\ lastAgg' \in Nat
        BY DEF TypeOK
      <3>3. QED
        BY <3>1, <3>2, Frame
    <2>2. CASE lastAgg' = lastAgg
      <3>1. lastAgg <= Settled + 1
        BY DEF Steady
      <3>2. QED
        BY <2>1, <2>2, <3>1, StaysBehind
    <2>3. ASSUME NEW s \in Slot, Busy(s), lastAgg' = handler[s].n
          PROVE  lastAgg' <= Settled' + 1
      <3>1. handler[s].n \in 1..(Settled + 1)
        BY <2>3 DEF Behind
      <3>2. QED
        BY <2>1, <2>3, <3>1
    <2>4. QED
      BY <2>2, <2>3 DEF Next, vars, Publish, PublishLost,
         IndexerRestart, Deliver, HandlerStep, Persist, PersistFails, Aggregate,
         AggregateRetry, AggregateFails, Fanout, Forward, ForwardFails, Busy,
         Reconnect, Crash, storeVars
  <1>3. QED
    BY <1>1, <1>2 DEF Steady

LEMMA ConnectedStep ==
  ASSUME IInv, Steady, [Next]_vars, reconnects = 0
  PROVE  lastAgg' >= lastAgg
  <1>1. CASE lastAgg' = lastAgg
    BY <1>1 DEF IInv, TypeOK
  <1>2. ASSUME NEW s \in Slot, Busy(s), lastAgg' = handler[s].n
        PROVE  lastAgg' >= lastAgg
    <2>1. handler[s].n = Settled + 1
      BY <1>2 DEF Steady, IInv, InOrderSettlement
    <2>2. Settled \in Nat /\ lastAgg \in Nat
      BY DEF IInv, InOrderSettlement, TypeOK
    <2>3. QED
      BY <1>2, <2>1, <2>2 DEF Steady
  <1>3. QED
    BY <1>1, <1>2 DEF Next, vars, Publish, PublishLost,
       IndexerRestart, Deliver, HandlerStep, Persist, PersistFails, Aggregate,
       AggregateRetry, AggregateFails, Fanout, Forward, ForwardFails, Busy,
       Reconnect, Crash, storeVars

(***************************************************************************)
(* While no connection was lost, messages are aggregated in sending order. *)
(***************************************************************************)
THEOREM ConnectedOrder == Spec => OrderWhileConnected
  <1>1. Init => Steady
    BY DEF Init, Steady, Busy, NoWork, Settled, Held, Live
  <1>2. IInv /\ IInv' /\ Steady /\ [Next]_vars
          => Steady' /\ [reconnects = 0 => lastAgg' >= lastAgg]_vars
    BY SteadyStep, ConnectedStep
  <1>3. QED
    BY <1>1, <1>2, Inductive, PTL DEF Spec, OrderWhileConnected

-----------------------------------------------------------------------------
(***************************************************************************)
(* How often an event may count, for any number of events, pools, slots    *)
(* and disturbances.  Due(e) adds to the times e has counted all that may  *)
(* still count it: a publication to come, its unsettled messages that have *)
(* not been aggregated, the calls at work on it without a channel, and one *)
(* requeue that any such call will cause when it ends the process.  Only a *)
(* disturbance makes Due(e) larger: a lost connection by two, an indexer   *)
(* restart, a crash and a failing step by one.                             *)
(***************************************************************************)
Begun(s) == handler[s].pc \in {"persist", "aggregate"}
Orphans == {s \in Slot : Busy(s) /\ ~Live(s)}
OrphansOn(e) == {s \in Orphans : Begun(s) /\ Ev(s) = e}

\* Unsettled messages about e that no call with a channel has aggregated.
Awaited(e) ==
  {n \in (Settled + 1)..Len(published) :
     published[n] = e /\ \A s \in Slot : Live(s) => Begun(s) \/ handler[s].n # n}

Coming(e) == IF cursor <= e THEN 1 ELSE 0

Due(e) == applied[e] + Coming(e) + Cardinality(Awaited(e))
            + Cardinality(Orphans) + Cardinality(OrphansOn(e))

Budget == 1 + restarts + 2 * reconnects + faults

Bounded == IsFiniteSet(Orphans) /\ \A e \in Event : Due(e) <= Budget

-----------------------------------------------------------------------------
(* Sizes of sets that change by an element.                                *)

LEMMA Smaller ==
  ASSUME NEW S, IsFiniteSet(S), NEW T, T \subseteq S
  PROVE  /\ IsFiniteSet(T) /\ Cardinality(S) \in Nat /\ Cardinality(T) \in Nat
         /\ Cardinality(T) <= Cardinality(S)
  BY FS_Subset, FS_CardinalityType

LEMMA LargerByOne ==
  ASSUME NEW S, IsFiniteSet(S), NEW x, NEW T, T \subseteq S \cup {x}
  PROVE  /\ IsFiniteSet(T) /\ Cardinality(S) \in Nat /\ Cardinality(T) \in Nat
         /\ Cardinality(T) <= Cardinality(S) + 1
<1>1. /\ IsFiniteSet(S \cup {x}) /\ Cardinality(S \cup {x}) <= Cardinality(S) + 1
      /\ Cardinality(S) \in Nat
  BY FS_AddElement, FS_CardinalityType
<1>2. /\ IsFiniteSet(T) /\ Cardinality(T) \in Nat
      /\ Cardinality(T) <= Cardinality(S \cup {x}) /\ Cardinality(S \cup {x}) \in Nat
  BY <1>1, Smaller
<1> QED
  BY <1>1, <1>2

LEMMA SmallerByOne ==
  ASSUME NEW S, IsFiniteSet(S), NEW x \in S, NEW T, T \subseteq S \ {x}
  PROVE  /\ IsFiniteSet(T) /\ Cardinality(S) \in Nat /\ Cardinality(T) \in Nat
         /\ Cardinality(T) + 1 <= Cardinality(S)
<1>1. /\ IsFiniteSet(S \ {x}) /\ Cardinality(S \ {x}) = Cardinality(S) - 1
      /\ Cardinality(S) \in Nat
  BY FS_RemoveElement, FS_CardinalityType
<1>2. /\ IsFiniteSet(T) /\ Cardinality(T) \in Nat
      /\ Cardinality(T) <= Cardinality(S \ {x})
  BY <1>1, Smaller
<1> QED
  BY <1>1, <1>2

LEMMA NotEmpty ==
  ASSUME NEW S, IsFiniteSet(S), NEW x \in S
  PROVE  Cardinality(S) \in Nat /\ Cardinality(S) >= 1
<1>1. Cardinality(S) \in Nat /\ Cardinality(S) # 0
  BY FS_CardinalityType, FS_EmptySet
<1> QED
  BY <1>1

LEMMA BudgetGrows ==
  ASSUME NEW r \in Nat, NEW q \in Nat, NEW f \in Nat, NEW g \in Nat, f <= g
  PROVE  1 + r + 2 * q + f <= 1 + r + 2 * q + g
<1> DEFINE b == 2 * q
<1>1. b \in Nat
  OBVIOUS
<1> HIDE DEF b
<1>2. 1 + r + b + f <= 1 + r + b + g
  BY <1>1
<1> QED
  BY <1>2 DEF b

LEMMA NarrowRange ==
  ASSUME NEW a \in Nat, NEW b \in Nat, NEW c \in Nat, a <= b, NEW n \in (b + 1)..c
  PROVE  n \in (a + 1)..c
OBVIOUS

LEMMA BudgetType ==
  ASSUME NEW r \in Nat, NEW q \in Nat, NEW f \in Nat
  PROVE  1 + r + 2 * q + f \in Nat
OBVIOUS

-----------------------------------------------------------------------------
(* The sets of Due before and after a step.                                *)

LEMMA Sizes ==
  ASSUME IInv, IsFiniteSet(Orphans), NEW e \in Event
  PROVE  /\ IsFiniteSet(Awaited(e)) /\ Cardinality(Awaited(e)) \in Nat
         /\ Cardinality(Orphans) \in Nat
         /\ IsFiniteSet(OrphansOn(e)) /\ Cardinality(OrphansOn(e)) \in Nat
         /\ Coming(e) \in {0, 1} /\ applied[e] \in Nat
<1>1. IsFiniteSet(1..Len(published))
  BY FS_Interval DEF IInv, TypeOK
<1>2. Awaited(e) \subseteq 1..Len(published)
  BY DEF Awaited, IInv, InOrderSettlement
<1>3. OrphansOn(e) \subseteq Orphans
  BY DEF OrphansOn
<1>4. IsFiniteSet(Awaited(e)) /\ Cardinality(Awaited(e)) \in Nat
  BY <1>1, <1>2, Smaller
<1>5. /\ Cardinality(Orphans) \in Nat
      /\ IsFiniteSet(OrphansOn(e)) /\ Cardinality(OrphansOn(e)) \in Nat
  BY <1>3, Smaller
<1> QED
  BY <1>4, <1>5 DEF Coming, IInv, TypeOK

\* Only the first unsettled message can be in hand.
LEMMA FirstInHand ==
  ASSUME IInv
  PROVE  /\ Settled \in Nat
         /\ \A s \in Slot : Live(s) => Busy(s) /\ handler[s].n = Settled + 1
         /\ \A s, t \in Slot : Live(s) /\ Live(t) => s = t
BY DEF IInv, TypeOK, InOrderSettlement, Live, NoWork

\* No step but a publication adds any message but the first.
LEMMA AwaitedFrame ==
  ASSUME IInv, IInv', [Next]_vars, UNCHANGED published, NEW e \in Event
  PROVE  /\ Awaited(e)' \subseteq Awaited(e) \cup {Settled + 1}
         /\ (\/ Settled' # Settled
             \/ \A s \in Slot : Live(s) => Begun(s) \/ (Live(s)' /\ ~Begun(s)'))
            => Awaited(e)' \subseteq Awaited(e)
<1>1. Settled \in Nat /\ Settled' \in Nat /\ Settled <= Settled'
  BY Frame DEF IInv, InOrderSettlement
<1>2. \A s \in Slot : Live(s) => handler[s].n = Settled + 1
  BY FirstInHand
<1>3. \A s \in Slot : Live(s)' => handler'[s].n = Settled' + 1
  BY DEF IInv, InOrderSettlement
<1>4. Len(published) \in Nat
  <2>1. published \in Seq(Event)
    BY DEF IInv, TypeOK
  <2> QED
    BY <2>1
<1>5. ASSUME NEW n \in Awaited(e)', n # Settled + 1
      PROVE  n \in Awaited(e)
  <2>1. n \in (Settled' + 1)..Len(published) /\ published[n] = e
    BY <1>5, Zenon DEF Awaited
  <2>2. n \in (Settled + 1)..Len(published)
    BY <1>1, <1>4, <2>1, NarrowRange
  <2> QED
    BY <1>2, <1>5, <2>1, <2>2 DEF Awaited
<1>6. ASSUME Settled + 1 \in Awaited(e)'
      PROVE  Settled' = Settled
  BY <1>1, <1>4, <1>6 DEF Awaited
<1>7. ASSUME Settled + 1 \in Awaited(e)',
             \A s \in Slot : Live(s) => Begun(s) \/ (Live(s)' /\ ~Begun(s)')
      PROVE  Settled + 1 \in Awaited(e)
  BY <1>1, <1>2, <1>3, <1>4, <1>6, <1>7 DEF Awaited
<1> QED
  BY <1>5, <1>6, <1>7

\* A step that adds no orphan and no call on an event adds nothing.
LEMMA NothingAdded ==
  ASSUME IInv, IInv', Bounded,
         Orphans' \subseteq Orphans,
         \A e \in Event : /\ Awaited(e)' \subseteq Awaited(e)
                          /\ OrphansOn(e)' \subseteq OrphansOn(e)
                          /\ applied'[e] + Coming(e)' + Budget <= applied[e] + Coming(e) + Budget'
  PROVE  Bounded'
<1>1. IsFiniteSet(Orphans) /\ IsFiniteSet(Orphans')
  BY Smaller DEF Bounded
<1>2. ASSUME NEW e \in Event PROVE Due(e)' <= Budget'
  <2>1. /\ Cardinality(Awaited(e)) \in Nat /\ Cardinality(Awaited(e)') \in Nat
        /\ Cardinality(Awaited(e)') <= Cardinality(Awaited(e))
    BY <1>1, Sizes, Smaller
  <2>2. /\ Cardinality(Orphans) \in Nat /\ Cardinality(Orphans') \in Nat
        /\ Cardinality(Orphans') <= Cardinality(Orphans)
    BY <1>1, Smaller
  <2>3. /\ Cardinality(OrphansOn(e)) \in Nat /\ Cardinality(OrphansOn(e)') \in Nat
        /\ Cardinality(OrphansOn(e)') <= Cardinality(OrphansOn(e))
    BY <1>1, Sizes, Smaller
  <2>4. /\ applied[e] \in Nat /\ applied'[e] \in Nat
        /\ Coming(e) \in {0, 1} /\ Coming(e)' \in {0, 1}
        /\ Budget \in Nat /\ Budget' \in Nat
    <3>1. /\ applied[e] \in Nat /\ applied'[e] \in Nat
      BY DEF IInv, TypeOK
    <3>2. Budget \in Nat /\ Budget' \in Nat
      <4>1. /\ restarts \in Nat /\ reconnects \in Nat /\ faults \in Nat
            /\ restarts' \in Nat /\ reconnects' \in Nat /\ faults' \in Nat
        BY DEF IInv, TypeOK
      <4> QED
        BY <4>1, BudgetType, Zenon DEF Budget
    <3>3. Coming(e) \in {0, 1} /\ Coming(e)' \in {0, 1}
      BY DEF Coming
    <3> QED
      BY <3>1, <3>2, <3>3
  <2>5. Due(e) <= Budget
    BY DEF Bounded
  <2> QED
    BY <2>1, <2>2, <2>3, <2>4, <2>5 DEF Due
<1> QED
  BY <1>1, <1>2 DEF Bounded

-----------------------------------------------------------------------------
(* The indexer.                                                            *)

LEMMA SameOrphans ==
  ASSUME IInv, IInv', [Next]_vars,
         \A s \in Slot : /\ Busy(s)' => Busy(s) \/ Live(s)'
                         /\ Live(s) /\ Busy(s)' => Live(s)'
                         /\ Begun(s)' => Begun(s) \/ ~Busy(s)
                         /\ Busy(s) /\ Busy(s)' => handler'[s].n = handler[s].n
  PROVE  /\ Orphans' \subseteq Orphans
         /\ \A e \in Event : OrphansOn(e)' \subseteq OrphansOn(e)
<1>1. Orphans' \subseteq Orphans
  BY DEF Orphans, Busy, Live
<1>2. \A s \in Slot : Busy(s) => published'[handler[s].n] = Ev(s)
  BY EvFrame DEF IInv
<1>3. \A s \in Orphans' : Busy(s) /\ Ev(s)' = Ev(s) /\ (Begun(s)' => Begun(s))
  <2> SUFFICES ASSUME NEW s \in Orphans'
               PROVE  Busy(s) /\ Ev(s)' = Ev(s) /\ (Begun(s)' => Begun(s))
    OBVIOUS
  <2>1. s \in Slot /\ Busy(s) /\ Busy(s)'
    BY <1>1 DEF Orphans
  <2> QED
    BY <1>2, <2>1 DEF Ev
<1> QED
  BY <1>1, <1>3 DEF OrphansOn

\* What the numbers of Due are, before and after a step.
LEMMA Numbers ==
  ASSUME IInv, IInv', IsFiniteSet(Orphans), IsFiniteSet(Orphans'), NEW e \in Event
  PROVE  /\ applied[e] \in Nat /\ applied'[e] \in Nat
         /\ Coming(e) \in {0, 1} /\ Coming(e)' \in {0, 1}
         /\ Cardinality(Awaited(e)) \in Nat /\ Cardinality(Awaited(e)') \in Nat
         /\ Cardinality(Orphans) \in Nat /\ Cardinality(Orphans') \in Nat
         /\ Cardinality(OrphansOn(e)) \in Nat /\ Cardinality(OrphansOn(e)') \in Nat
         /\ Budget \in Nat /\ Budget' \in Nat
<1>1. /\ applied[e] \in Nat /\ applied'[e] \in Nat
  BY DEF IInv, TypeOK
<1>2. Coming(e) \in {0, 1} /\ Coming(e)' \in {0, 1}
  BY DEF Coming
<1>3. Budget \in Nat /\ Budget' \in Nat
  <2>1. /\ restarts \in Nat /\ reconnects \in Nat /\ faults \in Nat
        /\ restarts' \in Nat /\ reconnects' \in Nat /\ faults' \in Nat
    BY DEF IInv, TypeOK
  <2> QED
    BY <2>1, BudgetType, Zenon DEF Budget
<1>4. /\ Cardinality(Awaited(e)) \in Nat
      /\ Cardinality(Orphans) \in Nat /\ Cardinality(OrphansOn(e)) \in Nat
  BY Sizes
<1>5. Cardinality(Awaited(e)') \in Nat
  <2>1. IsFiniteSet(1..Len(published'))
    BY FS_Interval DEF IInv, TypeOK
  <2>2. Awaited(e)' \subseteq 1..Len(published')
    BY DEF Awaited, IInv, InOrderSettlement
  <2> QED
    BY <2>1, <2>2, Smaller
<1>6. Cardinality(Orphans') \in Nat /\ Cardinality(OrphansOn(e)') \in Nat
  <2>1. OrphansOn(e)' \subseteq Orphans'
    BY DEF OrphansOn
  <2> QED
    BY <2>1, Smaller
<1> QED
  BY <1>1, <1>2, <1>3, <1>4, <1>5, <1>6

LEMMA IndexerCount ==
  ASSUME IInv, IInv', Bounded, [Next]_vars, Publish \/ PublishLost \/ IndexerRestart
  PROVE  Bounded'
<1>1. UNCHANGED <<handler, applied, reconnects, faults>>
  BY DEF Publish, PublishLost, IndexerRestart, storeVars
<1>2. \A s \in Slot : UNCHANGED <<Busy(s), Live(s), Begun(s)>>
  BY <1>1 DEF Busy, Live, Begun
<1>3. Orphans' \subseteq Orphans /\ \A e \in Event : OrphansOn(e)' \subseteq OrphansOn(e)
  BY <1>1, <1>2, SameOrphans
<1>4. /\ cursor \in Nat /\ cursor' \in Nat /\ Event \subseteq Nat
      /\ restarts \in Nat /\ restarts' \in Nat /\ reconnects \in Nat /\ faults \in Nat
  <2>1. cursor \in 1..(N + 1) /\ cursor' \in 1..(N + 1)
    BY DEF IInv, TypeOK
  <2> QED
    BY <2>1, IngestAssumption DEF IInv, TypeOK, Event
<1>5. CASE UNCHANGED published /\ (PublishLost \/ IndexerRestart)
  <2>1. \A e \in Event : Awaited(e)' \subseteq Awaited(e)
    <3>1. UNCHANGED <<Settled, published>>
      BY <1>2, <1>5 DEF Settled, Held, PublishLost, IndexerRestart
    <3> QED
      BY <1>1, <1>2, <3>1 DEF Awaited
  <2>2. \A e \in Event :
          applied'[e] + Coming(e)' + Budget <= applied[e] + Coming(e) + Budget'
    <3> TAKE e \in Event
    <3>1. applied'[e] = applied[e] /\ applied[e] \in Nat /\ e \in Nat
      BY <1>1, <1>4 DEF IInv, TypeOK
    <3>2. CASE PublishLost
      <4>1. cursor' = cursor + 1 /\ restarts' = restarts
        BY <3>2 DEF PublishLost, NextHandler
      <4> QED
        BY <1>1, <1>4, <3>1, <4>1 DEF Coming, Budget
    <3>3. CASE IndexerRestart
      <4>1. restarts' = restarts + 1
        BY <3>3 DEF IndexerRestart
      <4> QED
        BY <1>1, <1>4, <3>1, <4>1 DEF Coming, Budget
    <3> QED
      BY <1>5, <3>2, <3>3
  <2> QED
    BY <1>3, <2>1, <2>2, NothingAdded
<1>6. CASE Publish
  <2>1. /\ published' = Append(published, cursor) /\ published \in Seq(Event)
        /\ cursor \in Event /\ cursor' = cursor + 1 /\ UNCHANGED restarts
        /\ queue' = Append(queue, [n |-> Len(published) + 1, redelivered |-> FALSE])
        /\ queue \in Seq(Message)
    BY <1>6 DEF Publish, NextHandler, IInv, TypeOK
  <2>2. /\ Len(published) \in Nat /\ Len(published') = Len(published) + 1
        /\ \A n \in 1..Len(published) : published'[n] = published[n]
        /\ published'[Len(published) + 1] = cursor
        /\ Len(queue) \in Nat /\ Len(queue') = Len(queue) + 1
    BY <2>1
  <2>3. Settled' = Settled /\ Settled \in Nat
    <3>1. Held' = Held /\ Held \in {0, 1}
      BY <1>2 DEF Held
    <3>2. Settled \in Nat
      BY DEF IInv, InOrderSettlement
    <3> QED
      BY <2>2, <3>1, <3>2 DEF Settled
  <2>4. IsFiniteSet(Orphans) /\ IsFiniteSet(Orphans')
    BY <1>3, Smaller DEF Bounded
  <2>5. ASSUME NEW e \in Event PROVE Due(e)' <= Budget'
    <3>1. Cardinality(Orphans') <= Cardinality(Orphans)
      BY <1>3, <2>4, Smaller
    <3>2. Cardinality(OrphansOn(e)') <= Cardinality(OrphansOn(e))
      BY <1>3, <2>4, Sizes, Smaller
    <3>3. ASSUME NEW n \in Awaited(e)', n # Len(published) + 1
          PROVE  n \in Awaited(e)
      <4>1. n \in (Settled + 1)..(Len(published) + 1) /\ published'[n] = e
        BY <2>2, <2>3, <3>3, Zenon DEF Awaited
      <4>2. n \in (Settled + 1)..Len(published) /\ n \in 1..Len(published)
        BY <2>2, <2>3, <3>3, <4>1
      <4>3. published[n] = e
        BY <2>2, <4>1, <4>2
      <4>4. \A s \in Slot : Live(s) => Begun(s) \/ handler[s].n # n
        BY <1>1, <1>2, <3>3 DEF Awaited
      <4> QED
        BY <4>2, <4>3, <4>4 DEF Awaited
    <3>4. Cardinality(Awaited(e)') + Coming(e)' <= Cardinality(Awaited(e)) + Coming(e)
      <4>0. e \in Nat /\ IsFiniteSet(Awaited(e))
        BY <1>4, <2>4, Sizes
      <4>1. CASE e = cursor
        <5>1. Coming(e) = 1 /\ Coming(e)' = 0
          BY <1>4, <2>1, <4>1 DEF Coming
        <5>2. /\ Cardinality(Awaited(e)') <= Cardinality(Awaited(e)) + 1
              /\ Cardinality(Awaited(e)') \in Nat /\ Cardinality(Awaited(e)) \in Nat
          BY <3>3, <4>0, LargerByOne
        <5> QED
          BY <5>1, <5>2
      <4>2. CASE e # cursor
        <5>1. Coming(e)' <= Coming(e) /\ Coming(e) \in {0, 1} /\ Coming(e)' \in {0, 1}
          BY <1>4, <2>1, <4>0, <4>2 DEF Coming
        <5>2. Len(published) + 1 \notin Awaited(e)'
          BY <2>2, <4>2 DEF Awaited
        <5>3. /\ Cardinality(Awaited(e)') <= Cardinality(Awaited(e))
              /\ Cardinality(Awaited(e)') \in Nat /\ Cardinality(Awaited(e)) \in Nat
          BY <3>3, <4>0, <5>2, Smaller
        <5> QED
          BY <5>1, <5>3
      <4> QED
        BY <4>1, <4>2
    <3>5. Budget' = Budget /\ applied'[e] = applied[e] /\ Due(e) <= Budget
      BY <1>1, <2>1 DEF Budget, Bounded
    <3> QED
      BY <2>4, <3>1, <3>2, <3>4, <3>5, Numbers DEF Due
  <2> QED
    BY <2>4, <2>5 DEF Bounded
<1> QED
  BY <1>5, <1>6 DEF PublishLost, IndexerRestart

-----------------------------------------------------------------------------
(* The broker.                                                             *)

\* The process ends: the orphans with it, and at most one message is requeued.
LEMMA ExitCount ==
  ASSUME IInv, IInv', Bounded, [Next]_vars, Exit, UNCHANGED <<published, cursor>>,
         \A e \in Event : applied'[e] + Budget + 1
           <= applied[e] + Cardinality(Orphans) + Cardinality(OrphansOn(e)) + Budget'
  PROVE  Bounded'
<1>1. Orphans' = {}
  BY ExitTypes DEF IInv, Orphans
<1>2. \A e \in Event : OrphansOn(e)' = {}
  BY <1>1 DEF OrphansOn
<1>3. IsFiniteSet(Orphans) /\ IsFiniteSet(Orphans')
  BY <1>1, FS_EmptySet DEF Bounded
<1>4. ASSUME NEW e \in Event PROVE Due(e)' <= Budget'
  <2>1. Cardinality(Orphans') = 0 /\ Cardinality(OrphansOn(e)') = 0
    BY <1>1, <1>2, FS_EmptySet
  <2>2. Cardinality(Awaited(e)') <= Cardinality(Awaited(e)) + 1
    BY <1>3, AwaitedFrame, Sizes, LargerByOne
  <2>3. Coming(e)' = Coming(e)
    BY DEF Coming
  <2>4. applied'[e] + Budget + 1
          <= applied[e] + Cardinality(Orphans) + Cardinality(OrphansOn(e)) + Budget'
    OBVIOUS
  <2>5. Due(e) <= Budget
    BY DEF Bounded
  <2> QED
    BY <1>3, <2>1, <2>2, <2>3, <2>4, <2>5, Numbers DEF Due
<1> QED
  BY <1>3, <1>4 DEF Bounded

\* So it is when an orphan ends it, which is one of them.
LEMMA OrphanExits ==
  ASSUME IInv, IInv', Bounded, [Next]_vars, NEW s \in Slot, Busy(s), ~Live(s), Exit,
         UNCHANGED <<published, cursor, restarts, reconnects>>, faults' >= faults,
         \A e \in Event : applied'[e] <= applied[e] + (IF e = Ev(s) THEN 1 ELSE 0),
         Begun(s) \/ UNCHANGED applied
  PROVE  Bounded'
<1>1. s \in Orphans /\ IsFiniteSet(Orphans)
  BY DEF Orphans, Bounded
<1>2. Cardinality(Orphans) \in Nat /\ Cardinality(Orphans) >= 1
  BY <1>1, NotEmpty
<1>3. ASSUME NEW e \in Event
      PROVE  applied'[e] + Budget + 1
               <= applied[e] + Cardinality(Orphans) + Cardinality(OrphansOn(e)) + Budget'
  <2>1. /\ applied[e] \in Nat /\ applied'[e] \in Nat
        /\ restarts \in Nat /\ reconnects \in Nat /\ faults \in Nat /\ faults' \in Nat
    BY DEF IInv, TypeOK
  <2>2. Budget \in Nat /\ Budget' \in Nat /\ Budget <= Budget'
    <3>1. Budget = 1 + restarts + 2 * reconnects + faults
      BY DEF Budget
    <3>2. Budget' = 1 + restarts + 2 * reconnects + faults'
      BY DEF Budget
    <3>3. faults <= faults'
      BY <2>1
    <3> QED
      BY <2>1, <3>1, <3>2, <3>3, BudgetType, BudgetGrows, Zenon
  <2>3. IsFiniteSet(OrphansOn(e)) /\ Cardinality(OrphansOn(e)) \in Nat
    BY <1>1, Sizes
  <2>4. CASE e = Ev(s) /\ Begun(s)
    <3>1. s \in OrphansOn(e)
      BY <1>1, <2>4 DEF OrphansOn
    <3>2. Cardinality(OrphansOn(e)) >= 1
      BY <2>3, <3>1, NotEmpty
    <3>3. applied'[e] <= applied[e] + 1
      BY <2>4
    <3> QED
      BY <1>2, <2>1, <2>2, <2>3, <3>2, <3>3
  <2>5. CASE ~(e = Ev(s) /\ Begun(s))
    <3>1. applied'[e] <= applied[e]
      BY <2>1, <2>5
    <3> QED
      BY <1>2, <2>1, <2>2, <2>3, <3>1
  <2> QED
    BY <2>4, <2>5
<1> QED
  BY <1>3, ExitCount

\* A call that was connected ends; what it held has settled, or is requeued
\* before it was aggregated.
LEMMA LiveEnds ==
  ASSUME IInv, IInv', Bounded, [Next]_vars, NEW s \in Slot, Live(s), Finish(s),
         UNCHANGED <<published, cursor>>,
         \/ Begun(s)
         \/ handler[s].n \in acked' \cup dropped',
         \A e \in Event : applied'[e] + Budget <= applied[e] + Budget'
  PROVE  Bounded'
<1>1. \A t \in Slot : handler'[t] = IF t = s THEN NoWork ELSE handler[t]
  BY DEF Finish, IInv, TypeOK
<1>2. /\ Orphans' \subseteq Orphans
      /\ \A e \in Event : OrphansOn(e)' \subseteq OrphansOn(e)
  <2>1. \A t \in Slot : /\ Busy(t)' => Busy(t) \/ Live(t)'
                        /\ Live(t) /\ Busy(t)' => Live(t)'
                        /\ Begun(t)' => Begun(t) \/ ~Busy(t)
                        /\ Busy(t) /\ Busy(t)' => handler'[t].n = handler[t].n
    BY <1>1 DEF Busy, Live, Begun, NoWork
  <2> QED
    BY <2>1, SameOrphans
<1>3. \A e \in Event : Awaited(e)' \subseteq Awaited(e)
  <2>1. CASE Begun(s)
    <3>1. \A t \in Slot : Live(t) => Begun(t)
      BY <2>1, FirstInHand
    <3> QED
      BY <3>1, AwaitedFrame
  <2>2. CASE handler[s].n \in acked' \cup dropped'
    <3>1. Settled + 1 \in 1..Settled'
      BY <2>2, FirstInHand DEF IInv, InOrderSettlement
    <3>2. Settled' # Settled
      BY <3>1, FirstInHand
    <3> QED
      BY <3>2, AwaitedFrame
  <2> QED
    BY <2>1, <2>2
<1>4. \A e \in Event :
        applied'[e] + Coming(e)' + Budget <= applied[e] + Coming(e) + Budget'
  <2> TAKE e \in Event
  <2>1. Coming(e)' = Coming(e) /\ Coming(e) \in Nat
    BY DEF Coming
  <2>2. applied'[e] + Budget <= applied[e] + Budget'
    OBVIOUS
  <2>3. /\ IsFiniteSet(Orphans) /\ IsFiniteSet(Orphans')
    BY <1>2, Smaller DEF Bounded
  <2> QED
    BY <2>1, <2>2, <2>3, Numbers
<1> QED
  BY <1>2, <1>3, <1>4, NothingAdded

\* A call goes on to its next stage.
LEMMA GoesOn ==
  ASSUME IInv, IInv', Bounded, [Next]_vars, NEW s \in Slot, NEW pc \in Pc, Busy(s),
         pc # "idle", Goto(s, pc), pc \in {"persist", "aggregate"} => Begun(s),
         UNCHANGED <<published, cursor>>,
         \A e \in Event : applied'[e] + Budget <= applied[e] + Budget'
  PROVE  Bounded'
<1>1. \A t \in Slot : /\ Live(t)' = Live(t) /\ Busy(t)' = Busy(t)
                      /\ Begun(t)' => Begun(t)
                      /\ handler'[t].n = handler[t].n
  BY DEF Goto, IInv, TypeOK, Work, Busy, Live, Begun
<1>2. /\ Orphans' \subseteq Orphans
      /\ \A e \in Event : OrphansOn(e)' \subseteq OrphansOn(e)
  BY <1>1, SameOrphans
<1>3. \A e \in Event : Awaited(e)' \subseteq Awaited(e)
  <2>1. \A t \in Slot : Live(t) => Begun(t) \/ (Live(t)' /\ ~Begun(t)')
    BY <1>1
  <2> QED
    BY <2>1, AwaitedFrame
<1>4. \A e \in Event :
        applied'[e] + Coming(e)' + Budget <= applied[e] + Coming(e) + Budget'
  <2> TAKE e \in Event
  <2>1. Coming(e)' = Coming(e) /\ Coming(e) \in Nat
    BY DEF Coming
  <2>2. applied'[e] + Budget <= applied[e] + Budget'
    OBVIOUS
  <2>3. /\ IsFiniteSet(Orphans) /\ IsFiniteSet(Orphans')
    BY <1>2, Smaller DEF Bounded
  <2> QED
    BY <2>1, <2>2, <2>3, Numbers
<1> QED
  BY <1>2, <1>3, <1>4, NothingAdded

\* Aggregation: what was due is applied.
LEMMA AggregateCount ==
  ASSUME IInv, IInv', Bounded, [Next]_vars, NEW s \in Slot, Aggregate(s)
  PROVE  Bounded'
<1>1. /\ Begun(s) /\ Busy(s) /\ Goto(s, "fanout") /\ Effect(Ev(s))
      /\ UNCHANGED <<published, cursor, restarts, reconnects, faults>>
  BY DEF Aggregate, Begun, Busy, ixVars
<1>2. \A t \in Slot : /\ Live(t)' = Live(t) /\ Busy(t)' = Busy(t)
                      /\ Begun(t)' => Begun(t) /\ t # s
                      /\ handler'[t].n = handler[t].n
  BY <1>1 DEF Goto, IInv, TypeOK, Work, Busy, Live, Begun
<1>3. /\ Orphans' \subseteq Orphans
      /\ \A e \in Event : OrphansOn(e)' \subseteq OrphansOn(e)
  BY <1>2, SameOrphans
<1>4. \A e \in Event : Awaited(e)' \subseteq Awaited(e)
  <2>1. \A t \in Slot : Live(t) => Begun(t) \/ (Live(t)' /\ ~Begun(t)')
    <3> TAKE t \in Slot
    <3>1. Live(t)' = Live(t) /\ (Begun(t)' => Begun(t))
      BY <1>2
    <3> QED
      BY <3>1
  <2> QED
    BY <1>1, <2>1, AwaitedFrame
<1>5. IsFiniteSet(Orphans) /\ IsFiniteSet(Orphans')
  BY <1>3, Smaller DEF Bounded
<1>6. ASSUME NEW e \in Event PROVE Due(e)' <= Budget'
  <2>1. Budget' = Budget /\ Coming(e)' = Coming(e) /\ Due(e) <= Budget
    BY <1>1 DEF Budget, Coming, Bounded
  <2>2. /\ Cardinality(Orphans') <= Cardinality(Orphans)
        /\ Cardinality(OrphansOn(e)') <= Cardinality(OrphansOn(e))
        /\ Cardinality(Awaited(e)') <= Cardinality(Awaited(e))
    BY <1>3, <1>4, <1>5, Sizes, Smaller
  <2>3. CASE e # Ev(s)
    <3>1. applied'[e] = applied[e]
      BY <1>1, <2>3 DEF Effect, IInv, TypeOK
    <3> QED
      BY <1>5, <2>1, <2>2, <3>1, Numbers DEF Due
  <2>4. CASE e = Ev(s)
    <3>1. applied'[e] <= applied[e] + 1
      BY <1>1, <2>4 DEF Effect, IInv, TypeOK
    <3>2. CASE Live(s)
      <4>1. /\ handler[s].n = Settled + 1 /\ Settled \in Nat
            /\ handler[s].n \in 1..Len(published) /\ Len(published) \in Nat
        <5>1. published \in Seq(Event) /\ handler[s].n \in 1..Len(published)
          BY <1>1 DEF IInv, TypeOK
        <5> QED
          BY <3>2, <5>1, FirstInHand
      <4>2. Settled + 1 \in Awaited(e)
        <5>1. \A t \in Slot : Live(t) => Begun(t)
          BY <1>1, <3>2, FirstInHand
        <5> QED
          BY <2>4, <4>1, <5>1 DEF Awaited, Ev
      <4>3. Settled + 1 \notin Awaited(e)'
        BY <1>2, <3>2, <4>1 DEF Awaited
      <4>4. Cardinality(Awaited(e)') + 1 <= Cardinality(Awaited(e))
        BY <1>4, <1>5, <4>2, <4>3, Sizes, SmallerByOne
      <4> QED
        BY <1>5, <2>1, <2>2, <3>1, <4>4, Numbers DEF Due
    <3>3. CASE ~Live(s)
      <4>1. s \in OrphansOn(e) /\ s \notin OrphansOn(e)'
        BY <1>1, <1>2, <2>4, <3>3 DEF OrphansOn, Orphans
      <4>2. Cardinality(OrphansOn(e)') + 1 <= Cardinality(OrphansOn(e))
        BY <1>3, <1>5, <4>1, Sizes, SmallerByOne
      <4> QED
        BY <1>5, <2>1, <2>2, <3>1, <4>2, Numbers DEF Due
    <3> QED
      BY <3>2, <3>3
  <2> QED
    BY <2>3, <2>4
<1> QED
  BY <1>5, <1>6 DEF Bounded

LEMMA DeliverCount ==
  ASSUME IInv, IInv', Bounded, [Next]_vars, NEW s \in Slot, Deliver(s)
  PROVE  Bounded'
<1>1. /\ UNCHANGED <<published, cursor, applied, restarts, reconnects, faults>>
      /\ ~Busy(s) /\ Live(s)' /\ Begun(s)'
      /\ \A t \in Slot \ {s} : handler'[t] = handler[t]
      /\ \A t \in Slot : ~Live(t)
  BY DEF Deliver, ixVars, storeVars, IInv, TypeOK, Live, Begun
<1>2. /\ Orphans' \subseteq Orphans
      /\ \A e \in Event : OrphansOn(e)' \subseteq OrphansOn(e)
  <2>1. \A t \in Slot : /\ Busy(t)' => Busy(t) \/ Live(t)'
                        /\ Live(t) /\ Busy(t)' => Live(t)'
                        /\ Begun(t)' => Begun(t) \/ ~Busy(t)
                        /\ Busy(t) /\ Busy(t)' => handler'[t].n = handler[t].n
    BY <1>1 DEF Busy, Live, Begun
  <2> QED
    BY <2>1, SameOrphans
<1>3. \A e \in Event : Awaited(e)' \subseteq Awaited(e)
  BY <1>1, AwaitedFrame
<1>4. \A e \in Event :
        applied'[e] + Coming(e)' + Budget <= applied[e] + Coming(e) + Budget'
  <2> TAKE e \in Event
  <2>1. Coming(e)' = Coming(e) /\ Budget' = Budget /\ applied'[e] = applied[e]
    BY <1>1 DEF Coming, Budget
  <2>2. applied[e] \in Nat /\ Coming(e) \in Nat /\ Budget \in Nat
    <3>1. IsFiniteSet(Orphans) /\ IsFiniteSet(Orphans')
      BY <1>2, Smaller DEF Bounded
    <3> QED
      BY <3>1, Numbers
  <2> QED
    BY <2>1, <2>2
<1> QED
  BY <1>2, <1>3, <1>4, NothingAdded

\* A lost connection makes an orphan and a second delivery of what it holds.
LEMMA ReconnectCount ==
  ASSUME IInv, IInv', Bounded, [Next]_vars, Reconnect
  PROVE  Bounded'
<1>1. PICK s \in Slot : /\ Live(s) /\ handler' = [handler EXCEPT ![s].live = FALSE]
                        /\ reconnects' = reconnects + 1
                        /\ UNCHANGED <<published, cursor, applied, restarts, faults>>
  BY DEF Reconnect, ixVars, storeVars
<1>2. \A t \in Slot : /\ Busy(t)' = Busy(t) /\ Begun(t)' = Begun(t)
                      /\ t # s => Live(t)' = Live(t)
                      /\ handler'[t].n = handler[t].n
  <2> TAKE t \in Slot
  <2>1. handler \in [Slot -> Work]
    BY DEF IInv, TypeOK
  <2>2. CASE t = s
    <3>1. handler'[t].pc = handler[t].pc /\ handler'[t].n = handler[t].n
      BY <1>1, <2>1, <2>2 DEF Work
    <3> QED
      BY <2>2, <3>1 DEF Busy, Begun
  <2>3. CASE t # s
    <3>1. handler'[t] = handler[t]
      BY <1>1, <2>1, <2>3
    <3> QED
      BY <3>1 DEF Busy, Begun, Live
  <2> QED
    BY <2>2, <2>3
<1>3. Orphans' \subseteq Orphans \cup {s}
  BY <1>2 DEF Orphans
<1>4. IsFiniteSet(Orphans) /\ IsFiniteSet(Orphans')
  BY <1>3, LargerByOne DEF Bounded
<1>5. ASSUME NEW e \in Event PROVE Due(e)' <= Budget'
  <2>1. Coming(e)' = Coming(e) /\ applied'[e] = applied[e] /\ Due(e) <= Budget
    BY <1>1 DEF Coming, Bounded
  <2>2. Budget' = Budget + 2
    <3>1. restarts \in Nat /\ reconnects \in Nat /\ faults \in Nat
      BY DEF IInv, TypeOK
    <3>2. Budget' = 1 + restarts + 2 * (reconnects + 1) + faults
      BY <1>1 DEF Budget
    <3> QED
      BY <3>1, <3>2 DEF Budget
  <2>3. Cardinality(Orphans') <= Cardinality(Orphans) + 1
    BY <1>3, <1>4, LargerByOne
  <2>4. \A t \in Slot : Busy(t) => Ev(t)' = Ev(t)
    BY <1>2, EvFrame DEF IInv, Ev
  <2>5. OrphansOn(e)' \subseteq OrphansOn(e) \cup {s}
    <3>1. \A t \in Orphans' : t \in Slot /\ Busy(t)
      BY <1>2 DEF Orphans
    <3> QED
      BY <1>2, <1>3, <2>4, <3>1 DEF OrphansOn
  <2>6. CASE Begun(s)
    <3>1. Awaited(e)' \subseteq Awaited(e)
      <4>1. \A t \in Slot : Live(t) => Begun(t)
        BY <1>1, <2>6, FirstInHand
      <4> QED
        BY <1>1, <4>1, AwaitedFrame
    <3>2. /\ Cardinality(Awaited(e)') <= Cardinality(Awaited(e))
          /\ Cardinality(OrphansOn(e)') <= Cardinality(OrphansOn(e)) + 1
      BY <1>4, <2>5, <3>1, Sizes, Smaller, LargerByOne
    <3> QED
      BY <1>4, <2>1, <2>2, <2>3, <3>2, Numbers DEF Due
  <2>7. CASE ~Begun(s)
    <3>1. OrphansOn(e)' \subseteq OrphansOn(e)
      BY <1>2, <2>5, <2>7 DEF OrphansOn
    <3>2. Awaited(e)' \subseteq Awaited(e) \cup {Settled + 1}
      BY <1>1, AwaitedFrame
    <3>3. /\ Cardinality(Awaited(e)') <= Cardinality(Awaited(e)) + 1
          /\ Cardinality(OrphansOn(e)') <= Cardinality(OrphansOn(e))
      BY <1>4, <3>1, <3>2, Sizes, Smaller, LargerByOne
    <3> QED
      BY <1>4, <2>1, <2>2, <2>3, <3>3, Numbers DEF Due
  <2> QED
    BY <2>6, <2>7
<1> QED
  BY <1>4, <1>5 DEF Bounded

\* A failing step is one disturbance.
LEMMA FaultBudget ==
  ASSUME IInv, Fault, UNCHANGED <<restarts, reconnects>>
  PROVE  Budget' = Budget + 1 /\ Budget \in Nat
BY DEF Fault, Budget, IInv, TypeOK

LEMMA CrashCount ==
  ASSUME IInv, IInv', Bounded, [Next]_vars, Crash
  PROVE  Bounded'
<1>1. Exit /\ Fault /\ UNCHANGED <<published, cursor, applied, restarts, reconnects>>
  BY DEF Crash, ixVars, storeVars
<1>2. \A e \in Event : applied'[e] + Budget + 1
        <= applied[e] + Cardinality(Orphans) + Cardinality(OrphansOn(e)) + Budget'
  <2> TAKE e \in Event
  <2>1. Cardinality(Orphans) \in Nat /\ Cardinality(OrphansOn(e)) \in Nat
    BY Sizes DEF Bounded
  <2>2. applied'[e] = applied[e] /\ applied[e] \in Nat
    BY <1>1 DEF IInv, TypeOK
  <2> QED
    BY <1>1, <2>1, <2>2, FaultBudget
<1> QED
  BY <1>1, <1>2, ExitCount

\* A call that was connected and lets its message go after its aggregation:
\* requeueing it is a disturbance.
LEMMA RequeueCount ==
  ASSUME IInv, IInv', Bounded, [Next]_vars, NEW s \in Slot, Live(s), Finish(s), Fault,
         UNCHANGED <<published, cursor, applied, restarts, reconnects>>
  PROVE  Bounded'
<1>1. \A t \in Slot : handler'[t] = IF t = s THEN NoWork ELSE handler[t]
  BY DEF Finish, IInv, TypeOK
<1>2. /\ Orphans' \subseteq Orphans
      /\ \A e \in Event : OrphansOn(e)' \subseteq OrphansOn(e)
  <2>1. \A t \in Slot : /\ Busy(t)' => Busy(t) \/ Live(t)'
                        /\ Live(t) /\ Busy(t)' => Live(t)'
                        /\ Begun(t)' => Begun(t) \/ ~Busy(t)
                        /\ Busy(t) /\ Busy(t)' => handler'[t].n = handler[t].n
    BY <1>1 DEF Busy, Live, Begun, NoWork
  <2> QED
    BY <2>1, SameOrphans
<1>3. IsFiniteSet(Orphans) /\ IsFiniteSet(Orphans')
  BY <1>2, Smaller DEF Bounded
<1>4. ASSUME NEW e \in Event PROVE Due(e)' <= Budget'
  <2>1. Coming(e)' = Coming(e) /\ applied'[e] = applied[e] /\ Due(e) <= Budget
    BY DEF Coming, Bounded
  <2>2. Awaited(e)' \subseteq Awaited(e) \cup {Settled + 1}
    BY AwaitedFrame
  <2>3. /\ Cardinality(Orphans') <= Cardinality(Orphans)
        /\ Cardinality(OrphansOn(e)') <= Cardinality(OrphansOn(e))
        /\ Cardinality(Awaited(e)') <= Cardinality(Awaited(e)) + 1
    BY <1>2, <1>3, <2>2, Sizes, Smaller, LargerByOne
  <2> QED
    BY <1>3, <2>1, <2>3, FaultBudget, Numbers DEF Due
<1> QED
  BY <1>3, <1>4 DEF Bounded

LEMMA EffectCount ==
  ASSUME IInv, NEW s \in Slot, Effect(Ev(s))
  PROVE  \A e \in Event : /\ applied[e] \in Nat /\ applied'[e] \in Nat
                          /\ applied'[e] <= applied[e] + (IF e = Ev(s) THEN 1 ELSE 0)
BY DEF Effect, IInv, TypeOK

LEMMA HandlerCount ==
  ASSUME IInv, IInv', Bounded, [Next]_vars, NEW s \in Slot, HandlerStep(s)
  PROVE  Bounded'
<1>1. Busy(s) /\ UNCHANGED <<published, cursor, restarts, reconnects>>
  BY DEF HandlerStep, Persist, PersistFails, Aggregate, AggregateRetry,
     AggregateFails, Fanout, Forward, ForwardFails, Busy, ixVars
<1>2. \A e \in Event : applied[e] \in Nat /\ applied'[e] \in Nat
  BY DEF IInv, TypeOK
<1>3. restarts \in Nat /\ reconnects \in Nat /\ faults \in Nat /\ Budget \in Nat
  <2>1. restarts \in Nat /\ reconnects \in Nat /\ faults \in Nat
    BY DEF IInv, TypeOK
  <2> QED
    BY <2>1, BudgetType, Zenon DEF Budget
<1>4. ASSUME UNCHANGED applied, Fault \/ UNCHANGED faults
      PROVE  /\ \A e \in Event : applied'[e] + Budget <= applied[e] + Budget'
             /\ \A e \in Event : applied'[e] <= applied[e] + (IF e = Ev(s) THEN 1 ELSE 0)
             /\ faults' >= faults
  <2>1. Budget' \in {Budget, Budget + 1} /\ faults' >= faults
    BY <1>1, <1>3, <1>4, FaultBudget DEF Budget, Fault
  <2> QED
    BY <1>2, <1>3, <1>4, <2>1
<1>5. CASE Persist(s)
  <2>1. /\ Goto(s, "aggregate") /\ Begun(s) /\ UNCHANGED <<applied, faults>>
    BY <1>5 DEF Persist, Begun
  <2> QED
    BY <1>1, <1>4, <2>1, GoesOn DEF Pc
<1>6. CASE PersistFails(s)
  <2>1. Begun(s) /\ NackDrop(s) /\ Fault /\ UNCHANGED applied
    BY <1>6 DEF PersistFails, Begun
  <2>2. CASE Live(s) /\ Finish(s)
    BY <1>1, <1>4, <2>1, <2>2, LiveEnds
  <2>3. CASE ~Live(s) /\ Exit
    BY <1>1, <1>4, <2>1, <2>3, OrphanExits
  <2> QED
    BY <2>1, <2>2, <2>3 DEF NackDrop
<1>7. CASE Aggregate(s)
  BY <1>7, AggregateCount
<1>8. CASE AggregateRetry(s)
  <2>1. Begun(s) /\ (NackDrop(s) \/ NackRequeue(s)) /\ UNCHANGED <<applied, faults>>
    BY <1>8 DEF AggregateRetry, Begun, storeVars
  <2>2. CASE Live(s) /\ Finish(s)
    BY <1>1, <1>4, <2>1, <2>2, LiveEnds
  <2>3. CASE ~Live(s) /\ Exit
    BY <1>1, <1>4, <2>1, <2>3, OrphanExits
  <2> QED
    BY <2>1, <2>2, <2>3 DEF NackDrop, NackRequeue
<1>9. CASE AggregateFails(s)
  <2>1. Begun(s) /\ Fault /\ (Effect(Ev(s)) \/ UNCHANGED applied)
    BY <1>9 DEF AggregateFails, Begun
  <2>2. \A e \in Event : applied'[e] <= applied[e] + (IF e = Ev(s) THEN 1 ELSE 0)
    BY <1>2, <2>1, EffectCount
  <2>3. faults' >= faults /\ Budget' = Budget + 1
    BY <1>1, <1>3, <2>1, FaultBudget DEF Fault
  <2>4. \A e \in Event : applied'[e] + Budget <= applied[e] + Budget'
    <3> TAKE e \in Event
    <3>1. applied'[e] <= applied[e] + 1
      BY <1>2, <2>2
    <3> QED
      BY <1>2, <1>3, <2>3, <3>1
  <2>5. CASE NackDrop(s)
    <3>1. CASE Live(s) /\ Finish(s)
      BY <1>1, <2>1, <2>4, <3>1, LiveEnds
    <3>2. CASE ~Live(s) /\ Exit
      BY <1>1, <2>1, <2>2, <2>3, <3>2, OrphanExits
    <3> QED
      BY <2>5, <3>1, <3>2 DEF NackDrop
  <2>6. CASE Goto(s, "fanout")
    BY <1>1, <2>1, <2>4, <2>6, GoesOn DEF Pc
  <2> QED
    BY <1>9, <2>5, <2>6 DEF AggregateFails
<1>10. CASE Fanout(s)
  <2>1. Goto(s, "forward") /\ UNCHANGED <<applied, faults>>
    BY <1>10 DEF Fanout
  <2> QED
    BY <1>1, <1>4, <2>1, GoesOn DEF Pc
<1>11. CASE Forward(s)
  <2>1. Ack(s) /\ UNCHANGED <<applied, faults>>
    BY <1>11 DEF Forward, storeVars
  <2>2. CASE Live(s) /\ Finish(s) /\ acked' = acked \cup {handler[s].n}
    BY <1>1, <1>4, <2>1, <2>2, LiveEnds
  <2>3. CASE ~Live(s) /\ Exit
    BY <1>1, <1>4, <2>1, <2>3, OrphanExits
  <2> QED
    BY <2>1, <2>2, <2>3 DEF Ack
<1>12. CASE ForwardFails(s)
  <2>1. Fault /\ (NackRequeue(s) \/ NackDrop(s)) /\ UNCHANGED applied
    BY <1>12 DEF ForwardFails, storeVars
  <2>2. CASE Live(s) /\ Finish(s)
    BY <1>1, <2>1, <2>2, RequeueCount
  <2>3. CASE ~Live(s) /\ Exit
    BY <1>1, <1>4, <2>1, <2>3, OrphanExits
  <2> QED
    BY <2>1, <2>2, <2>3 DEF NackDrop, NackRequeue
<1> QED
  BY <1>5, <1>6, <1>7, <1>8, <1>9, <1>10, <1>11, <1>12 DEF HandlerStep

LEMMA CountStep ==
  ASSUME IInv, IInv', Bounded, [Next]_vars
  PROVE  Bounded'
<1>1. CASE UNCHANGED vars
  <2>1. \A e \in Event : UNCHANGED <<Due(e), Orphans, Budget>>
    BY <1>1 DEF vars, Due, Coming, Awaited, Orphans, OrphansOn, Settled, Held, Budget,
                Busy, Live, Begun, Ev
  <2>2. UNCHANGED Orphans
    BY <1>1 DEF vars, Orphans, Busy, Live
  <2> QED
    BY <2>1, <2>2 DEF Bounded
<1>2. CASE Publish \/ PublishLost \/ IndexerRestart
  BY <1>2, IndexerCount
<1>3. CASE \E s \in Slot : Deliver(s)
  BY <1>3, DeliverCount
<1>4. CASE \E s \in Slot : HandlerStep(s)
  BY <1>4, HandlerCount
<1>5. CASE Reconnect
  BY <1>5, ReconnectCount
<1>6. CASE Crash
  BY <1>6, CrashCount
<1> QED
  BY <1>1, <1>2, <1>3, <1>4, <1>5, <1>6 DEF Next

LEMMA CountInit ==
  ASSUME Init, IInv
  PROVE  Bounded
<1>1. Orphans = {}
  BY DEF Init, Orphans, Busy, NoWork
<1>2. IsFiniteSet(Orphans)
  BY <1>1, FS_EmptySet
<1>3. ASSUME NEW e \in Event PROVE Due(e) <= Budget
  <2>1. Awaited(e) = {} /\ OrphansOn(e) = {}
    <3>1. Len(published) = 0 /\ Settled \in Nat
      BY DEF Init, IInv, InOrderSettlement
    <3> QED
      BY <1>1, <3>1 DEF Awaited, OrphansOn
  <2>2. /\ Cardinality(Orphans) = 0 /\ Cardinality(Awaited(e)) = 0
        /\ Cardinality(OrphansOn(e)) = 0
    BY <1>1, <2>1, FS_EmptySet
  <2>3. applied[e] = 0 /\ Coming(e) \in {0, 1} /\ Budget = 1
    BY DEF Init, Coming, Budget
  <2> QED
    BY <2>2, <2>3 DEF Due
<1> QED
  BY <1>2, <1>3 DEF Bounded

(***************************************************************************)
(* Aggregation has no duplicate check; still an event counts at most once  *)
(* more than the indexer restarted, a step failed or the broker crashed,   *)
(* and twice more for each lost connection.                                *)
(***************************************************************************)
THEOREM CountBounded == Spec => []DoubleCountBound
<1>1. Init /\ IInv => Bounded
  BY CountInit
<1>2. IInv /\ IInv' /\ Bounded /\ [Next]_vars => Bounded'
  BY CountStep
<1>3. IInv /\ Bounded => DoubleCountBound
  <2> SUFFICES ASSUME IInv, Bounded, NEW e \in Event PROVE applied[e] <= Budget
    BY DEF DoubleCountBound, Budget
  <2>1. /\ applied[e] \in Nat /\ Coming(e) \in {0, 1}
        /\ Cardinality(Awaited(e)) \in Nat /\ Cardinality(Orphans) \in Nat
        /\ Cardinality(OrphansOn(e)) \in Nat
    BY Sizes DEF Bounded
  <2>2. Budget \in Nat /\ Due(e) <= Budget
    <3>1. restarts \in Nat /\ reconnects \in Nat /\ faults \in Nat
      BY DEF IInv, TypeOK
    <3> QED
      BY <3>1, BudgetType, Zenon DEF Budget, Bounded
  <2> QED
    BY <2>1, <2>2 DEF Due
<1> QED
  BY <1>1, <1>2, <1>3, Inductive, PTL DEF Spec
=============================================================================
