--------------------------- MODULE IndexerIngest ---------------------------
(***************************************************************************)
(* The ingestion pipeline: amm-indexer handlers publish on-chain events to *)
(* a durable RabbitMQ queue, the broker consumes it with prefetch(1),      *)
(* persists each event, aggregates it into the read models, fans out to    *)
(* the gateway and only then acknowledges.                                 *)
(*                                                                         *)
(* Events are numbered in chain order.  A message is identified by its     *)
(* publication number n; published[n] is the event it carries.  A slot is  *)
(* one running call of handleIndexerMessage.  A slot whose delivery        *)
(* channel was closed under it keeps running, since nothing cancels the    *)
(* async function, until its ack throws: live = FALSE.                     *)
(***************************************************************************)
EXTENDS Naturals, Sequences

CONSTANTS
  N,              \* number of on-chain events
  Pool,           \* liquidity pools
  Kind,           \* Kind[e]: what aggregation does with event e
  PoolOf,         \* PoolOf[e]: the pool event e is about
  Slot,           \* concurrent calls of handleIndexerMessage
  MaxRestarts,    \* bound: indexer restarts
  MaxReconnects,  \* bound: broker connections lost while the process lives
  MaxFaults       \* bound: broker crashes and failing broker steps

Event == 1..N

(***************************************************************************)
(* "create": PoolCreated, CLPoolCreated; adds the pool to the graph.       *)
(* "mint":   CLLiquidityAdded; throws RetryableAggregationError while the  *)
(*           pool is unknown.                                              *)
(* "touch":  Swap, LiquidityAdded; changes nothing of an unknown pool.     *)
(***************************************************************************)
Kinds == {"create", "mint", "touch"}

ASSUME IngestAssumption ==
  /\ N \in Nat \ {0}
  /\ Kind \in [Event -> Kinds]
  /\ PoolOf \in [Event -> Pool]
  /\ MaxRestarts \in Nat /\ MaxReconnects \in Nat /\ MaxFaults \in Nat

VARIABLES
  cursor,      \* event the indexer handles next
  published,   \* history: events sent to the queue, by message number
  queue,       \* RabbitMQ queue amm-indexer.events
  handler,     \* handler[s]: the message slot s works on, and how far it is
  stored,      \* events with a row in indexed_events
  edges,       \* pools the swap graph knows
  applied,     \* applied[e]: how often e's effect is in the read models
  announced,   \* events whose gateway fan-out was sent
  acked, dropped,        \* message numbers RabbitMQ has discarded
  lost,        \* history: events of which a publication was lost
  failed,      \* history: events an aggregation or insert failed on
  lastAgg,     \* history: message number of the latest aggregation
  restarts, reconnects, faults   \* counters of the bounded disturbances

ixVars    == <<cursor, published, lost, restarts>>
storeVars == <<stored, edges, applied, announced, failed, lastAgg>>
vars == <<cursor, published, queue, handler, stored, edges, applied,
          announced, acked, dropped, lost, failed, lastAgg, restarts,
          reconnects, faults>>

Message == [n : Nat, redelivered : BOOLEAN]
Pc == {"idle", "persist", "aggregate", "fanout", "forward"}
Work == [pc : Pc, live : BOOLEAN, n : Nat, redelivered : BOOLEAN]
NoWork == [pc |-> "idle", live |-> FALSE, n |-> 0, redelivered |-> FALSE]

Busy(s) == handler[s].pc # "idle"
Live(s) == handler[s].live
Ev(s) == published[handler[s].n]
Creations(p) == {c \in Event : Kind[c] = "create" /\ PoolOf[c] = p}

Init ==
  /\ cursor = 1
  /\ published = << >> /\ queue = << >>
  /\ handler = [s \in Slot |-> NoWork]
  /\ stored = {} /\ edges = {} /\ announced = {}
  /\ applied = [e \in Event |-> 0]
  /\ acked = {} /\ dropped = {} /\ lost = {} /\ failed = {}
  /\ lastAgg = 0
  /\ restarts = 0 /\ reconnects = 0 /\ faults = 0

-----------------------------------------------------------------------------
(* The indexer.                                                            *)

\* Variant for checking: the event after the published one is skipped.
SkipHandler == cursor' = cursor + 2

NextHandler == cursor' = cursor + 1

\* A handler inserts its row with onConflictDoNothing, then awaits notifyBroker.
Publish ==
  /\ cursor \in Event
  /\ published' = Append(published, cursor)
  /\ queue' = Append(queue, [n |-> Len(published) + 1, redelivered |-> FALSE])
  /\ NextHandler
  /\ UNCHANGED <<handler, acked, dropped, lost, storeVars, restarts,
                 reconnects, faults>>

\* publishIndexerEvent gives up (connect timeout, refused send) and notifyBroker
\* goes on: the row is canonical, the queue is best effort.
PublishLost ==
  /\ cursor \in Event
  /\ lost' = lost \cup {cursor}
  /\ NextHandler
  /\ UNCHANGED <<published, queue, handler, acked, dropped, storeVars,
                 restarts, reconnects, faults>>

\* Ponder resumes from an earlier checkpoint and runs the handlers again.
IndexerRestart ==
  /\ restarts < MaxRestarts
  /\ restarts' = restarts + 1
  /\ cursor' \in 1..cursor
  /\ UNCHANGED <<published, queue, handler, acked, dropped, lost, storeVars,
                 reconnects, faults>>

-----------------------------------------------------------------------------
(* The broker.                                                             *)

\* Variant for checking: a consumer without a prefetch limit.
DeliverUnlimited(s) ==
  /\ queue # << >> /\ ~Busy(s)
  /\ handler' = [handler EXCEPT ![s] =
       [pc |-> "persist", live |-> TRUE, n |-> Head(queue).n,
        redelivered |-> Head(queue).redelivered]]
  /\ queue' = Tail(queue)
  /\ UNCHANGED <<ixVars, storeVars, acked, dropped, reconnects, faults>>

\* RabbitMQ hands over the head only while nothing it delivered is
\* unacknowledged: prefetch(1).
Deliver(s) ==
  /\ queue # << >> /\ ~Busy(s)
  /\ \A t \in Slot : ~Live(t)
  /\ handler' = [handler EXCEPT ![s] =
       [pc |-> "persist", live |-> TRUE, n |-> Head(queue).n,
        redelivered |-> Head(queue).redelivered]]
  /\ queue' = Tail(queue)
  /\ UNCHANGED <<ixVars, storeVars, acked, dropped, reconnects, faults>>

Goto(s, pc) == handler' = [handler EXCEPT ![s].pc = pc]
Finish(s) == handler' = [handler EXCEPT ![s] = NoWork]

\* Variant for checking: a retried message is sent again, at the tail.
RequeuedAtTail(s) == queue \o << [n |-> handler[s].n, redelivered |-> TRUE] >>

\* A requeued message goes back to its place at the head, flagged redelivered.
Requeued(s) == << [n |-> handler[s].n, redelivered |-> TRUE] >> \o queue

\* The broker process ends; what it held unacknowledged is requeued.
Exit ==
  /\ \/ \E s \in Slot : Live(s) /\ queue' = Requeued(s)
     \/ (\A s \in Slot : ~Live(s)) /\ UNCHANGED queue
  /\ handler' = [s \in Slot |-> NoWork]
  /\ UNCHANGED <<acked, dropped>>

\* On a closed channel the ack throws, the nack in the catch block throws again,
\* and nothing handles the rejection of the discarded promise: Node exits.
Ack(s) ==
  \/ /\ Live(s)
     /\ acked' = acked \cup {handler[s].n}
     /\ Finish(s) /\ UNCHANGED <<queue, dropped>>
  \/ ~Live(s) /\ Exit

NackDrop(s) ==
  \/ /\ Live(s)
     /\ dropped' = dropped \cup {handler[s].n}
     /\ Finish(s) /\ UNCHANGED <<queue, acked>>
  \/ ~Live(s) /\ Exit

NackRequeue(s) ==
  \/ /\ Live(s)
     /\ queue' = Requeued(s)
     /\ Finish(s) /\ UNCHANGED <<acked, dropped>>
  \/ ~Live(s) /\ Exit

Fault == faults < MaxFaults /\ faults' = faults + 1

\* Variant for checking: the insert is not awaited and its failure is ignored.
PersistDetached(s) ==
  /\ handler[s].pc = "persist"
  /\ stored' \in {stored, stored \cup {Ev(s)}}
  /\ Goto(s, "aggregate")
  /\ UNCHANGED <<ixVars, queue, edges, applied, announced, acked, dropped,
                 failed, lastAgg, reconnects, faults>>

\* onIndexerEvent: insert, or skip when the id is already stored.
Persist(s) ==
  /\ handler[s].pc = "persist"
  /\ stored' = stored \cup {Ev(s)}
  /\ Goto(s, "aggregate")
  /\ UNCHANGED <<ixVars, queue, edges, applied, announced, acked, dropped,
                 failed, lastAgg, reconnects, faults>>

PersistFails(s) ==
  /\ handler[s].pc = "persist"
  /\ Fault
  /\ NackDrop(s)
  /\ failed' = failed \cup {Ev(s)}
  /\ UNCHANGED <<ixVars, stored, edges, applied, announced, lastAgg, reconnects>>

TakesEffect(e) == Kind[e] = "create" \/ PoolOf[e] \in edges

Effect(e) ==
  /\ applied' = IF TakesEffect(e) THEN [applied EXCEPT ![e] = @ + 1] ELSE applied
  /\ edges' = IF Kind[e] = "create" THEN edges \cup {PoolOf[e]} ELSE edges

Aggregate(s) ==
  /\ handler[s].pc = "aggregate"
  /\ Kind[Ev(s)] = "mint" => TakesEffect(Ev(s))
  /\ Effect(Ev(s))
  /\ lastAgg' = handler[s].n
  /\ Goto(s, "fanout")
  /\ UNCHANGED <<ixVars, queue, stored, announced, acked, dropped, failed,
                 reconnects, faults>>

\* Variant for checking: a failing prerequisite is requeued every time.
AggregateRetryForever(s) ==
  /\ handler[s].pc = "aggregate"
  /\ Kind[Ev(s)] = "mint" /\ ~TakesEffect(Ev(s))
  /\ NackRequeue(s)
  /\ UNCHANGED <<ixVars, storeVars, reconnects, faults>>

\* RetryableAggregationError: requeued once, dropped when already redelivered.
AggregateRetry(s) ==
  /\ handler[s].pc = "aggregate"
  /\ Kind[Ev(s)] = "mint" /\ ~TakesEffect(Ev(s))
  /\ IF handler[s].redelivered THEN NackDrop(s) ELSE NackRequeue(s)
  /\ UNCHANGED <<ixVars, storeVars, reconnects, faults>>

\* Any other error, raised before or after the statements that commit: the
\* message is dropped, or acknowledged when the error is a unique violation.
AggregateFails(s) ==
  /\ handler[s].pc = "aggregate"
  /\ Fault
  /\ Effect(Ev(s)) \/ UNCHANGED <<applied, edges>>
  /\ failed' = failed \cup {Ev(s)}
  /\ lastAgg' = handler[s].n
  /\ NackDrop(s) \/ (Goto(s, "fanout") /\ UNCHANGED <<queue, acked, dropped>>)
  /\ UNCHANGED <<ixVars, stored, announced, reconnects>>

\* WebSocket emits and HTTP cache messages: best effort, never fails the handler.
Fanout(s) ==
  /\ handler[s].pc = "fanout"
  /\ announced' = announced \cup {Ev(s)} \/ UNCHANGED announced
  /\ Goto(s, "forward")
  /\ UNCHANGED <<ixVars, queue, stored, edges, applied, acked, dropped, failed,
                 lastAgg, reconnects, faults>>

\* Variant for checking: the acknowledgement depends on the fan-out.
ForwardIfAnnounced(s) ==
  /\ handler[s].pc = "forward"
  /\ IF Ev(s) \in announced THEN Ack(s) ELSE NackRequeue(s)
  /\ UNCHANGED <<ixVars, storeVars, reconnects, faults>>

Forward(s) ==
  /\ handler[s].pc = "forward"
  /\ Ack(s)
  /\ UNCHANGED <<ixVars, storeVars, reconnects, faults>>

\* publishToGateway answered false (requeue) or threw (dropped).
ForwardFails(s) ==
  /\ handler[s].pc = "forward"
  /\ Fault
  /\ NackRequeue(s) \/ NackDrop(s)
  /\ UNCHANGED <<ixVars, storeVars, reconnects>>

\* The connection is lost and re-established; the process and its calls go on.
Reconnect ==
  /\ reconnects < MaxReconnects
  /\ reconnects' = reconnects + 1
  /\ \E s \in Slot :
       /\ Live(s)
       /\ queue' = Requeued(s)
       /\ handler' = [handler EXCEPT ![s].live = FALSE]
  /\ UNCHANGED <<ixVars, storeVars, acked, dropped, faults>>

\* The broker is killed; what it had committed stays.
Crash ==
  /\ \E s \in Slot : Busy(s)
  /\ Fault
  /\ Exit
  /\ UNCHANGED <<ixVars, storeVars, reconnects>>

HandlerStep(s) ==
  \/ Persist(s) \/ PersistFails(s)
  \/ Aggregate(s) \/ AggregateRetry(s) \/ AggregateFails(s)
  \/ Fanout(s)
  \/ Forward(s) \/ ForwardFails(s)

Next ==
  \/ Publish \/ PublishLost \/ IndexerRestart
  \/ \E s \in Slot : Deliver(s) \/ HandlerStep(s)
  \/ Reconnect \/ Crash

\* RabbitMQ delivers while it may, and the event loop runs every pending call.
Fairness ==
  /\ WF_vars(\E s \in Slot : Deliver(s))
  /\ \A s \in Slot : WF_vars(HandlerStep(s))

Spec == Init /\ [][Next]_vars
FairSpec == Spec /\ Fairness
-----------------------------------------------------------------------------
(* Properties.                                                             *)

TypeOK ==
  /\ cursor \in 1..(N + 1)
  /\ published \in Seq(Event) /\ queue \in Seq(Message)
  /\ handler \in [Slot -> Work]
  /\ \A s \in Slot :
       IF Busy(s) THEN handler[s].n \in 1..Len(published)
                  ELSE handler[s] = NoWork
  /\ stored \subseteq Event /\ edges \subseteq Pool /\ announced \subseteq Event
  /\ applied \in [Event -> Nat]
  /\ acked \subseteq Nat /\ dropped \subseteq Nat
  /\ lost \subseteq Event /\ failed \subseteq Event
  /\ lastAgg \in Nat
  /\ restarts \in Nat /\ reconnects \in Nat /\ faults \in Nat

(***************************************************************************)
(* Every message sent is acknowledged, dropped, being handled or queued,   *)
(* and exactly one of them; messages settle in the order they were sent:   *)
(* what prefetch(1) and the ack at the end of handleIndexerMessage buy,    *)
(* over requeues, lost connections and crashes.                            *)
(***************************************************************************)
Held == IF \E s \in Slot : Live(s) THEN 1 ELSE 0
Settled == Len(published) - Len(queue) - Held

InOrderSettlement ==
  /\ Settled \in Nat
  /\ acked \cup dropped = 1..Settled
  /\ acked \cap dropped = {}
  /\ \A s \in Slot : Live(s) => handler[s].n = Settled + 1
  /\ \A s, t \in Slot : Live(s) /\ Live(t) => s = t
  /\ \A i \in 1..Len(queue) : queue[i].n = Settled + Held + i

(***************************************************************************)
(* Nothing reaches a read model or the gateway before its row is in        *)
(* indexed_events, whatever is redelivered, concurrent or crashes          *)
(* ("so all downstream jobs can rely on broker DB records").               *)
(***************************************************************************)
StoredFirst ==
  /\ \A e \in Event : (applied[e] > 0) => (e \in stored)
  /\ announced \subseteq stored

(***************************************************************************)
(* An event the broker is done with (acknowledged, or dropped after its    *)
(* one retry) or has announced to the gateway is in the read models,       *)
(* unless a broker step failed on it, or every earlier creation of its     *)
(* pool was lost on the way or failed: the queue order makes one retry and *)
(* the silent skip of unknown pools enough.                                *)
(***************************************************************************)
Excused(e) ==
  \/ e \in failed
  \/ \A c \in Creations(PoolOf[e]) : c < e => c \in (lost \cup failed)

EffectUnlessCreationLost ==
  /\ \A n \in acked \cup dropped :
       applied[published[n]] > 0 \/ Excused(published[n])
  /\ \A e \in announced : applied[e] > 0 \/ Excused(e)

(***************************************************************************)
(* Aggregation has no duplicate check, so an event may count twice; but    *)
(* only as often as something was republished, redelivered or retried      *)
(* because of a fault: a lost connection counts it again for the orphaned  *)
(* call and for the requeue when that call ends the process.  Without any  *)
(* disturbance each event counts at most once.                             *)
(***************************************************************************)
DoubleCountBound ==
  \A e \in Event : applied[e] <= 1 + restarts + 2 * reconnects + faults

(***************************************************************************)
(* "Keep indexer event aggregation order deterministic": read models see   *)
(* the messages in the order they were sent.                               *)
(***************************************************************************)
AggregationOrder == [][lastAgg' >= lastAgg]_vars

(***************************************************************************)
(* It is kept as long as the broker has not lost a connection: crashes,    *)
(* restarts of the indexer and requeues do not disturb it.                 *)
(***************************************************************************)
OrderWhileConnected == [][reconnects = 0 => lastAgg' >= lastAgg]_vars

(***************************************************************************)
(* No message blocks the queue for ever: each one sent is in the end       *)
(* acknowledged or dropped, retries and requeues included.                 *)
(***************************************************************************)
EveryMessageSettles ==
  \A n \in 1..(N * (MaxRestarts + 1)) :
    (n <= Len(published)) ~> (n \in acked \cup dropped)
=============================================================================
