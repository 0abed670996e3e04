----------------------------- MODULE GatewayRpc -----------------------------
(***************************************************************************)
(* Remote calls of the gateway to the broker over RabbitMQ: the pending    *)
(* map with its timers, the client library's outbox, the durable request   *)
(* queue, the RPC consumer of the broker, with prefetch(1), or of the      *)
(* config service, with prefetch(10), and the exclusive reply queue, which *)
(* dies with the gateway's connection.                                     *)
(*                                                                         *)
(* A call is named by its correlation id.  A slot is one running call of   *)
(* handleRpcMessage; live = FALSE once its channel is closed.  "Broker"    *)
(* stands for either service: their consumers are the same code.           *)
(***************************************************************************)
EXTENDS Naturals, Sequences, FiniteSets

CONSTANTS
  Call,           \* correlation ids: calls of rpcToBroker, rpcToConfigService
  NoAnswer,       \* result of a call that is not resolved
  Slot,           \* concurrent calls of handleRpcMessage
  Prefetch,       \* possible limits of unacknowledged messages of the service
  MaxReconnects,  \* bound: lost connections, of the gateway or the broker
  MaxFaults       \* bound: failing sends and handlers, broker crashes

ASSUME RpcAssumption ==
  /\ NoAnswer \notin Call
  /\ IsFiniteSet(Slot) /\ Prefetch \subseteq Nat \ {0}
  /\ MaxReconnects \in Nat /\ MaxFaults \in Nat

VARIABLES
  status,      \* status[c]: the promise returned to the caller of c
  result,      \* result[c]: the request whose answer resolved it
  pending,     \* keys of the pending map
  timers,      \* calls whose timeout is armed
  replyTo,     \* replyTo[c]: reply queue named in the request
  connected,   \* the gateway has a connection
  replyQueue,  \* replyQueueName: the latest reply queue the gateway declared
  prefetch,    \* of the service that is called
  closed,      \* onModuleDestroy has run
  outbox,      \* calls the client library has not seen confirmed
  requests,    \* RabbitMQ queue broker.rpc
  replies,     \* messages in the gateway's reply queue
  handler,     \* handler[s]: the request slot s works on
  executed,    \* history: calls the broker has run
  sent,        \* history: calls whose request reached RabbitMQ
  answered,    \* history: calls whose reply the broker has sent
  reconnects, faults   \* counters of the bounded disturbances

gatewayVars == <<status, result, pending, timers, replyTo, closed>>
brokerVars == <<handler, executed, answered>>
linkVars == <<connected, replyQueue, prefetch>>
vars == <<status, result, pending, timers, replyTo, connected, replyQueue,
          prefetch, closed, outbox, requests, replies, handler, executed, sent, answered,
          reconnects, faults>>

Request == [id : Call, replyTo : Nat]
Reply == [id : Call, answer : Call]
Pc == {"idle", "execute", "reply", "ack"}
Idle == [pc |-> "idle"]
Work == {Idle} \cup
        [pc : Pc \ {"idle"}, live : BOOLEAN, id : Call, replyTo : Nat]

Busy(s) == handler[s].pc # "idle"
Live(s) == Busy(s) /\ handler[s].live
LiveSlots == {s \in Slot : Live(s)}

Init ==
  /\ status = [c \in Call |-> "new"]
  /\ result = [c \in Call |-> NoAnswer]
  /\ pending = {} /\ timers = {}
  /\ replyTo = [c \in Call |-> 0]
  /\ connected = TRUE /\ replyQueue = 1 /\ prefetch \in Prefetch /\ closed = FALSE
  /\ outbox = {} /\ requests = << >> /\ replies = << >>
  /\ handler = [s \in Slot |-> Idle]
  /\ executed = {} /\ sent = {} /\ answered = {}
  /\ reconnects = 0 /\ faults = 0

Fault == faults < MaxFaults /\ faults' = faults + 1
LoseConnection == reconnects < MaxReconnects /\ reconnects' = reconnects + 1

-----------------------------------------------------------------------------
(* The gateway.                                                            *)

\* Variant for checking: no timeout is armed while there is no connection.
StartUntimed(c) ==
  /\ status[c] = "new"
  /\ status' = [status EXCEPT ![c] = "waiting"]
  /\ pending' = pending \cup {c}
  /\ timers' = IF connected THEN timers \cup {c} ELSE timers
  /\ replyTo' = [replyTo EXCEPT ![c] = replyQueue]
  /\ outbox' = outbox \cup {c}
  /\ UNCHANGED <<result, closed, linkVars, requests, replies, brokerVars, sent,
                 reconnects, faults>>

\* The channel wrapper and the queue name outlive the connection and
\* onModuleDestroy, so a call can start at any time.
Start(c) ==
  /\ status[c] = "new"
  /\ status' = [status EXCEPT ![c] = "waiting"]
  /\ pending' = pending \cup {c}
  /\ timers' = timers \cup {c}
  /\ replyTo' = [replyTo EXCEPT ![c] = replyQueue]
  /\ outbox' = outbox \cup {c}
  /\ UNCHANGED <<result, closed, linkVars, requests, replies, brokerVars, sent,
                 reconnects, faults>>

\* The promise settles only once: a later reject is without effect.
Rejected(C) ==
  status' = [c \in Call |-> IF c \in C /\ status[c] = "waiting"
                              THEN "rejected" ELSE status[c]]

Forget(C) == pending' = pending \ C /\ timers' = timers \ C

\* The timer callback.
Timeout(c) ==
  /\ c \in timers
  /\ Forget({c}) /\ Rejected({c})
  /\ UNCHANGED <<result, replyTo, closed, linkVars, outbox, requests, replies,
                 brokerVars, sent, reconnects, faults>>

Enqueue(c) ==
  /\ requests' = Append(requests, [id |-> c, replyTo |-> replyTo[c]])
  /\ sent' = sent \cup {c}

\* The library publishes and gets the confirmation; then(sent) has nothing to do.
Transmit(c) ==
  /\ c \in outbox /\ connected
  /\ Enqueue(c)
  /\ outbox' = outbox \ {c}
  /\ UNCHANGED <<gatewayVars, linkVars, replies, brokerVars, reconnects, faults>>

\* Variant for checking: a failed send rejects and leaves the map as it is.
SendFailsKeepsEntry(c) ==
  /\ c \in outbox
  /\ Fault
  /\ outbox' = outbox \ {c}
  /\ Enqueue(c) \/ UNCHANGED <<requests, sent>>
  /\ Rejected({c}) /\ timers' = timers \ {c}
  /\ UNCHANGED <<result, pending, replyTo, closed, linkVars, replies,
                 brokerVars, reconnects>>

\* sendToQueue answers false or rejects, whether or not the request got through.
SendFails(c) ==
  /\ c \in outbox
  /\ Fault
  /\ outbox' = outbox \ {c}
  /\ Enqueue(c) \/ UNCHANGED <<requests, sent>>
  /\ Forget({c}) /\ Rejected({c})
  /\ UNCHANGED <<result, replyTo, closed, linkVars, replies, brokerVars,
                 reconnects>>

\* The reply queue is exclusive: it and its messages go with the connection.
\* A request that was published but not confirmed is published again later.
Disconnect ==
  /\ connected /\ LoseConnection
  /\ connected' = FALSE
  /\ replies' = << >>
  /\ \/ UNCHANGED <<requests, sent>>
     \/ \E c \in outbox : Enqueue(c)
  /\ UNCHANGED <<gatewayVars, replyQueue, prefetch, outbox, brokerVars, faults>>

Connect ==
  /\ ~connected /\ ~closed
  /\ connected' = TRUE
  /\ replyQueue' = replyQueue + 1
  /\ UNCHANGED <<gatewayVars, prefetch, outbox, requests, replies, brokerVars, sent,
                 reconnects, faults>>

\* Variant for checking: replies are taken for the answer to any waiting call.
HandleReplyUnpaired ==
  /\ replies # << >>
  /\ LET m == Head(replies) IN
       IF pending # {}
         THEN \E c \in pending :
                /\ Forget({c})
                /\ status' = [status EXCEPT ![c] = "resolved"]
                /\ result' = [result EXCEPT ![c] = m.answer]
         ELSE UNCHANGED <<status, result, pending, timers>>
  /\ replies' = Tail(replies)
  /\ UNCHANGED <<replyTo, closed, linkVars, outbox, requests, brokerVars, sent,
                 reconnects, faults>>

\* Variant for checking: the promise gets the message, not its content.
HandleReplyUnparsed ==
  /\ replies # << >> /\ Head(replies).id \in pending
  /\ Forget({Head(replies).id})
  /\ status' = [status EXCEPT ![Head(replies).id] = "resolved"]
  /\ result' = [result EXCEPT ![Head(replies).id] = Head(replies)]
  /\ replies' = Tail(replies)
  /\ UNCHANGED <<replyTo, closed, linkVars, outbox, requests, brokerVars, sent,
                 reconnects, faults>>

\* handleRpcReply: a reply nobody waits for (late or duplicate) is only acked.
HandleReply ==
  /\ replies # << >>
  /\ LET m == Head(replies) IN
       IF m.id \in pending
         THEN /\ Forget({m.id})
              /\ status' = [status EXCEPT ![m.id] = "resolved"]
              /\ result' = [result EXCEPT ![m.id] = m.answer]
         ELSE UNCHANGED <<status, result, pending, timers>>
  /\ replies' = Tail(replies)
  /\ UNCHANGED <<replyTo, closed, linkVars, outbox, requests, brokerVars, sent,
                 reconnects, faults>>

\* onModuleDestroy: all waiting calls are rejected, the channel drops its outbox.
Shutdown ==
  /\ ~closed /\ closed' = TRUE
  /\ timers' = timers \ pending /\ pending' = {} /\ Rejected(pending)
  /\ connected' = FALSE /\ replies' = << >> /\ outbox' = {}
  /\ UNCHANGED <<result, replyTo, replyQueue, prefetch, requests, brokerVars, sent,
                 reconnects, faults>>

-----------------------------------------------------------------------------
(* The broker.                                                             *)

brokerFrame == <<gatewayVars, linkVars, outbox, sent>>

Take(s) ==
  /\ requests # << >> /\ ~Busy(s)
  /\ Cardinality(LiveSlots) < prefetch
  /\ handler' = [handler EXCEPT ![s] =
       [pc |-> "execute", live |-> TRUE, id |-> Head(requests).id,
        replyTo |-> Head(requests).replyTo]]
  /\ requests' = Tail(requests)
  /\ UNCHANGED <<brokerFrame, replies, executed, answered, reconnects, faults>>

Goto(s, pc) == handler' = [handler EXCEPT ![s].pc = pc]

Delivery(s) == [id |-> handler[s].id, replyTo |-> handler[s].replyTo]

\* Variant for checking: the consumer acknowledged on receipt.
RequeueNothing(S) == UNCHANGED requests

\* RabbitMQ puts the messages of the slots S back at the head, in any order.
Requeue(S) ==
  \E f \in [1..Cardinality(S) -> S] :
    /\ {f[i] : i \in DOMAIN f} = S
    /\ requests' = [i \in DOMAIN f |-> Delivery(f[i])] \o requests

\* The process ends; what it held unacknowledged is requeued.
Exit ==
  /\ Requeue(LiveSlots)
  /\ handler' = [s \in Slot |-> Idle]

\* handleRpcEnvelope runs the request; its errors become an answer too.
Execute(s) ==
  /\ handler[s].pc = "execute"
  /\ executed' = executed \cup {handler[s].id}
  /\ Goto(s, "reply")
  /\ UNCHANGED <<brokerFrame, requests, replies, answered, reconnects, faults>>

\* An error outside of it: nack with requeue, which throws on a closed channel.
ExecuteFails(s) ==
  /\ handler[s].pc = "execute"
  /\ Fault
  /\ executed' \in {executed, executed \cup {handler[s].id}}
  /\ \/ /\ Live(s)
        /\ Requeue({s})
        /\ handler' = [handler EXCEPT ![s] = Idle]
     \/ ~Live(s) /\ Exit
  /\ UNCHANGED <<brokerFrame, replies, answered, reconnects>>

\* sendToQueue(replyTo): a queue that is gone discards the reply.  On a closed
\* channel it throws, then the nack throws, and the unhandled rejection ends Node.
SendReply(s) ==
  /\ handler[s].pc = "reply"
  /\ \/ /\ Live(s)
        /\ replies' = IF connected /\ handler[s].replyTo = replyQueue
                        THEN Append(replies, [id |-> handler[s].id,
                                              answer |-> handler[s].id])
                        ELSE replies
        /\ answered' = answered \cup {handler[s].id}
        /\ Goto(s, "ack")
        /\ UNCHANGED requests
     \/ ~Live(s) /\ Exit /\ UNCHANGED <<replies, answered>>
  /\ UNCHANGED <<brokerFrame, executed, reconnects, faults>>

\* Variant for checking: no ack for a reply that was not delivered.
AckIfDelivered(s) ==
  /\ handler[s].pc = "ack" /\ Live(s)
  /\ connected /\ handler[s].replyTo = replyQueue
  /\ handler' = [handler EXCEPT ![s] = Idle]
  /\ UNCHANGED <<brokerFrame, requests, replies, executed, answered, reconnects,
                 faults>>

Ack(s) ==
  /\ handler[s].pc = "ack"
  /\ \/ /\ Live(s)
        /\ handler' = [handler EXCEPT ![s] = Idle]
        /\ UNCHANGED requests
     \/ ~Live(s) /\ Exit
  /\ UNCHANGED <<brokerFrame, replies, executed, answered, reconnects, faults>>

\* The service's connection is lost and re-established under its handlers.
BrokerReconnect ==
  /\ LiveSlots # {} /\ LoseConnection
  /\ Requeue(LiveSlots)
  /\ handler' = [s \in Slot |->
                   IF Live(s) THEN [handler[s] EXCEPT !.live = FALSE] ELSE handler[s]]
  /\ UNCHANGED <<brokerFrame, replies, executed, answered, faults>>

BrokerCrash ==
  /\ \E s \in Slot : Busy(s)
  /\ Fault /\ Exit
  /\ UNCHANGED <<brokerFrame, replies, executed, answered, reconnects>>

BrokerStep(s) == Execute(s) \/ ExecuteFails(s) \/ SendReply(s) \/ Ack(s)

Next ==
  \/ \E c \in Call : Start(c) \/ Timeout(c) \/ Transmit(c) \/ SendFails(c)
  \/ HandleReply \/ Disconnect \/ Connect \/ Shutdown
  \/ \E s \in Slot : Take(s) \/ BrokerStep(s)
  \/ BrokerReconnect \/ BrokerCrash

\* Timers fire; RabbitMQ delivers and the broker's event loop runs.
TimerFairness == \A c \in Call : WF_vars(Timeout(c))
BrokerFairness ==
  /\ WF_vars(\E s \in Slot : Take(s))
  /\ \A s \in Slot : WF_vars(BrokerStep(s))

Spec == Init /\ [][Next]_vars
FairSpec == Spec /\ TimerFairness /\ BrokerFairness
-----------------------------------------------------------------------------
(* Properties.                                                             *)

TypeOK ==
  /\ status \in [Call -> {"new", "waiting", "resolved", "rejected"}]
  /\ result \in [Call -> Call \cup {NoAnswer}]
  /\ pending \subseteq Call /\ timers \subseteq Call /\ outbox \subseteq Call
  /\ replyTo \in [Call -> Nat] /\ prefetch \in Prefetch
  /\ connected \in BOOLEAN /\ closed \in BOOLEAN /\ replyQueue \in Nat
  /\ requests \in Seq(Request) /\ replies \in Seq(Reply)
  /\ handler \in [Slot -> Work]
  /\ executed \subseteq Call /\ sent \subseteq Call /\ answered \subseteq Call
  /\ reconnects \in Nat /\ faults \in Nat

(***************************************************************************)
(* The pending map holds exactly the calls whose promise waits, each with  *)
(* an armed timer: five handlers (timeout, failed send, reply, shutdown,   *)
(* start) keep the three in step, or entries and timers leak.              *)
(***************************************************************************)
PendingExact ==
  /\ pending = {c \in Call : status[c] = "waiting"}
  /\ timers = pending

(***************************************************************************)
(* A request RabbitMQ took is queued, held by a live handler or answered:  *)
(* the broker acknowledges only after it has sent the reply, so neither a  *)
(* crash nor a lost connection loses a request.                            *)
(***************************************************************************)
RequestsSurvive ==
  \A c \in sent :
    \/ c \in answered
    \/ \E i \in 1..Len(requests) : requests[i].id = c
    \/ \E s \in Slot : Live(s) /\ handler[s].id = c

(***************************************************************************)
(* The correlation id pairs each reply with its caller ("concurrent        *)
(* requests do not get mixed up"): calls behave as RpcCalls promises, over *)
(* duplicate and late replies, repeated requests and lost connections.     *)
(***************************************************************************)
Calls == INSTANCE RpcCalls WITH status <- status, result <- result, executed <- executed
CallsSpec == Calls!Spec

(***************************************************************************)
(* No caller waits for ever, whatever happens to the broker, the           *)
(* connection or the reply.                                                *)
(***************************************************************************)
EveryCallSettles ==
  \A c \in Call : status[c] = "waiting" ~> status[c] \in {"resolved", "rejected"}

(***************************************************************************)
(* A request that RabbitMQ took is run in the end, even when its caller    *)
(* was rejected long before.                                               *)
(***************************************************************************)
EveryRequestRuns == \A c \in Call : c \in sent ~> c \in executed
=============================================================================
