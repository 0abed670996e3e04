------------------------ MODULE ConfigService_proofs ------------------------
(***************************************************************************)
(* Proofs about the config service under the gateway's remote calls.  The  *)
(* first part is about the calls alone: they implement RpcCalls and lose   *)
(* no request, for any number of calls, slots and disturbances.  The       *)
(* second shows the config service to be a service as GatewayRpc describes *)
(* it, so that what is proved of the calls holds here too, and that what   *)
(* it tells stays true and an address has one active badge: for any number *)
(* of calls, slots and HTTP requests, and any scenarios whose rows are     *)
(* rows of the tables and have one badge to an address.                    *)
(***************************************************************************)
EXTENDS ConfigService, FiniteSetTheorems, TLAPS

In(q) == {q[i] : i \in 1..Len(q)}

(***************************************************************************)
(* The inductive invariant.  Started: whatever carries a correlation id    *)
(* belongs to a call that was started.  Paired: a reply carries the answer *)
(* to the request it names, and that request has run.                      *)
(***************************************************************************)
Started ==
  /\ \A c \in outbox : status[c] # "new"
  /\ \A m \in In(requests) : status[m.id] # "new"
  /\ \A s \in Slot : Busy(s) => status[handler[s].id] # "new"

Paired ==
  /\ \A m \in In(replies) : m.answer = m.id /\ m.id \in executed
  /\ \A s \in Slot : handler[s].pc \in {"reply", "ack"} => handler[s].id \in executed

IInv == TypeOK /\ PendingExact /\ Started /\ Paired

(***************************************************************************)
(* What the queue operations do to the messages in a queue.                *)
(***************************************************************************)
LEMMA Emptied == ASSUME NEW S PROVE << >> \in Seq(S) /\ In(<< >>) = {}
  BY DEF In

LEMMA Appended ==
  ASSUME NEW S, NEW q \in Seq(S), NEW m \in S
  PROVE  Append(q, m) \in Seq(S) /\ In(Append(q, m)) = In(q) \cup {m}
  <1>1. /\ Append(q, m) \in Seq(S) /\ Len(Append(q, m)) = Len(q) + 1
        /\ Len(q) \in Nat /\ Append(q, m)[Len(q) + 1] = m
        /\ \A i \in 1..Len(q) : Append(q, m)[i] = q[i]
    OBVIOUS
  <1>2. In(Append(q, m)) \subseteq In(q) \cup {m}
    BY <1>1 DEF In
  <1>3. In(q) \cup {m} \subseteq In(Append(q, m))
    BY <1>1 DEF In
  <1>4. QED
    BY <1>1, <1>2, <1>3

LEMMA Pushed ==
  ASSUME NEW S, NEW p \in Seq(S), NEW q \in Seq(S)
  PROVE  p \o q \in Seq(S) /\ In(p \o q) = In(p) \cup In(q)
  <1> DEFINE r == p \o q
  <1>1. /\ r \in Seq(S) /\ Len(r) = Len(p) + Len(q)
        /\ Len(p) \in Nat /\ Len(q) \in Nat
        /\ \A i \in 1..Len(p) : r[i] = p[i]
        /\ \A i \in (Len(p) + 1)..Len(r) : r[i] = q[i - Len(p)]
    OBVIOUS
  <1> HIDE DEF r
  <1>2. In(r) \subseteq In(p) \cup In(q)
    <2>1. ASSUME NEW i \in 1..Len(r) PROVE r[i] \in In(p) \cup In(q)
      <3>1. CASE i <= Len(p)
        BY <1>1, <3>1 DEF In
      <3>2. CASE i > Len(p)
        <4>1. i - Len(p) \in 1..Len(q) /\ r[i] = q[i - Len(p)]
          BY <1>1, <3>2
        <4>2. QED
          BY <4>1 DEF In
      <3>3. QED
        BY <1>1, <3>1, <3>2
    <2>2. QED
      BY <2>1 DEF In
  <1>3. In(p) \subseteq In(r)
    <2>1. ASSUME NEW j \in 1..Len(p) PROVE p[j] \in In(r)
      <3>1. j \in 1..Len(r) /\ r[j] = p[j]
        BY <1>1
      <3>2. QED
        BY <3>1 DEF In
    <2>2. QED
      BY <2>1 DEF In
  <1>4. In(q) \subseteq In(r)
    <2>1. ASSUME NEW j \in 1..Len(q) PROVE q[j] \in In(r)
      <3>1. j + Len(p) \in 1..Len(r) /\ r[j + Len(p)] = q[j]
        BY <1>1
      <3>2. QED
        BY <3>1 DEF In
    <2>2. QED
      BY <2>1 DEF In
  <1>5. QED
    BY <1>1, <1>2, <1>3, <1>4 DEF r

LEMMA Popped ==
  ASSUME NEW S, NEW q \in Seq(S), q # << >>
  PROVE  /\ Tail(q) \in Seq(S) /\ In(Tail(q)) \subseteq In(q)
         /\ Head(q) \in S /\ Head(q) \in In(q)
  <1>1. /\ Tail(q) \in Seq(S) /\ Len(Tail(q)) = Len(q) - 1
        /\ Len(q) \in Nat \ {0} /\ Head(q) = q[1] /\ Head(q) \in S
        /\ \A i \in 1..Len(Tail(q)) : Tail(q)[i] = q[i + 1]
    OBVIOUS
  <1>2. ASSUME NEW i \in 1..Len(Tail(q)) PROVE Tail(q)[i] \in In(q)
    <2>1. i + 1 \in 1..Len(q) /\ Tail(q)[i] = q[i + 1]
      BY <1>1
    <2>2. QED
      BY <2>1 DEF In
  <1>3. Head(q) \in In(q)
    BY <1>1 DEF In
  <1>4. QED
    BY <1>1, <1>2, <1>3 DEF In

LEMMA Members ==
  ASSUME NEW S, NEW q \in Seq(S)
  PROVE  In(q) \subseteq S
  BY DEF In

(***************************************************************************)
(* A busy slot's fields, and what it becomes at its next stage.            *)
(***************************************************************************)
LEMMA WorkFields ==
  ASSUME TypeOK, NEW s \in Slot, Busy(s)
  PROVE  /\ handler[s] \in [pc : Pc \ {"idle"}, live : BOOLEAN, id : Call, replyTo : Nat]
         /\ handler[s].id \in Call /\ handler[s].replyTo \in Nat
  BY DEF TypeOK, Work, Busy, Idle

LEMMA GotoFacts ==
  ASSUME TypeOK, NEW s \in Slot, Busy(s), NEW pc \in Pc \ {"idle"}, Goto(s, pc)
  PROVE  /\ handler' \in [Slot -> Work]
         /\ handler'[s].pc = pc /\ handler'[s].id = handler[s].id
         /\ \A t \in Slot : t # s => handler'[t] = handler[t]
  <1>1. [handler[s] EXCEPT !.pc = pc] \in Work
    BY WorkFields DEF Work
  <1>2. handler' = [handler EXCEPT ![s] = [handler[s] EXCEPT !.pc = pc]]
    BY DEF Goto
  <1>3. handler \in [Slot -> Work]
    BY DEF TypeOK
  <1>4. [handler[s] EXCEPT !.pc = pc].pc = pc /\ [handler[s] EXCEPT !.pc = pc].id = handler[s].id
    BY WorkFields
  <1>5. QED
    BY <1>1, <1>2, <1>3, <1>4

LEMMA EnqueueFacts ==
  ASSUME TypeOK, NEW c \in Call, Enqueue(c)
  PROVE  /\ requests' \in Seq(Request) /\ sent' \subseteq Call
         /\ \A m \in In(requests') : m \in In(requests) \/ m.id = c
  <1>1. [id |-> c, replyTo |-> replyTo[c]] \in Request /\ requests \in Seq(Request)
    BY DEF TypeOK, Request
  <1>2. QED
    BY <1>1, Appended DEF Enqueue, TypeOK

\* Only messages of the slots S are added to the queue.
Returned(S) ==
  /\ requests' \in Seq(Request)
  /\ \A m \in In(requests') : m \in In(requests) \/ \E s \in S : m.id = handler[s].id

LEMMA RequeueFacts ==
  ASSUME TypeOK, NEW S \in SUBSET Slot, \A s \in S : Busy(s), Requeue(S)
  PROVE  Returned(S)
  <1>1. Cardinality(S) \in Nat
    BY RpcAssumption, FS_Subset, FS_CardinalityType
  <1>2. PICK f \in [1..Cardinality(S) -> S] :
          requests' = [i \in DOMAIN f |-> Delivery(f[i])] \o requests
    BY DEF Requeue
  <1> DEFINE p == [i \in 1..Cardinality(S) |-> Delivery(f[i])]
  <1>3. \A s \in S : Delivery(s) \in Request /\ Delivery(s).id = handler[s].id
    BY WorkFields DEF Delivery, Request
  <1>4. p \in Seq(Request) /\ requests' = p \o requests
    <2>1. p \in [1..Cardinality(S) -> Request]
      BY <1>2, <1>3
    <2>2. p \in Seq(Request)
      BY <1>1, <2>1
    <2>3. DOMAIN f = 1..Cardinality(S)
      BY <1>2
    <2>4. QED
      BY <1>2, <2>2, <2>3
  <1>5. \A m \in In(p) : \E s \in S : m.id = handler[s].id
    <2>1. \A m \in In(p) : \E i \in 1..Cardinality(S) : m = Delivery(f[i])
      <3>1. Len(p) = Cardinality(S)
        BY <1>1
      <3>2. QED
        BY <3>1 DEF In
    <2>2. QED
      BY <1>3, <2>1
  <1> HIDE DEF p
  <1>6. requests \in Seq(Request)
    BY DEF TypeOK
  <1>7. QED
    BY <1>4, <1>5, <1>6, Pushed DEF Returned

LEMMA ExitFacts ==
  ASSUME TypeOK, Exit
  PROVE  /\ handler' \in [Slot -> Work] /\ \A s \in Slot : ~Busy(s)' /\ handler'[s].pc = "idle"
         /\ Returned(LiveSlots)
  <1>1. handler' \in [Slot -> Work] /\ \A s \in Slot : ~Busy(s)' /\ handler'[s].pc = "idle"
    BY DEF Exit, Idle, Work, Busy
  <1>2. LiveSlots \subseteq Slot /\ \A s \in LiveSlots : Busy(s)
    BY DEF LiveSlots, Live
  <1>3. Returned(LiveSlots)
    BY <1>2, RequeueFacts DEF Exit
  <1>4. QED
    BY <1>1, <1>3

(***************************************************************************)
(* The gateway's steps keep the invariant.                                 *)
(***************************************************************************)
LEMMA GatewayStep ==
  ASSUME IInv,
         \/ \E c \in Call : Start(c) \/ Timeout(c) \/ Transmit(c) \/ SendFails(c)
         \/ Disconnect \/ Connect \/ Shutdown
  PROVE  IInv'
  <1> USE DEF IInv
  <1>1. UNCHANGED <<handler, executed, answered>>
    BY DEF Start, Timeout, Transmit, SendFails, Disconnect, Connect, Shutdown, brokerVars
  <1>2. /\ replies' \in Seq(Reply) /\ In(replies') \subseteq In(replies)
        /\ reconnects' \in Nat /\ faults' \in Nat
    <2>1. replies' = replies \/ replies' = << >>
      BY DEF Start, Timeout, Transmit, SendFails, Disconnect, Connect, Shutdown
    <2>2. reconnects' \in Nat /\ faults' \in Nat
      <3>1. /\ reconnects' \in {reconnects, reconnects + 1}
            /\ faults' \in {faults, faults + 1}
        BY DEF Start, Timeout, Transmit, SendFails, Disconnect, Connect,
           Shutdown, LoseConnection, Fault
      <3>2. reconnects \in Nat /\ faults \in Nat
        BY DEF TypeOK
      <3>3. QED
        BY <3>1, <3>2
    <2>3. replies \in Seq(Reply)
      BY DEF TypeOK
    <2>4. QED
      BY <2>1, <2>2, <2>3, Emptied
  <1>3. Paired'
    BY <1>1, <1>2 DEF Paired
  <1>4. /\ requests' \in Seq(Request) /\ sent' \subseteq Call
        /\ \A m \in In(requests') : m \in In(requests) \/ m.id \in outbox
    <2>1. CASE UNCHANGED <<requests, sent>>
      BY <2>1 DEF TypeOK
    <2>2. CASE \E c \in outbox : Enqueue(c)
      BY <2>2, EnqueueFacts DEF TypeOK
    <2>3. QED
      BY <2>1, <2>2 DEF Start, Timeout, Transmit, SendFails, Disconnect, Connect, Shutdown
  <1>5. /\ status' \in [Call -> {"new", "waiting", "resolved", "rejected"}]
        /\ UNCHANGED result
        /\ \A c \in Call : status[c] # "new" => status'[c] # "new"
    BY DEF Start, Timeout, Transmit, SendFails, Disconnect, Connect, Shutdown,
       gatewayVars, TypeOK, Rejected
  <1>6. /\ pending' \subseteq Call /\ timers' \subseteq Call /\ outbox' \subseteq Call
        /\ \A c \in outbox' : status'[c] # "new"
        /\ replyTo' \in [Call -> Nat] /\ connected' \in BOOLEAN
        /\ closed' \in BOOLEAN /\ replyQueue' \in Nat /\ prefetch' \in Prefetch
    <2>1. \A c \in outbox : status[c] # "new" /\ status'[c] # "new"
      BY <1>5 DEF Started, TypeOK
    <2>2. ASSUME NEW c \in Call, Start(c)
          PROVE  /\ outbox' = outbox \cup {c} /\ status'[c] # "new"
                 /\ replyTo' \in [Call -> Nat]
                 /\ pending' \subseteq Call /\ timers' \subseteq Call
      BY <2>2 DEF Start, TypeOK
    <2>3. \/ \E c \in Call : Start(c)
          \/ /\ outbox' \subseteq outbox /\ UNCHANGED replyTo
             /\ pending' \subseteq pending /\ timers' \subseteq timers
      BY DEF Timeout, Transmit, SendFails, Disconnect, Connect, Shutdown,
         gatewayVars, Forget
    <2>4. connected' \in BOOLEAN /\ closed' \in BOOLEAN /\ replyQueue' \in Nat
      <3>1. /\ connected' \in {connected, TRUE, FALSE} /\ closed' \in {closed, TRUE}
            /\ replyQueue' \in {replyQueue, replyQueue + 1}
        BY DEF Start, Timeout, Transmit, SendFails, Disconnect, Connect,
           Shutdown, gatewayVars, linkVars
      <3>2. connected \in BOOLEAN /\ closed \in BOOLEAN /\ replyQueue \in Nat
        BY DEF TypeOK
      <3>3. connected' \in BOOLEAN /\ closed' \in BOOLEAN
        BY <3>1, <3>2, Zenon
      <3>4. replyQueue' \in Nat
        BY <3>1, <3>2
      <3>5. QED
        BY <3>3, <3>4
    <2>5. prefetch' \in Prefetch
      <3>1. UNCHANGED prefetch
        BY DEF Start, Timeout, Transmit, SendFails, Disconnect, Connect, Shutdown, linkVars
      <3>2. QED
        BY <3>1 DEF TypeOK
    <2>6. QED
      BY <2>1, <2>2, <2>3, <2>4, <2>5 DEF TypeOK
  <1>7. TypeOK'
    BY <1>1, <1>2, <1>4, <1>5, <1>6 DEF TypeOK
  <1>8. Started'
    <2>1. \A m \in In(requests) : m.id \in Call
      <3>1. requests \in Seq(Request)
        BY DEF TypeOK
      <3>2. QED
        BY <3>1, Members DEF Request
    <2>2. \A m \in In(requests') : status'[m.id] # "new"
      BY <2>1, <1>4, <1>5 DEF Started, TypeOK
    <2>3. \A s \in Slot : Busy(s)' => status'[handler'[s].id] # "new"
      BY <1>1, <1>5, WorkFields DEF Started, Busy
    <2>4. QED
      BY <1>6, <2>2, <2>3 DEF Started
  <1>9. PendingExact'
    <2>1. ASSUME NEW c \in Call, Start(c) PROVE PendingExact'
      BY <2>1 DEF Start, TypeOK, PendingExact
    <2>2. ASSUME NEW C \in SUBSET Call, Forget(C), Rejected(C) PROVE PendingExact'
      BY <2>2 DEF Forget, Rejected, TypeOK, PendingExact
    <2>3. CASE Shutdown
      BY <2>3 DEF Shutdown, Rejected, TypeOK, PendingExact
    <2>4. CASE UNCHANGED <<status, pending, timers>>
      BY <2>4 DEF PendingExact
    <2>5. QED
      BY <2>1, <2>2, <2>3, <2>4 DEF Timeout, Transmit, SendFails, Disconnect,
         Connect, gatewayVars
  <1>10. QED
    BY <1>3, <1>7, <1>8, <1>9

LEMMA ReplyStep ==
  ASSUME IInv, HandleReply
  PROVE  IInv'
  <1> USE DEF IInv
  <1> DEFINE m == Head(replies)
  <1>1. replies \in Seq(Reply) /\ replies # << >>
    BY DEF HandleReply, TypeOK
  <1>2. /\ replies' \in Seq(Reply) /\ In(replies') \subseteq In(replies)
        /\ m \in Reply /\ m \in In(replies)
    BY <1>1, Popped DEF HandleReply
  <1>3. m.id \in Call /\ m.answer \in Call
    BY <1>2 DEF Reply
  <1> HIDE DEF m
  <1>4. /\ UNCHANGED <<replyTo, closed, linkVars, outbox, requests, brokerVars,
                       sent, reconnects, faults>>
        /\ \/ /\ m.id \in pending /\ Forget({m.id})
              /\ status' = [status EXCEPT ![m.id] = "resolved"]
              /\ result' = [result EXCEPT ![m.id] = m.answer]
           \/ UNCHANGED <<status, result, pending, timers>>
    BY DEF HandleReply, m
  <1>5. TypeOK'
    BY <1>2, <1>3, <1>4 DEF TypeOK, Forget, linkVars, brokerVars
  <1>6. PendingExact'
    <2>1. CASE UNCHANGED <<status, pending, timers>>
      BY <2>1 DEF PendingExact
    <2>2. CASE Forget({m.id}) /\ status' = [status EXCEPT ![m.id] = "resolved"]
      <3>1. ASSUME NEW c \in Call
            PROVE  c \in pending' <=> status'[c] = "waiting"
        BY <1>3, <2>2 DEF PendingExact, Forget, TypeOK
      <3>2. pending' \subseteq Call /\ timers' = pending'
        BY <2>2 DEF PendingExact, Forget, TypeOK
      <3>3. QED
        BY <3>1, <3>2 DEF PendingExact
    <2>3. QED
      BY <1>4, <2>1, <2>2
  <1>7. Paired'
    BY <1>2, <1>4 DEF Paired, brokerVars
  <1>8. Started'
    <2>1. \A c \in Call : status[c] # "new" => status'[c] # "new"
      BY <1>3, <1>4 DEF TypeOK
    <2>2. \A n \in In(requests) : n.id \in Call
      <3>1. requests \in Seq(Request)
        BY DEF TypeOK
      <3>2. QED
        BY <3>1, Members DEF Request
    <2>3. \A s \in Slot : Busy(s) => handler[s].id \in Call
      BY WorkFields
    <2>4. \A c \in outbox : c \in Call
      BY DEF TypeOK
    <2>5. UNCHANGED <<outbox, requests, handler>>
      BY <1>4 DEF brokerVars
    <2>6. QED
      BY <2>1, <2>2, <2>3, <2>4, <2>5 DEF Started, Busy
  <1>9. QED
    BY <1>5, <1>6, <1>7, <1>8

(***************************************************************************)
(* The broker's steps keep the invariant.                                  *)
(***************************************************************************)
LEMMA TakeStep ==
  ASSUME IInv, NEW s \in Slot, Take(s)
  PROVE  IInv'
  <1> USE DEF IInv
  <1> DEFINE m == Head(requests)
             w == [pc |-> "execute", live |-> TRUE, id |-> m.id, replyTo |-> m.replyTo]
  <1>1. requests \in Seq(Request) /\ requests # << >>
    BY DEF Take, TypeOK
  <1>2. /\ requests' \in Seq(Request) /\ In(requests') \subseteq In(requests)
        /\ m \in Request /\ m \in In(requests)
    BY <1>1, Popped DEF Take
  <1>3. m.id \in Call /\ m.replyTo \in Nat /\ w \in Work
    BY <1>2 DEF Request, Work, Pc
  <1>4. /\ UNCHANGED <<brokerFrame, replies, executed, answered, reconnects, faults>>
        /\ handler' = [handler EXCEPT ![s] = w]
    BY DEF Take
  <1> HIDE DEF m
  <1>5. handler' \in [Slot -> Work] /\ handler'[s] = w
        /\ \A t \in Slot : t # s => handler'[t] = handler[t]
    BY <1>3, <1>4 DEF TypeOK
  <1>6. TypeOK'
    BY <1>2, <1>4, <1>5 DEF TypeOK, brokerFrame, gatewayVars, linkVars
  <1>7. PendingExact' /\ UNCHANGED <<status, outbox>>
    BY <1>4 DEF PendingExact, brokerFrame, gatewayVars
  <1>8. Started'
    BY <1>2, <1>5, <1>7 DEF Started, Busy
  <1>9. Paired'
    BY <1>4, <1>5 DEF Paired
  <1>10. QED
    BY <1>6, <1>7, <1>8, <1>9

(***************************************************************************)
(* A slot keeps its request over a step of the broker, and reaches a later *)
(* stage only with the request run.                                        *)
(***************************************************************************)
SlotsKeep ==
  /\ handler' \in [Slot -> Work]
  /\ \A t \in Slot : Busy(t)' =>
       /\ Busy(t) /\ handler'[t].id = handler[t].id
       /\ handler'[t].pc \in {"reply", "ack"} =>
            handler[t].pc \in {"reply", "ack"} \/ handler[t].id \in executed'

LEMMA SlotsKept ==
  ASSUME TypeOK,
         \/ \E s \in Slot : BrokerStep(s)
         \/ BrokerReconnect \/ BrokerCrash
  PROVE  SlotsKeep
  <1>1. CASE Exit
    BY <1>1, ExitFacts DEF SlotsKeep
  <1>2. ASSUME NEW s \in Slot, Busy(s), handler' = [handler EXCEPT ![s] = Idle]
        PROVE  SlotsKeep
    BY <1>2 DEF SlotsKeep, TypeOK, Work, Busy, Idle
  <1>3. ASSUME NEW s \in Slot, Execute(s) PROVE SlotsKeep
    <2>1. Busy(s) /\ Goto(s, "reply") /\ handler[s].id \in executed'
      BY <1>3 DEF Execute, Busy
    <2>2. QED
      BY <2>1, GotoFacts DEF SlotsKeep, Busy, Pc
  <1>4. ASSUME NEW s \in Slot, handler[s].pc = "reply", Goto(s, "ack") PROVE SlotsKeep
    <2>1. Busy(s)
      BY <1>4 DEF Busy
    <2>2. QED
      BY <1>4, <2>1, GotoFacts DEF SlotsKeep, Busy, Pc
  <1>5. CASE BrokerReconnect
    <2>1. handler' = [s \in Slot |->
                        IF Live(s) THEN [handler[s] EXCEPT !.live = FALSE] ELSE handler[s]]
      BY <1>5 DEF BrokerReconnect
    <2>2. ASSUME NEW s \in Slot
          PROVE  /\ handler'[s] \in Work /\ handler'[s].pc = handler[s].pc
                 /\ Busy(s) => handler'[s].id = handler[s].id
      <3>1. CASE Live(s)
        <4>1. Busy(s) /\ handler'[s] = [handler[s] EXCEPT !.live = FALSE]
          BY <2>1, <3>1 DEF Live
        <4>2. QED
          BY <4>1, WorkFields DEF Work
      <3>2. CASE ~Live(s)
        BY <2>1, <3>2 DEF TypeOK
      <3>3. QED
        BY <3>1, <3>2
    <2>3. handler' \in [Slot -> Work]
      BY <2>1, <2>2
    <2>4. QED
      BY <2>2, <2>3 DEF SlotsKeep, Busy
  <1>6. QED
    BY <1>1, <1>2, <1>3, <1>4, <1>5 DEF BrokerStep, ExecuteFails, SendReply,
       Ack, BrokerCrash, Live, Busy

LEMMA BrokerWorks ==
  ASSUME IInv,
         \/ \E s \in Slot : BrokerStep(s)
         \/ BrokerReconnect \/ BrokerCrash
  PROVE  IInv'
  <1> USE DEF IInv
  <1>1. UNCHANGED brokerFrame
    BY DEF BrokerStep, Execute, ExecuteFails, SendReply, Ack, BrokerReconnect,
       BrokerCrash
  <1>2. PendingExact' /\ UNCHANGED <<status, outbox>>
    BY <1>1 DEF PendingExact, brokerFrame, gatewayVars
  <1>3. /\ reconnects' \in Nat /\ faults' \in Nat
    <2>1. /\ reconnects' \in {reconnects, reconnects + 1}
          /\ faults' \in {faults, faults + 1}
      BY DEF BrokerStep, Execute, ExecuteFails, SendReply, Ack, BrokerReconnect,
         BrokerCrash, LoseConnection, Fault
    <2>2. reconnects \in Nat /\ faults \in Nat
      BY DEF TypeOK
    <2>3. QED
      BY <2>1, <2>2
  <1>4. SlotsKeep
    BY SlotsKept
  <1>5. /\ requests' \in Seq(Request)
        /\ \A m \in In(requests') :
             \/ m \in In(requests)
             \/ \E s \in Slot : Busy(s) /\ m.id = handler[s].id
    <2>1. CASE Exit
      BY <2>1, ExitFacts DEF Returned, LiveSlots, Live
    <2>2. CASE UNCHANGED requests
      BY <2>2 DEF TypeOK
    <2>3. ASSUME NEW S \in SUBSET Slot, \A s \in S : Busy(s), Requeue(S)
          PROVE  /\ requests' \in Seq(Request)
                 /\ \A m \in In(requests') :
                      \/ m \in In(requests)
                      \/ \E t \in Slot : Busy(t) /\ m.id = handler[t].id
      BY <2>3, RequeueFacts DEF Returned
    <2>4. ASSUME NEW s \in Slot, ExecuteFails(s)
          PROVE  Exit \/ (Busy(s) /\ Requeue({s}))
      BY <2>4 DEF ExecuteFails, Live
    <2>5. CASE BrokerReconnect
      <3>1. LiveSlots \in SUBSET Slot /\ (\A s \in LiveSlots : Busy(s)) /\ Requeue(LiveSlots)
        BY <2>5 DEF BrokerReconnect, LiveSlots, Live
      <3>2. QED
        BY <2>3, <3>1
    <2>6. ASSUME NEW s \in Slot, Busy(s), Requeue({s})
          PROVE  /\ requests' \in Seq(Request)
                 /\ \A m \in In(requests') :
                      \/ m \in In(requests)
                      \/ \E t \in Slot : Busy(t) /\ m.id = handler[t].id
      BY <2>3, <2>6
    <2>7. ASSUME NEW s \in Slot, Execute(s) \/ SendReply(s) \/ Ack(s)
          PROVE  Exit \/ UNCHANGED requests
      BY <2>7 DEF Execute, SendReply, Ack
    <2>8. QED
      BY <2>1, <2>2, <2>4, <2>5, <2>6, <2>7 DEF BrokerStep, BrokerCrash
  <1>6. /\ executed \subseteq executed' /\ executed' \subseteq Call
        /\ answered' \subseteq Call
    <2>1. \E s \in Slot : Busy(s) /\ /\ executed' \subseteq executed \cup {handler[s].id}
                                    /\ answered' \subseteq answered \cup {handler[s].id}
      <3>1. CASE \E s \in Slot : BrokerStep(s)
        BY <3>1 DEF BrokerStep, Execute, ExecuteFails, SendReply, Ack, Busy
      <3>2. CASE BrokerReconnect \/ BrokerCrash
        <4>1. UNCHANGED <<executed, answered>> /\ \E s \in Slot : Busy(s)
          BY <3>2 DEF BrokerReconnect, BrokerCrash, LiveSlots, Live
        <4>2. QED
          BY <4>1
      <3>3. QED
        BY <3>1, <3>2
    <2>2. executed \subseteq executed'
      BY DEF BrokerStep, Execute, ExecuteFails, SendReply, Ack, BrokerReconnect,
         BrokerCrash
    <2>3. QED
      BY <2>1, <2>2, WorkFields DEF TypeOK
  <1>7. /\ replies' \in Seq(Reply)
        /\ \A m \in In(replies') : m \in In(replies) \/ (m.answer = m.id /\ m.id \in executed)
    <2>1. CASE UNCHANGED replies
      BY <2>1 DEF TypeOK
    <2>2. ASSUME NEW s \in Slot, handler[s].pc = "reply",
                 replies' = Append(replies, [id |-> handler[s].id, answer |-> handler[s].id])
          PROVE  /\ replies' \in Seq(Reply)
                 /\ \A m \in In(replies') :
                      m \in In(replies) \/ (m.answer = m.id /\ m.id \in executed)
      <3> DEFINE r == [id |-> handler[s].id, answer |-> handler[s].id]
      <3>1. Busy(s) /\ handler[s].id \in executed
        BY <2>2 DEF Busy, Paired
      <3>2. r \in Reply /\ replies \in Seq(Reply)
        BY <3>1, WorkFields DEF Reply, TypeOK
      <3>3. r.id \in executed /\ r.answer = r.id
        BY <3>1
      <3> HIDE DEF r
      <3>4. replies' = Append(replies, r)
        BY <2>2 DEF r
      <3>5. QED
        BY <3>2, <3>3, <3>4, Appended
    <2>3. QED
      BY <2>1, <2>2 DEF BrokerStep, Execute, ExecuteFails, SendReply, Ack,
         BrokerReconnect, BrokerCrash
  <1>8. TypeOK'
    BY <1>1, <1>3, <1>4, <1>5, <1>6, <1>7 DEF TypeOK, SlotsKeep, brokerFrame,
       gatewayVars, linkVars
  <1>9. Started'
    BY <1>2, <1>4, <1>5 DEF Started, SlotsKeep
  <1>10. Paired'
    <2>1. \A m \in In(replies') : m.answer = m.id /\ m.id \in executed'
      BY <1>6, <1>7 DEF Paired
    <2>2. ASSUME NEW t \in Slot, handler'[t].pc \in {"reply", "ack"}
          PROVE  handler'[t].id \in executed'
      <3>1. Busy(t)'
        BY <2>2 DEF Busy
      <3>2. QED
        BY <3>1, <2>2, <1>4, <1>6 DEF SlotsKeep, Paired
    <2>3. QED
      BY <2>1, <2>2 DEF Paired
  <1>11. QED
    BY <1>2, <1>8, <1>9, <1>10

LEMMA InitIInv == ASSUME Init PROVE IInv
  <1>1. TypeOK
    <2>1. requests \in Seq(Request) /\ replies \in Seq(Reply)
      BY Emptied DEF Init
    <2>2. connected \in BOOLEAN /\ closed \in BOOLEAN
      BY DEF Init
    <2>3. handler \in [Slot -> Work]
      BY DEF Init, Work
    <2>4. QED
      BY <2>1, <2>2, <2>3 DEF Init, TypeOK
  <1>2. QED
    BY <1>1, Emptied DEF Init, IInv, PendingExact, Started, Paired, Busy, Idle

LEMMA IInvStep == IInv /\ [Next]_vars => IInv'
  <1>1. CASE UNCHANGED vars
    BY <1>1 DEF vars, IInv, TypeOK, PendingExact, Started, Paired, Busy
  <1>2. QED
    BY <1>1, GatewayStep, ReplyStep, TakeStep, BrokerWorks DEF Next

THEOREM Inductive == Spec => []IInv
  BY InitIInv, IInvStep, PTL DEF Spec

(***************************************************************************)
(* Every variable keeps its type: what a promise settles with is the       *)
(* answer to a call, and the service runs within one of its limits.        *)
(***************************************************************************)
THEOREM TypeCorrect == Spec => []TypeOK
  <1>1. IInv => TypeOK
    BY DEF IInv
  <1>2. QED
    BY <1>1, Inductive, PTL

(***************************************************************************)
(* The pending map, the timers and the waiting promises never disagree.    *)
(***************************************************************************)
THEOREM PendingHolds == Spec => []PendingExact
  <1>1. IInv => PendingExact
    BY DEF IInv
  <1>2. QED
    BY <1>1, Inductive, PTL

(***************************************************************************)
(* The refinement: a gateway or broker step is a step of RpcCalls or       *)
(* leaves status, result and executed alone.                               *)
(***************************************************************************)
LEMMA CallsStep ==
  ASSUME IInv, [Next]_vars
  PROVE  [Calls!Next]_(Calls!vars)
  <1> USE DEF IInv
  <1>1. ASSUME NEW c \in Call, Start(c) PROVE Calls!Start(c)
    BY <1>1 DEF Start, Calls!Start, brokerVars
  <1>2. ASSUME NEW C \in SUBSET Call, Rejected(C), UNCHANGED <<result, executed>>
        PROVE  \E D \in SUBSET Call : Calls!Reject(D)
    <2>1. Calls!Reject({c \in C : status[c] = "waiting"})
      BY <1>2 DEF Rejected, Calls!Reject
    <2>2. QED
      BY <2>1
  <1>3. CASE HandleReply
    <2> DEFINE m == Head(replies)
    <2>1. replies \in Seq(Reply) /\ replies # << >>
      BY <1>3 DEF HandleReply, TypeOK
    <2>2. m \in Reply /\ m \in In(replies)
      BY <2>1, Popped
    <2>3. m.id \in Call /\ m.answer = m.id /\ m.id \in executed
      BY <2>2 DEF Reply, Paired
    <2>4. CASE m.id \in pending
      <3>1. status[m.id] = "waiting"
        BY <2>4 DEF PendingExact
      <3>2. Calls!Resolve(m.id)
        BY <1>3, <2>3, <2>4, <3>1 DEF HandleReply, Calls!Resolve, brokerVars
      <3>3. QED
        BY <2>3, <3>2 DEF Calls!Next
    <2>5. CASE m.id \notin pending
      BY <1>3, <2>5 DEF HandleReply, brokerVars, Calls!vars
    <2>6. QED
      BY <2>4, <2>5
  <1>4. ASSUME NEW s \in Slot, BrokerStep(s)
        PROVE  \/ \E c \in Call : Calls!Execute(c)
               \/ UNCHANGED Calls!vars
    <2>1. /\ Busy(s) /\ UNCHANGED <<status, result>>
          /\ executed' = executed \/ executed' = executed \cup {handler[s].id}
      BY <1>4 DEF BrokerStep, Execute, ExecuteFails, SendReply, Ack, Busy,
         brokerFrame, gatewayVars
    <2>2. handler[s].id \in Call /\ status[handler[s].id] # "new"
      BY <2>1, WorkFields DEF Started
    <2>3. QED
      BY <2>1, <2>2 DEF Calls!Execute, Calls!vars
  <1>5. CASE UNCHANGED <<status, result, executed>>
    BY <1>5 DEF Calls!vars
  <1>6. \/ \E c \in Call : Start(c)
        \/ \E C \in SUBSET Call : Rejected(C) /\ UNCHANGED <<result, executed>>
        \/ HandleReply
        \/ \E s \in Slot : BrokerStep(s)
        \/ UNCHANGED <<status, result, executed>>
    <2>1. ASSUME NEW c \in Call, Timeout(c) \/ SendFails(c)
          PROVE  Rejected({c}) /\ UNCHANGED <<result, executed>>
      BY <2>1 DEF Timeout, SendFails, brokerVars
    <2>2. CASE Shutdown
      BY <2>2 DEF Shutdown, brokerVars, TypeOK
    <2>3. ASSUME NEW c \in Call, Transmit(c) PROVE UNCHANGED <<status, result, executed>>
      BY <2>3 DEF Transmit, gatewayVars, brokerVars
    <2>4. CASE Disconnect \/ Connect \/ BrokerReconnect \/ BrokerCrash \/ UNCHANGED vars
      BY <2>4 DEF Disconnect, Connect, BrokerReconnect, BrokerCrash, gatewayVars,
         brokerVars, brokerFrame, vars
    <2>5. ASSUME NEW s \in Slot, Take(s) PROVE UNCHANGED <<status, result, executed>>
      BY <2>5 DEF Take, brokerFrame, gatewayVars
    <2>6. QED
      BY <2>1, <2>2, <2>3, <2>4, <2>5 DEF Next
  <1>7. QED
    BY <1>1, <1>2, <1>3, <1>4, <1>5, <1>6 DEF Calls!Next

(***************************************************************************)
(* The gateway's remote calls implement RpcCalls.                          *)
(***************************************************************************)
THEOREM Refinement == Spec => CallsSpec
  <1>1. Init => Calls!Init
    BY DEF Init, Calls!Init
  <1>2. IInv /\ [Next]_vars => [Calls!Next]_(Calls!vars)
    BY CallsStep
  <1>3. QED
    BY <1>1, <1>2, Inductive, PTL DEF Spec, CallsSpec, Calls!Spec

(***************************************************************************)
(* No request is lost.  Kept(c): RequestsSurvive for one call, with the    *)
(* queue as a set.  The invariant is not inductive by itself: a slot that  *)
(* acknowledges must have answered.                                        *)
(***************************************************************************)
Kept(c) ==
  \/ c \in answered
  \/ \E m \in In(requests) : m.id = c
  \/ \E s \in Slot : Live(s) /\ handler[s].id = c

AnsweredFirst == \A s \in Slot : handler[s].pc = "ack" => handler[s].id \in answered

Survival == AnsweredFirst /\ \A c \in sent : Kept(c)

LEMMA KeptIsSurvival == RequestsSurvive <=> \A c \in sent : Kept(c)
  <1>1. \A c : (\E m \in In(requests) : m.id = c) <=> \E i \in 1..Len(requests) : requests[i].id = c
    BY DEF In
  <1>2. QED
    BY <1>1 DEF RequestsSurvive, Kept

LEMMA Headed ==
  ASSUME NEW S, NEW q \in Seq(S), q # << >>
  PROVE  In(q) \subseteq {Head(q)} \cup In(Tail(q))
  <1>1. /\ Len(Tail(q)) = Len(q) - 1 /\ Len(q) \in Nat \ {0} /\ Head(q) = q[1]
        /\ \A i \in 1..Len(Tail(q)) : Tail(q)[i] = q[i + 1]
    OBVIOUS
  <1>2. ASSUME NEW i \in 1..Len(q), i # 1 PROVE q[i] \in In(Tail(q))
    <2>1. i - 1 \in 1..Len(Tail(q)) /\ Tail(q)[i - 1] = q[i]
      BY <1>1, <1>2
    <2>2. QED
      BY <2>1 DEF In
  <1>3. QED
    BY <1>1, <1>2 DEF In

\* The other half of RequeueFacts: nothing goes missing.
LEMMA NothingMissing ==
  ASSUME TypeOK, NEW S \in SUBSET Slot, \A s \in S : Busy(s), Requeue(S)
  PROVE  /\ In(requests) \subseteq In(requests')
         /\ \A s \in S : \E m \in In(requests') : m.id = handler[s].id
  <1>1. Cardinality(S) \in Nat
    BY RpcAssumption, FS_Subset, FS_CardinalityType
  <1>2. PICK f \in [1..Cardinality(S) -> S] :
          /\ {f[i] : i \in DOMAIN f} = S
          /\ requests' = [i \in DOMAIN f |-> Delivery(f[i])] \o requests
    BY DEF Requeue
  <1> DEFINE p == [i \in 1..Cardinality(S) |-> Delivery(f[i])]
  <1>3. \A s \in S : Delivery(s) \in Request /\ Delivery(s).id = handler[s].id
    BY WorkFields DEF Delivery, Request
  <1>4. DOMAIN f = 1..Cardinality(S) /\ Len(p) = Cardinality(S)
    BY <1>1, <1>2
  <1>5. p \in Seq(Request) /\ requests' = p \o requests
    <2>1. p \in [1..Cardinality(S) -> Request]
      BY <1>2, <1>3
    <2>2. p \in Seq(Request)
      BY <1>1, <2>1
    <2>3. QED
      BY <1>2, <1>4, <2>2
  <1>6. \A s \in S : Delivery(s) \in In(p)
    BY <1>2, <1>4 DEF In
  <1> HIDE DEF p
  <1>7. In(requests') = In(p) \cup In(requests)
    BY <1>5, Pushed DEF TypeOK
  <1>8. QED
    BY <1>3, <1>6, <1>7

\* What the process held goes back to the queue.
LEMMA ExitKeeps ==
  ASSUME TypeOK, Survival, Exit, UNCHANGED sent, answered \subseteq answered'
  PROVE  Survival'
  <1>1. \A s \in Slot : handler'[s].pc = "idle" /\ ~Live(s)'
    BY ExitFacts DEF Live
  <1>2. /\ In(requests) \subseteq In(requests')
        /\ \A s \in LiveSlots : \E m \in In(requests') : m.id = handler[s].id
    <2>1. LiveSlots \in SUBSET Slot /\ (\A s \in LiveSlots : Busy(s)) /\ Requeue(LiveSlots)
      BY DEF Exit, LiveSlots, Live
    <2>2. QED
      BY <2>1, NothingMissing
  <1>3. ASSUME NEW c \in sent PROVE Kept(c)'
    BY <1>2, <1>3 DEF Survival, Kept, LiveSlots
  <1>4. QED
    BY <1>1, <1>3 DEF Survival, AnsweredFirst

\* A step that leaves the queue as it is and each slot on its request.
LEMMA SlotMoves ==
  ASSUME TypeOK, Survival, UNCHANGED <<requests, sent>>, answered \subseteq answered',
         \A t \in Slot :
           /\ handler'[t].pc = "ack" => handler'[t].id \in answered'
           /\ Live(t) => \/ Live(t)' /\ handler'[t].id = handler[t].id
                         \/ handler[t].id \in answered
  PROVE  Survival'
  <1>1. ASSUME NEW c \in sent PROVE Kept(c)'
    BY <1>1 DEF Survival, Kept
  <1>2. QED
    BY <1>1 DEF Survival, AnsweredFirst

LEMMA GatewayKeeps ==
  ASSUME IInv, Survival,
         \/ \E c \in Call : Start(c) \/ Timeout(c) \/ Transmit(c) \/ SendFails(c)
         \/ HandleReply \/ Disconnect \/ Connect \/ Shutdown
  PROVE  Survival'
  <1> USE DEF IInv
  <1>1. UNCHANGED brokerVars
    BY DEF Start, Timeout, Transmit, SendFails, HandleReply, Disconnect, Connect, Shutdown
  <1>2. \/ UNCHANGED <<requests, sent>>
        \/ \E c \in Call : Enqueue(c)
    <2>1. \A c \in outbox : c \in Call
      BY DEF TypeOK
    <2>2. QED
      BY <2>1 DEF Start, Timeout, Transmit, SendFails, HandleReply, Disconnect, Connect,
         Shutdown
  <1>3. CASE UNCHANGED <<requests, sent>>
    BY <1>1, <1>3 DEF Survival, AnsweredFirst, Kept, Live, Busy, brokerVars
  <1>4. ASSUME NEW c \in Call, Enqueue(c) PROVE Survival'
    <2> DEFINE m == [id |-> c, replyTo |-> replyTo[c]]
    <2>1. m \in Request /\ requests \in Seq(Request) /\ m.id = c
      BY DEF TypeOK, Request
    <2>2. requests' = Append(requests, m) /\ sent' = sent \cup {c}
      BY <1>4 DEF Enqueue
    <2> HIDE DEF m
    <2>3. In(requests') = In(requests) \cup {m}
      BY <2>1, <2>2, Appended
    <2>4. ASSUME NEW d \in sent' PROVE Kept(d)'
      BY <1>1, <2>1, <2>2, <2>3, <2>4 DEF Survival, Kept, Live, Busy, brokerVars
    <2>5. QED
      BY <1>1, <2>4 DEF Survival, AnsweredFirst, brokerVars
  <1>5. QED
    BY <1>2, <1>3, <1>4

LEMMA TakeKeeps ==
  ASSUME IInv, Survival, NEW s \in Slot, Take(s)
  PROVE  Survival'
  <1> USE DEF IInv
  <1> DEFINE m == Head(requests)
             w == [pc |-> "execute", live |-> TRUE, id |-> m.id, replyTo |-> m.replyTo]
  <1>1. /\ requests \in Seq(Request) /\ requests # << >> /\ ~Busy(s)
        /\ requests' = Tail(requests) /\ handler' = [handler EXCEPT ![s] = w]
        /\ UNCHANGED <<sent, answered>>
    BY DEF Take, TypeOK, brokerFrame
  <1>2. In(requests) \subseteq {m} \cup In(requests')
    BY <1>1, Headed
  <1> HIDE DEF m
  <1>3. /\ handler'[s] = w /\ Live(s)' /\ handler'[s].id = m.id
        /\ \A t \in Slot : t # s => handler'[t] = handler[t]
    BY <1>1 DEF TypeOK, Live, Busy
  <1>4. ASSUME NEW c \in sent PROVE Kept(c)'
    <2>1. CASE \E t \in Slot : Live(t) /\ handler[t].id = c
      <3>1. PICK t \in Slot : Live(t) /\ handler[t].id = c
        BY <2>1
      <3>2. t # s
        BY <1>1, <3>1 DEF Live
      <3>3. QED
        BY <1>3, <3>1, <3>2 DEF Kept, Live, Busy
    <2>2. QED
      BY <1>1, <1>2, <1>3, <1>4, <2>1 DEF Survival, Kept
  <1>5. AnsweredFirst'
    BY <1>1, <1>3 DEF Survival, AnsweredFirst
  <1>6. QED
    BY <1>1, <1>4, <1>5 DEF Survival

LEMMA BrokerKeeps ==
  ASSUME IInv, Survival,
         \/ \E s \in Slot : BrokerStep(s)
         \/ BrokerReconnect \/ BrokerCrash
  PROVE  Survival'
  <1> USE DEF IInv
  <1>1. UNCHANGED sent /\ answered \subseteq answered'
    BY DEF BrokerStep, Execute, ExecuteFails, SendReply, Ack, BrokerReconnect,
       BrokerCrash, brokerFrame
  <1>2. CASE Exit
    BY <1>1, <1>2, ExitKeeps
  <1>3. ASSUME NEW s \in Slot, Execute(s) PROVE Survival'
    <2>1. Busy(s) /\ Goto(s, "reply") /\ UNCHANGED <<requests, answered>>
      BY <1>3 DEF Execute, Busy
    <2>2. /\ handler'[s].pc = "reply" /\ handler'[s].id = handler[s].id
          /\ \A t \in Slot : t # s => handler'[t] = handler[t]
      BY <2>1, GotoFacts DEF Pc
    <2>3. handler'[s].live = handler[s].live
      BY <2>1, WorkFields DEF Goto, TypeOK
    <2>4. QED
      BY <1>1, <2>1, <2>2, <2>3, SlotMoves DEF Live, Busy, Survival, AnsweredFirst
  <1>4. ASSUME NEW s \in Slot, SendReply(s), ~Exit PROVE Survival'
    <2>1. /\ Busy(s) /\ Goto(s, "ack") /\ UNCHANGED requests
          /\ answered' = answered \cup {handler[s].id}
      BY <1>4 DEF SendReply, Busy
    <2>2. /\ handler'[s].id = handler[s].id /\ handler'[s].pc = "ack"
          /\ \A t \in Slot : t # s => handler'[t] = handler[t]
      BY <2>1, GotoFacts DEF Pc
    <2>3. handler'[s].live = handler[s].live
      BY <2>1, WorkFields DEF Goto, TypeOK
    <2>4. QED
      BY <1>1, <2>1, <2>2, <2>3, SlotMoves DEF Live, Busy, Survival, AnsweredFirst
  <1>5. ASSUME NEW s \in Slot, Ack(s), ~Exit PROVE Survival'
    <2>1. /\ handler[s].pc = "ack" /\ handler' = [handler EXCEPT ![s] = Idle]
          /\ UNCHANGED <<requests, answered>>
      BY <1>5 DEF Ack
    <2>2. /\ handler'[s].pc = "idle" /\ handler[s].id \in answered
          /\ \A t \in Slot : t # s => handler'[t] = handler[t]
      BY <2>1 DEF TypeOK, Idle, Survival, AnsweredFirst
    <2>3. QED
      BY <1>1, <2>1, <2>2, SlotMoves DEF Live, Busy, Survival, AnsweredFirst
  <1>6. ASSUME NEW s \in Slot, ExecuteFails(s), ~Exit PROVE Survival'
    <2>1. /\ Busy(s) /\ Requeue({s}) /\ handler' = [handler EXCEPT ![s] = Idle]
          /\ UNCHANGED answered
      BY <1>6 DEF ExecuteFails, Live
    <2>2. /\ In(requests) \subseteq In(requests')
          /\ \E m \in In(requests') : m.id = handler[s].id
      <3>1. {s} \in SUBSET Slot /\ \A t \in {s} : Busy(t)
        BY <2>1
      <3>2. QED
        BY <2>1, <3>1, NothingMissing
    <2>3. /\ handler'[s].pc = "idle"
          /\ \A t \in Slot : t # s => handler'[t] = handler[t]
      BY <2>1 DEF TypeOK, Idle
    <2>4. ASSUME NEW c \in sent PROVE Kept(c)'
      BY <2>1, <2>2, <2>3, <2>4 DEF Survival, Kept, Live, Busy
    <2>5. QED
      BY <1>1, <2>1, <2>3, <2>4 DEF Survival, AnsweredFirst
  <1>7. CASE BrokerReconnect
    <2>1. /\ Requeue(LiveSlots) /\ UNCHANGED answered
          /\ handler' = [s \in Slot |->
               IF Live(s) THEN [handler[s] EXCEPT !.live = FALSE] ELSE handler[s]]
      BY <1>7 DEF BrokerReconnect
    <2>2. /\ In(requests) \subseteq In(requests')
          /\ \A s \in LiveSlots : \E m \in In(requests') : m.id = handler[s].id
      <3>1. LiveSlots \in SUBSET Slot /\ \A s \in LiveSlots : Busy(s)
        BY DEF LiveSlots, Live
      <3>2. QED
        BY <2>1, <3>1, NothingMissing
    <2>3. ASSUME NEW c \in sent PROVE Kept(c)'
      BY <2>1, <2>2, <2>3 DEF Survival, Kept, LiveSlots
    <2>4. ASSUME NEW s \in Slot, handler'[s].pc = "ack" PROVE handler'[s].id \in answered'
      <3>1. CASE Live(s)
        <4>1. handler'[s] = [handler[s] EXCEPT !.live = FALSE] /\ Busy(s)
          BY <2>1, <3>1 DEF Live
        <4>2. handler'[s].pc = handler[s].pc /\ handler'[s].id = handler[s].id
          BY <4>1, WorkFields
        <4>3. QED
          BY <2>1, <2>4, <4>2 DEF Survival, AnsweredFirst
      <3>2. CASE ~Live(s)
        BY <2>1, <2>4, <3>2 DEF Survival, AnsweredFirst
      <3>3. QED
        BY <3>1, <3>2
    <2>5. QED
      BY <1>1, <2>3, <2>4 DEF Survival, AnsweredFirst
  <1>8. QED
    BY <1>2, <1>3, <1>4, <1>5, <1>6, <1>7 DEF BrokerStep, BrokerCrash

(***************************************************************************)
(* A request that RabbitMQ took is never lost: whatever crashes and in     *)
(* whatever order RabbitMQ requeues, it is queued, worked on or answered.  *)
(***************************************************************************)
THEOREM NoRequestLost == Spec => []RequestsSurvive
  <1>1. Init => Survival
    BY DEF Init, Survival, AnsweredFirst, Idle
  <1>2. IInv /\ Survival /\ [Next]_vars => Survival'
    <2>1. CASE UNCHANGED vars
      BY <2>1 DEF vars, Survival, AnsweredFirst, Kept, Live, Busy
    <2>2. QED
      BY <2>1, GatewayKeeps, TakeKeeps, BrokerKeeps DEF Next
  <1>3. Survival => RequestsSurvive
    BY KeptIsSurvival DEF Survival
  <1>4. QED
    BY <1>1, <1>2, <1>3, Inductive, PTL DEF Spec

(***************************************************************************)
(* The config service: its statements leave the calls alone, so every      *)
(* behaviour of the service is one of the calls.                           *)
(***************************************************************************)
LEMMA StatementsApart ==
  ASSUME NEW w, Statement(w) PROVE UNCHANGED vars
  BY DEF Statement, FindCode, DrawCode, FindReferrer, LookUpCode, FindFaucet, FindWallet,
     SelectRow, WriteRow, InsertRow, Count, Delete, Demote, InsertBadge

LEMMA ComposedStep == [ConfigNext]_allVars => [Next]_vars
  <1>1. CASE UNCHANGED allVars
    BY <1>1 DEF allVars
  <1>2. CASE Gateway
    BY <1>2 DEF Gateway, Next
  <1>3. CASE Crash \/ \E c \in Call : Expire(c)
    BY <1>3 DEF Crash, Expire, Next
  <1>4. ASSUME NEW s \in Slot, TakeRequest(s) \/ Respond(s) PROVE Next
    BY <1>4 DEF TakeRequest, Respond, Next
  <1>5. ASSUME NEW w \in Worker, Statement(w) PROVE UNCHANGED vars
    BY <1>5, StatementsApart
  <1>6. QED
    BY <1>1, <1>2, <1>3, <1>4, <1>5 DEF ConfigNext

(***************************************************************************)
(* Whatever its tables hold and its handlers do, the config service is one *)
(* of GatewayRpc's services.                                               *)
(***************************************************************************)
THEOREM Composition == ConfigSpec => Spec
  <1>1. ConfigInit => Init
    BY DEF ConfigInit
  <1>2. QED
    BY <1>1, ComposedStep, PTL DEF ConfigSpec, Spec

(***************************************************************************)
(* With statements side by side and handlers that run again, no request is *)
(* lost, the pending map stays exact and each answer reaches its caller.   *)
(***************************************************************************)
THEOREM ComposedSafety ==
  ConfigSpec => [](TypeOK /\ PendingExact /\ RequestsSurvive) /\ CallsSpec
  BY Composition, TypeCorrect, PendingHolds, NoRequestLost, Refinement, PTL

-----------------------------------------------------------------------------
(***************************************************************************)
(* Tasks: where an operation can be, and what it holds there.  Unwritten:  *)
(* a key that is held was seen without its row, or without an active       *)
(* badge, and still is so unless it is raced.  Recorded(x): the calls that *)
(* have added 1 to column x of the banner, answered or about to be.        *)
(***************************************************************************)
GetsCode(op) == op.of \in {"getCode", "provision"}

TaskOk(t) ==
  /\ DOMAIN t = DOMAIN NoTask /\ t.op \in Operation
  /\ t.step = "draw" => GetsCode(t.op) /\ t.key = Target(t.op)
  /\ t.step \in {"select", "write"} =>
       /\ t.key = Target(t.op)
       /\ \/ GetsCode(t.op) /\ t.entity \in CodeRow
          \/ t.op.of = "register" /\ t.entity \in FaucetRow
          \/ t.op.of = "watch"
  /\ t.step = "lookup" => t.op.of = "claim"
  /\ t.step = "insert" =>
       \/ t.op.of = "claim" /\ t.key = Target(t.op) /\ t.entity \in RelationRow
       \/ t.op.of = "watch" /\ t.key = Wallet
       \/ t.op.of \in {"tier", "provision"} /\ t.key = Tier(t.op.address)
  /\ t.step = "demote" => t.op.of \in {"tier", "provision"}
  /\ t.op.of = "count" => t.step \in {"count", "done"}

Tasks ==
  /\ DOMAIN task = Worker /\ \A w \in Worker : TaskOk(task[w])
  /\ \A s \in Slot : Busy(s) => task[s].op = scenario.ops[handler[s].id]

Unwritten(k) ==
  /\ k[1] \in {"code", "faucet"} => Row(k) = NoRow \/ k \in raced
  /\ k[1] = "tier" => k = Tier(k[2]) /\ (Badges(k[2]) = {} \/ k \in raced)

SingleBadge ==
  \A j, k \in DOMAIN rows :
    ActiveBadge(rows, j) /\ ActiveBadge(rows, k) /\ rows[j].address = rows[k].address
      /\ Tier(rows[j].address) \notin raced => j = k

IsKept(t) ==
  /\ t.key[1] \in {"code", "faucet", "relation"}
  /\ t.key \notin raced \/ t.key[1] = "relation" =>
       Row(t.key) # NoRow /\ \A c \in DOMAIN t.row : rows[t.key][c] = t.row[c]

Recorded(x) ==
  {c \in Call :
     /\ scenario.ops[c] = [of |-> "count", column |-> x]
     /\ c \in answered \/ \E s \in Slot : Busy(s) /\ handler[s].id = c /\ At(s, "done")}

Counted ==
  Banner \in DOMAIN rows =>
    \A x \in DOMAIN rows[Banner] :
      IsFiniteSet(Recorded(x)) /\ Cardinality(Recorded(x)) <= rows[Banner][x]

ServiceInv ==
  /\ scenario \in Scenarios /\ Tasks /\ \A w \in Worker : Unwritten(task[w].key)
  /\ IsTable(rows) /\ SingleBadge /\ (\A t \in told : IsKept(t)) /\ Counted

-----------------------------------------------------------------------------
(* Rows, and what the statements do to a task.                             *)

LEMMA Patch ==
  ASSUME NEW entity, NEW row
  PROVE  LET patch == DB!Difference(entity, row) IN
         /\ DOMAIN patch \subseteq DOMAIN entity
         /\ \A c \in DOMAIN patch : patch[c] = entity[c]
         /\ row = NoRow => patch = entity
  BY DEF DB!Difference, DB!Changed

\* A single column is written whole.
LEMMA OneColumn ==
  ASSUME NEW e, e \in CodeRow \/ e \in FaucetRow, NEW row,
         DOMAIN DB!Difference(e, row) # {}
  PROVE  DB!Over(Id(e), DB!Difference(e, row)) = e
<1> DEFINE patch == DB!Difference(e, row)
<1>1. \E c : DOMAIN e = {c} /\ c # "id"
  BY DEF CodeRow, FaucetRow
<1>2. DOMAIN patch = DOMAIN e /\ \A c \in DOMAIN e : patch[c] = e[c]
  BY <1>1, Patch
<1>3. DOMAIN Id(e) = {}
  BY <1>1 DEF Id
<1> HIDE DEF patch
<1>4. DB!Over(Id(e), patch) = [c \in DOMAIN e |-> e[c]]
  BY <1>2, <1>3 DEF DB!Over
<1>5. e = [c \in DOMAIN e |-> e[c]]
  BY DEF CodeRow, FaucetRow
<1> QED
  BY <1>4, <1>5 DEF patch

\* w goes on, the others stay where they are.
Moves(w) ==
  /\ DOMAIN task' = Worker /\ \A b \in Worker \ {w} : task'[b] = task[b]
  /\ DOMAIN task'[w] = DOMAIN NoTask /\ task'[w].op = task[w].op

LEMMA Finished ==
  ASSUME Tasks, NEW w \in Worker, Finish(w)
  PROVE  Moves(w) /\ task'[w].step = "done" /\ task'[w].key = NoKey
  BY DEF Tasks, TaskOk, Finish, Moves, NoTask

LEMMA Looked ==
  ASSUME Tasks, NEW w \in Worker, NEW step, NEW entity, Look(w, step, entity)
  PROVE  /\ Moves(w) /\ task'[w].step = step /\ task'[w].key = Target(Op(w))
         /\ task'[w].entity = entity
  BY DEF Tasks, TaskOk, Look, Moves, NoTask

LEMMA CodeWasKnown ==
  ASSUME Tasks, NEW w \in Worker, CodeKnown(w)
  PROVE  /\ Moves(w) /\ task'[w].key = NoKey
         /\ \/ task'[w].step = "done"
            \/ task'[w].step = "demote" /\ Op(w).of = "provision"
<1>1. CASE Op(w).of = "provision" /\ Op(w).tier # "NONE"
  BY <1>1 DEF Tasks, TaskOk, CodeKnown, Moves, NoTask
<1>2. CASE ~(Op(w).of = "provision" /\ Op(w).tier # "NONE")
  BY <1>2, Finished DEF CodeKnown
<1> QED
  BY <1>1, <1>2

LEMMA TasksMove ==
  ASSUME Tasks, NEW w \in Worker, Moves(w), TaskOk(task'[w]), UNCHANGED <<vars, scenario>>
  PROVE  Tasks'
<1>1. UNCHANGED handler
  BY DEF vars
<1>2. ASSUME NEW s \in Slot, Busy(s)' PROVE task'[s].op = scenario'.ops[handler'[s].id]
  <2>1. Busy(s) /\ s \in Worker
    BY <1>1, <1>2 DEF Busy, Worker
  <2> QED
    BY <1>1, <2>1 DEF Tasks, Moves
<1>3. \A b \in Worker : TaskOk(task'[b])
  BY DEF Tasks, Moves
<1> QED
  BY <1>2, <1>3 DEF Tasks, Moves, TaskOk

-----------------------------------------------------------------------------
(* What each kind of step keeps of the invariant.                          *)

\* A set of at most one more element.
LEMMA LargerByOne ==
  ASSUME NEW S, IsFiniteSet(S), NEW x, NEW R, R \subseteq S \cup {x}
  PROVE  /\ IsFiniteSet(R) /\ Cardinality(S) \in Nat /\ Cardinality(R) \in Nat
         /\ Cardinality(R) <= Cardinality(S) + 1
<1>1. /\ IsFiniteSet(S \cup {x}) /\ Cardinality(S \cup {x}) <= Cardinality(S) + 1
      /\ Cardinality(S) \in Nat /\ Cardinality(S \cup {x}) \in Nat
  BY FS_AddElement, FS_CardinalityType
<1>2. /\ IsFiniteSet(R) /\ Cardinality(R) \in Nat
      /\ Cardinality(R) <= Cardinality(S \cup {x})
  BY <1>1, FS_Subset, FS_CardinalityType
<1> QED
  BY <1>1, <1>2

LEMMA RecordedStays ==
  ASSUME Tasks, NEW w \in Worker, Moves(w), UNCHANGED <<vars, scenario>>,
         task'[w].step = "done" => At(w, "done") \/ Op(w).of # "count", NEW x
  PROVE  Recorded(x)' \subseteq Recorded(x)
<1>1. UNCHANGED <<answered, handler>>
  BY DEF vars
<1> SUFFICES ASSUME NEW c \in Call, scenario.ops[c] = [of |-> "count", column |-> x],
                    NEW s \in Slot, Busy(s), handler[s].id = c, At(s, "done")'
             PROVE  At(s, "done")
  BY <1>1 DEF Recorded, Busy
<1>2. s \in Worker /\ task[s].op.of = "count"
  BY DEF Worker, Tasks
<1> QED
  BY <1>2 DEF At, T, Op, Moves

\* A count stays right when the banner does and nothing is recorded anew.
LEMMA CountedStays ==
  ASSUME Counted, Banner \in DOMAIN rows' => Banner \in DOMAIN rows /\ rows'[Banner] = rows[Banner],
         \A x : Recorded(x)' \subseteq Recorded(x), IsTable(rows)
  PROVE  Counted'
<1> SUFFICES ASSUME Banner \in DOMAIN rows', NEW x \in DOMAIN rows'[Banner]
             PROVE  /\ IsFiniteSet(Recorded(x)') /\ Cardinality(Recorded(x)') <= rows'[Banner][x]
  BY DEF Counted
<1>1. /\ IsFiniteSet(Recorded(x)) /\ Cardinality(Recorded(x)) <= rows[Banner][x]
      /\ rows[Banner][x] \in Nat
  BY DEF Counted, IsTable, Banner, BannerRow
<1>2. /\ IsFiniteSet(Recorded(x)') /\ Cardinality(Recorded(x)') <= Cardinality(Recorded(x))
      /\ Cardinality(Recorded(x)') \in Nat /\ Cardinality(Recorded(x)) \in Nat
  BY <1>1, FS_Subset, FS_CardinalityType
<1> QED
  BY <1>1, <1>2

LEMMA SameRows ==
  ASSUME UNCHANGED <<rows, raced>>
  PROVE  /\ \A k : Unwritten(k) <=> Unwritten(k)'
         /\ \A t : IsKept(t) => IsKept(t)'
         /\ SingleBadge => SingleBadge' /\ IsTable(rows)' = IsTable(rows)
  BY DEF Unwritten, IsKept, SingleBadge, Row, Badges

\* A step of w that changes no row.
LEMMA QuietStep ==
  ASSUME ServiceInv, NEW w \in Worker, Moves(w), TaskOk(task'[w]),
         UNCHANGED <<vars, scenario, rows, raced>>,
         Unwritten(task'[w].key),
         \A t \in told' : t \in told \/ IsKept(t),
         task'[w].step = "done" => Op(w).of # "count"
  PROVE  ServiceInv'
<1> USE DEF ServiceInv
<1>1. Tasks'
  BY TasksMove
<1>2. ASSUME NEW b \in Worker PROVE Unwritten(task[b].key)'
  <2>1. Unwritten(task'[b].key)
    BY DEF Moves
  <2> QED
    BY <2>1 DEF Unwritten, Row, Badges
<1>3. IsTable(rows)' /\ SingleBadge' /\ \A t \in told' : IsKept(t)'
  BY SameRows
<1>4. Counted'
  BY RecordedStays, CountedStays
<1> QED
  BY <1>1, <1>2, <1>3, <1>4

\* w writes row r at key k, which is none of a badge or of the banner.
LEMMA RowStep ==
  ASSUME ServiceInv, NEW w \in Worker, Moves(w), TaskOk(task'[w]),
         UNCHANGED <<vars, scenario>>, NEW k, NEW r,
         rows' = With(k, r), Touch(w, k), task'[w].key = NoKey,
         Op(w).of # "count",
         k[1] \in {"code", "faucet", "relation", "wallet"},
         k[1] = "code" => k = CodeOf(k[2]) /\ k[2] \in STRING /\ r \in CodeRow,
         k[1] = "faucet" => r \in FaucetRow,
         k[1] = "relation" => r \in RelationRow /\ Row(k) = NoRow,
         k[1] \in {"code", "faucet"} => task[w].key = k,
         \A t \in told' : \/ t \in told
                          \/ /\ t.key = k /\ k[1] # "wallet"
                             /\ \A c \in DOMAIN t.row : r[c] = t.row[c]
  PROVE  ServiceInv'
<1> USE DEF ServiceInv
<1>1. /\ DOMAIN rows' = DOMAIN rows \cup {k} /\ rows'[k] = r
      /\ \A j \in DOMAIN rows \ {k} : rows'[j] = rows[j]
  BY DEF With, DB!Over
<1>2. /\ raced \subseteq raced'
      /\ \A b \in Worker \ {w} : task[b].key = k => k \in raced'
  BY DEF Touch
<1>3. Tasks'
  BY TasksMove
<1>4. \A a : Badges(a)' = Badges(a)
  BY <1>1 DEF Badges
<1>5. \A j : j # k => Row(j)' = Row(j)
  BY <1>1 DEF Row
<1>6. ASSUME NEW b \in Worker PROVE Unwritten(task[b].key)'
  <2>1. CASE b = w
    BY <2>1 DEF Unwritten, NoKey
  <2>2. CASE b # w
    <3>1. task'[b] = task[b] /\ Unwritten(task[b].key)
      BY <2>2 DEF Moves
    <3>2. CASE task[b].key = k
      BY <1>2, <2>2, <3>1, <3>2 DEF Unwritten
    <3>3. CASE task[b].key # k
      <4>1. (Row(task[b].key))' = Row(task[b].key)
        BY <1>1, <3>1, <3>3 DEF Row
      <4>2. Badges(task[b].key[2])' = Badges(task[b].key[2])
        BY <1>1, <3>1 DEF Badges
      <4> QED
        BY <1>2, <3>1, <4>1, <4>2 DEF Unwritten
    <3> QED
      BY <3>2, <3>3
  <2> QED
    BY <2>1, <2>2
<1>7. IsTable(rows)'
  BY <1>1 DEF IsTable, Banner
<1>8. SingleBadge'
  <2>1. \A j : ActiveBadge(rows', j) => ActiveBadge(rows, j) /\ rows'[j] = rows[j]
    BY <1>1 DEF ActiveBadge
  <2> SUFFICES ASSUME NEW i \in DOMAIN rows', NEW j \in DOMAIN rows',
                      ActiveBadge(rows', i), ActiveBadge(rows', j),
                      rows'[i].address = rows'[j].address,
                      Tier(rows'[i].address) \notin raced'
               PROVE  i = j
    BY DEF SingleBadge
  <2>2. /\ ActiveBadge(rows, i) /\ ActiveBadge(rows, j)
        /\ rows'[i] = rows[i] /\ rows'[j] = rows[j]
    BY <2>1
  <2>3. Tier(rows[i].address) \notin raced
    BY <1>2, <2>2
  <2> QED
    BY <2>2, <2>3 DEF SingleBadge, ActiveBadge
<1>9. ASSUME NEW t \in told' PROVE IsKept(t)'
  <2>1. CASE t.key = k /\ k[1] # "wallet" /\ \A c \in DOMAIN t.row : r[c] = t.row[c]
    BY <1>1, <2>1, RowAssumption DEF IsKept, Row
  <2>2. CASE t \in told /\ t.key # k
    BY <1>1, <1>2, <1>5, <2>2 DEF IsKept, Row
  <2>3. CASE t \in told /\ t.key = k
    BY <1>2, <2>3 DEF IsKept, Unwritten
  <2> QED
    BY <2>1, <2>2, <2>3
<1>10. Counted'
  <2>1. Banner \in DOMAIN rows' => Banner \in DOMAIN rows /\ rows'[Banner] = rows[Banner]
    BY <1>1 DEF Banner
  <2>2. \A x : Recorded(x)' \subseteq Recorded(x)
    BY RecordedStays
  <2> QED
    BY <2>1, <2>2, CountedStays
<1> QED
  BY <1>3, <1>6, <1>7, <1>8, <1>9, <1>10

-----------------------------------------------------------------------------
(* The statements.                                                         *)

LEMMA Targets ==
  ASSUME NEW op \in Operation
  PROVE  /\ GetsCode(op) => Target(op) = CodeOf(op.address) /\ op.address \in STRING
         /\ op.of = "claim" => Target(op) = ReferrerOf(op.referee)
         /\ op.of = "register" => Target(op) = Faucet /\ op.token \in STRING
         /\ op.of = "watch" => Target(op) = Wallet
         /\ op.of = "delete" => Target(op) \in {Wallet, Faucet}
         /\ op.of \in {"tier", "provision"} => op.address \in STRING /\ op.tier \in STRING
  BY DEF Operation, GetsCode, Target

LEMMA KeyKinds ==
  /\ \A a : CodeOf(a)[1] = "code" /\ CodeOf(a)[2] = a /\ ReferrerOf(a)[1] = "relation"
            /\ Tier(a)[1] = "tier" /\ Tier(a)[2] = a
  /\ Faucet[1] = "faucet" /\ Wallet[1] = "wallet" /\ NoKey[1] = "none" /\ Banner[1] = "banner"
  /\ Unwritten(NoKey)
  BY DEF CodeOf, ReferrerOf, Tier, Faucet, Wallet, NoKey, Banner, Unwritten

\* A task that is done, or is to take a badge away.
LEMMA RestOk ==
  ASSUME Tasks, NEW w \in Worker, Moves(w),
         \/ task'[w].step = "done"
         \/ task'[w].step = "demote" /\ Op(w).of = "provision"
  PROVE  TaskOk(task'[w])
  BY DEF Tasks, TaskOk, Moves, Op, T

LEMMA FindCodeKeeps ==
  ASSUME ServiceInv, NEW w \in Worker, FindCode(w) PROVE ServiceInv'
<1> DEFINE k == Target(Op(w))
<1>1. Tasks /\ TaskOk(task[w]) /\ Op(w) \in Operation /\ Op(w) = task[w].op
  BY DEF ServiceInv, Tasks, TaskOk, Op, T
<1>2. GetsCode(Op(w)) /\ k[1] = "code" /\ Op(w).of # "count"
  BY <1>1, Targets, KeyKinds DEF FindCode, GetsCode
<1>3. UNCHANGED <<vars, scenario, rows, raced>>
  BY DEF FindCode, tables
<1>4. CASE Row(k) = NoRow
  <2>1. Look(w, "draw", NoRow) /\ UNCHANGED told
    BY <1>4 DEF FindCode
  <2>2. Moves(w) /\ task'[w].step = "draw" /\ task'[w].key = k
    BY <1>1, <2>1, Looked
  <2>3. TaskOk(task'[w])
    BY <1>1, <1>2, <2>2 DEF TaskOk, Moves, GetsCode
  <2>4. Unwritten(k)
    BY <1>2, <1>4 DEF Unwritten
  <2> HIDE DEF k
  <2> QED
    BY <1>3, <2>1, <2>2, <2>3, <2>4, QuietStep
<1>5. CASE Row(k) # NoRow
  <2>1. CodeKnown(w) /\ Tell(k, rows[k])
    BY <1>5 DEF FindCode
  <2>2. /\ Moves(w) /\ task'[w].key = NoKey
        /\ \/ task'[w].step = "done"
           \/ task'[w].step = "demote" /\ Op(w).of = "provision"
    BY <1>1, <2>1, CodeWasKnown
  <2>3. TaskOk(task'[w])
    BY <1>1, <2>2, RestOk
  <2>4. \A t \in told' : t \in told \/ IsKept(t)
    BY <1>2, <1>5, <2>1 DEF Tell, IsKept, Row
  <2> QED
    BY <1>2, <1>3, <2>2, <2>3, <2>4, KeyKinds, QuietStep
<1> QED
  BY <1>4, <1>5

LEMMA DrawCodeKeeps ==
  ASSUME ServiceInv, NEW w \in Worker, DrawCode(w) PROVE ServiceInv'
<1>1. Tasks /\ TaskOk(task[w]) /\ Op(w) \in Operation /\ Op(w) = task[w].op
  BY DEF ServiceInv, Tasks, TaskOk, Op, T
<1>2. /\ GetsCode(Op(w)) /\ task[w].key = Target(Op(w)) /\ Op(w).of # "count"
      /\ Unwritten(task[w].key)
  BY <1>1 DEF DrawCode, At, T, TaskOk, GetsCode, ServiceInv
<1>3. UNCHANGED <<vars, scenario, rows, raced, told>>
  BY DEF DrawCode, tables, history
<1>4. PICK g \in Code :
        IF Owners(g) = {} THEN Look(w, "select", [code |-> g])
        ELSE IF T(w).tries + 1 < CODE_MAX_ATTEMPTS
          THEN task' = [task EXCEPT ![w].tries = @ + 1]
        ELSE Finish(w)
  BY DEF DrawCode
<1>5. CASE Look(w, "select", [code |-> g])
  <2>1. /\ Moves(w) /\ task'[w].step = "select" /\ task'[w].key = Target(Op(w))
        /\ task'[w].entity = [code |-> g]
    BY <1>1, <1>5, Looked
  <2>2. [code |-> g] \in CodeRow
    BY RowAssumption DEF CodeRow
  <2>3. TaskOk(task'[w])
    BY <1>1, <1>2, <2>1, <2>2 DEF TaskOk, Moves, GetsCode
  <2> QED
    BY <1>2, <1>3, <2>1, <2>3, QuietStep
<1>6. CASE task' = [task EXCEPT ![w].tries = @ + 1]
  <2>1. /\ Moves(w) /\ task'[w].step = "draw" /\ task'[w].key = task[w].key
    BY <1>1, <1>6 DEF Moves, Tasks, TaskOk, NoTask, DrawCode, At, T
  <2>2. TaskOk(task'[w])
    BY <1>1, <1>2, <2>1 DEF TaskOk, Moves, GetsCode
  <2> QED
    BY <1>2, <1>3, <2>1, <2>2, QuietStep
<1>7. CASE Finish(w)
  <2>1. Moves(w) /\ task'[w].step = "done" /\ task'[w].key = NoKey
    BY <1>1, <1>7, Finished
  <2>2. TaskOk(task'[w])
    BY <1>1, <2>1, RestOk
  <2> QED
    BY <1>2, <1>3, <2>1, <2>2, KeyKinds, QuietStep
<1> QED
  BY <1>4, <1>5, <1>6, <1>7

\* A task that ends without having written, having told perhaps.
LEMMA EndKeeps ==
  ASSUME ServiceInv, NEW w \in Worker, Finish(w), UNCHANGED <<vars, scenario, rows, raced>>,
         \A t \in told' : t \in told \/ IsKept(t), Op(w).of # "count"
  PROVE  ServiceInv'
<1>1. Tasks
  BY DEF ServiceInv
<1>2. Moves(w) /\ task'[w].step = "done" /\ task'[w].key = NoKey
  BY <1>1, Finished
<1>3. TaskOk(task'[w])
  BY <1>1, <1>2, RestOk
<1> QED
  BY <1>2, <1>3, KeyKinds, QuietStep

LEMMA OpNow ==
  ASSUME ServiceInv, NEW w \in Worker
  PROVE  Tasks /\ TaskOk(task[w]) /\ Op(w) \in Operation /\ Op(w) = task[w].op
  BY DEF ServiceInv, Tasks, TaskOk, Op, T

LEMMA FindReferrerKeeps ==
  ASSUME ServiceInv, NEW w \in Worker, FindReferrer(w) PROVE ServiceInv'
<1> DEFINE k == Target(Op(w))
<1>1. Tasks /\ TaskOk(task[w]) /\ Op(w) \in Operation /\ Op(w) = task[w].op
  BY OpNow
<1>2. Op(w).of = "claim" /\ k[1] = "relation"
  BY <1>1, Targets, KeyKinds DEF FindReferrer
<1>3. UNCHANGED <<vars, scenario, rows, raced>>
  BY DEF FindReferrer, tables
<1>4. CASE Row(k) = NoRow
  <2>1. Look(w, "lookup", NoRow) /\ UNCHANGED told
    BY <1>4 DEF FindReferrer
  <2>2. Moves(w) /\ task'[w].step = "lookup" /\ task'[w].key = k
    BY <1>1, <2>1, Looked
  <2>3. TaskOk(task'[w])
    BY <1>1, <1>2, <2>2 DEF TaskOk, Moves
  <2>4. Unwritten(k)
    BY <1>2 DEF Unwritten
  <2> HIDE DEF k
  <2> QED
    BY <1>2, <1>3, <2>1, <2>2, <2>3, <2>4, QuietStep
<1>5. CASE Row(k) # NoRow
  <2>1. Finish(w) /\ Tell(k, rows[k])
    BY <1>5 DEF FindReferrer
  <2>2. \A t \in told' : t \in told \/ IsKept(t)
    BY <1>2, <1>5, <2>1 DEF Tell, IsKept, Row
  <2> QED
    BY <1>2, <1>3, <2>1, <2>2, EndKeeps
<1> QED
  BY <1>4, <1>5

LEMMA LookUpCodeKeeps ==
  ASSUME ServiceInv, NEW w \in Worker, LookUpCode(w) PROVE ServiceInv'
<1> DEFINE owners == {k[2] : k \in Owners(Op(w).code)} \ {Op(w).referee}
<1>1. Tasks /\ TaskOk(task[w]) /\ Op(w) \in Operation /\ Op(w) = task[w].op
  BY OpNow
<1>2. Op(w).of = "claim" /\ Target(Op(w))[1] = "relation"
  BY <1>1, Targets, KeyKinds DEF LookUpCode, At, T, TaskOk
<1>3. UNCHANGED <<vars, scenario, rows, raced, told>>
  BY DEF LookUpCode, tables, history
<1>4. CASE owners = {}
  <2>1. Finish(w)
    BY <1>4 DEF LookUpCode
  <2> QED
    BY <1>2, <1>3, <2>1, EndKeeps
<1>5. CASE owners # {}
  <2> DEFINE entity == [referrer |-> CHOOSE a \in owners : TRUE]
  <2>1. Look(w, "insert", entity)
    BY <1>5 DEF LookUpCode
  <2>2. entity \in RelationRow
    <3>1. owners \subseteq STRING
      BY DEF Owners, ServiceInv, IsTable
    <3> HIDE DEF owners
    <3>2. (CHOOSE a \in owners : TRUE) \in owners
      BY <1>5
    <3> QED
      BY <3>1, <3>2 DEF RelationRow
  <2> HIDE DEF entity, owners
  <2>3. /\ Moves(w) /\ task'[w].step = "insert" /\ task'[w].key = Target(Op(w))
        /\ task'[w].entity = entity
    BY <1>1, <2>1, Looked
  <2>4. TaskOk(task'[w])
    BY <1>1, <1>2, <2>2, <2>3 DEF TaskOk, Moves
  <2>5. Unwritten(Target(Op(w)))
    BY <1>2 DEF Unwritten
  <2> QED
    BY <1>2, <1>3, <2>3, <2>4, <2>5, QuietStep
<1> QED
  BY <1>4, <1>5

LEMMA FindFaucetKeeps ==
  ASSUME ServiceInv, NEW w \in Worker, FindFaucet(w) PROVE ServiceInv'
<1>1. Tasks /\ TaskOk(task[w]) /\ Op(w) \in Operation /\ Op(w) = task[w].op
  BY OpNow
<1>2. Op(w).of = "register" /\ Target(Op(w)) = Faucet /\ Op(w).token \in STRING
  BY <1>1, Targets DEF FindFaucet
<1>3. UNCHANGED <<vars, scenario, rows, raced, told>>
  BY DEF FindFaucet, tables, history
<1>4. CASE Row(Faucet) = NoRow
  <2>1. Look(w, "select", [token |-> Op(w).token])
    BY <1>4 DEF FindFaucet
  <2>2. /\ Moves(w) /\ task'[w].step = "select" /\ task'[w].key = Faucet
        /\ task'[w].entity = [token |-> Op(w).token]
    BY <1>1, <1>2, <2>1, Looked
  <2>3. [token |-> Op(w).token] \in FaucetRow
    BY <1>2 DEF FaucetRow
  <2>4. TaskOk(task'[w])
    BY <1>1, <1>2, <2>2, <2>3 DEF TaskOk, Moves
  <2>5. Unwritten(Faucet)
    BY <1>4, KeyKinds DEF Unwritten
  <2> QED
    BY <1>2, <1>3, <2>2, <2>4, <2>5, QuietStep
<1>5. CASE Row(Faucet) # NoRow
  <2>1. Finish(w)
    BY <1>5 DEF FindFaucet
  <2> QED
    BY <1>2, <1>3, <2>1, EndKeeps
<1> QED
  BY <1>4, <1>5

LEMMA FindWalletKeeps ==
  ASSUME ServiceInv, NEW w \in Worker, FindWallet(w) PROVE ServiceInv'
<1>1. Tasks /\ TaskOk(task[w]) /\ Op(w) \in Operation /\ Op(w) = task[w].op
  BY OpNow
<1>2. Op(w).of = "watch" /\ Target(Op(w)) = Wallet
  BY <1>1, Targets DEF FindWallet
<1>3. UNCHANGED <<vars, scenario, rows, raced, told>>
  BY DEF FindWallet, tables, history
<1>4. ASSUME NEW step \in {"insert", "select"}, NEW entity, Look(w, step, entity)
      PROVE  ServiceInv'
  <2>1. Moves(w) /\ task'[w].step = step /\ task'[w].key = Wallet
    BY <1>1, <1>2, <1>4, Looked
  <2>2. TaskOk(task'[w])
    BY <1>1, <1>2, <2>1 DEF TaskOk, Moves
  <2>3. Unwritten(Wallet)
    BY KeyKinds DEF Unwritten
  <2> QED
    BY <1>2, <1>3, <2>1, <2>2, <2>3, QuietStep
<1>5. CASE Finish(w)
  BY <1>2, <1>3, <1>5, EndKeeps
<1> QED
  BY <1>4, <1>5 DEF FindWallet

LEMMA SelectRowKeeps ==
  ASSUME ServiceInv, NEW w \in Worker, SelectRow(w) PROVE ServiceInv'
<1> DEFINE k == T(w).key
           e == T(w).entity
           match == Matches(e, Row(k))
           patch == DB!Difference(e, IF match THEN Row(k) ELSE NoRow)
<1>1. Tasks /\ TaskOk(task[w]) /\ Op(w) \in Operation /\ Op(w) = task[w].op
  BY OpNow
<1>2. /\ k = Target(Op(w))
      /\ \/ GetsCode(Op(w)) /\ e \in CodeRow /\ k[1] = "code"
         \/ Op(w).of = "register" /\ e \in FaucetRow /\ k[1] = "faucet"
         \/ Op(w).of = "watch" /\ k[1] = "wallet"
  BY <1>1, Targets, KeyKinds DEF SelectRow, At, T, TaskOk
<1>3. UNCHANGED <<vars, scenario, rows, raced>> /\ Op(w).of # "count"
  BY <1>2 DEF SelectRow, tables, GetsCode
<1>4. Unwritten(k)
  BY DEF ServiceInv, T
<1>5. CASE DOMAIN patch # {}
  <2>1. /\ task' = [task EXCEPT ![w].step = "write", ![w].insert = ~match,
                                ![w].entity = DB!Over(Id(@), patch)]
        /\ UNCHANGED told
    BY <1>5 DEF SelectRow
  <2>2. /\ Moves(w) /\ task'[w].step = "write" /\ task'[w].key = k
        /\ task'[w].entity = DB!Over(Id(e), patch)
    <3> HIDE DEF match, patch
    <3> QED
      BY <1>1, <2>1 DEF Moves, Tasks, TaskOk, NoTask, T
  <2>3. e \in CodeRow \/ e \in FaucetRow => task'[w].entity = e
    BY <1>5, <2>2, OneColumn
  <2> HIDE DEF k, e, match, patch
  <2>4. TaskOk(task'[w])
    BY <1>1, <1>2, <1>3, <2>2, <2>3 DEF TaskOk, Moves
  <2> QED
    BY <1>3, <1>4, <2>1, <2>2, <2>4, QuietStep
<1>6. CASE DOMAIN patch = {} /\ k[1] = "code"
  <2>1. CodeKnown(w) /\ Tell(k, Row(k))
    BY <1>6 DEF SelectRow
  <2>2. /\ Moves(w) /\ task'[w].key = NoKey
        /\ \/ task'[w].step = "done"
           \/ task'[w].step = "demote" /\ Op(w).of = "provision"
    BY <1>1, <2>1, CodeWasKnown
  <2>3. TaskOk(task'[w])
    BY <1>1, <2>2, RestOk
  <2>4. Row(k) # NoRow
    <3>1. DOMAIN e # {}
      BY <1>2, <1>6 DEF CodeRow
    <3>2. match
      BY <1>6, <3>1, Patch
    <3> QED
      BY <3>2 DEF Matches
  <2>5. \A t \in told' : t \in told \/ IsKept(t)
    BY <1>6, <2>1, <2>4 DEF Tell, IsKept, Row
  <2> QED
    BY <1>3, <2>2, <2>3, <2>5, KeyKinds, QuietStep
<1>7. CASE DOMAIN patch = {} /\ k[1] # "code"
  <2>1. Finish(w) /\ UNCHANGED told
    BY <1>7 DEF SelectRow
  <2> QED
    BY <1>3, <2>1, EndKeeps
<1> QED
  BY <1>5, <1>6, <1>7

LEMMA PatchedRow ==
  ASSUME NEW e, NEW row, \/ e \in CodeRow /\ (row = NoRow \/ row \in CodeRow)
                         \/ e \in FaucetRow /\ (row = NoRow \/ row \in FaucetRow)
  PROVE  DB!Patched(e, row) = e
<1>1. row # NoRow => DOMAIN row = DOMAIN e
  BY DEF CodeRow, FaucetRow
<1>2. row # NoRow => DB!Patched(e, row) = [c \in DOMAIN e |-> e[c]]
  BY <1>1 DEF DB!Patched, DB!Over
<1>3. e = [c \in DOMAIN e |-> e[c]]
  BY DEF CodeRow, FaucetRow
<1> QED
  BY <1>2, <1>3 DEF DB!Patched

LEMMA WriteRowKeeps ==
  ASSUME ServiceInv, NEW w \in Worker, WriteRow(w) PROVE ServiceInv'
<1> DEFINE k == T(w).key
           e == T(w).entity
<1>1. Tasks /\ TaskOk(task[w]) /\ Op(w) \in Operation /\ Op(w) = task[w].op
  BY OpNow
<1>2. /\ k = Target(Op(w))
      /\ \/ GetsCode(Op(w)) /\ e \in CodeRow /\ k[1] = "code" /\ k = CodeOf(k[2]) /\ k[2] \in STRING
         \/ Op(w).of = "register" /\ e \in FaucetRow /\ k[1] = "faucet"
         \/ Op(w).of = "watch" /\ k[1] = "wallet"
  BY <1>1, Targets, KeyKinds DEF WriteRow, At, T, TaskOk
<1>3. UNCHANGED <<vars, scenario>> /\ Op(w).of # "count" /\ k = task[w].key
  BY <1>2 DEF WriteRow, GetsCode, T
<1>4. CASE Finish(w) /\ UNCHANGED <<rows, told, raced>>
  BY <1>3, <1>4, EndKeeps
<1>5. CASE /\ rows' = With(k, DB!Patched(e, Row(k))) /\ Touch(w, k)
           /\ IF k[1] = "code" THEN CodeKnown(w) ELSE Finish(w)
           /\ IF k[1] \in {"code", "faucet"} THEN Tell(k, e) ELSE UNCHANGED told
  <2> DEFINE r == DB!Patched(e, Row(k))
  <2>1. k[1] \in {"code", "faucet"} => r = e
    <3>1. \/ e \in CodeRow /\ (Row(k) = NoRow \/ Row(k) \in CodeRow)
          \/ e \in FaucetRow /\ (Row(k) = NoRow \/ Row(k) \in FaucetRow)
          \/ k[1] = "wallet"
      BY <1>2 DEF ServiceInv, IsTable, Row
    <3> QED
      BY <3>1, PatchedRow
  <2>2. /\ Moves(w) /\ task'[w].key = NoKey
        /\ \/ task'[w].step = "done"
           \/ task'[w].step = "demote" /\ Op(w).of = "provision"
    BY <1>1, <1>5, CodeWasKnown, Finished
  <2>3. TaskOk(task'[w])
    BY <1>1, <2>2, RestOk
  <2>4. ASSUME NEW t \in told'
        PROVE  \/ t \in told
               \/ t.key = k /\ k[1] # "wallet" /\ \A c \in DOMAIN t.row : r[c] = t.row[c]
    BY <1>5, <2>1, <2>4 DEF Tell
  <2>5. /\ k[1] = "code" => k = CodeOf(k[2]) /\ k[2] \in STRING /\ r \in CodeRow
        /\ k[1] = "faucet" => r \in FaucetRow
        /\ k[1] \in {"code", "faucet", "relation", "wallet"} /\ k[1] # "relation"
    BY <1>2, <2>1
  <2>6. rows' = With(k, r) /\ Touch(w, k)
    BY <1>5
  <2> HIDE DEF k, r, e
  <2> QED
    BY <1>3, <2>2, <2>3, <2>4, <2>5, <2>6, RowStep
<1> QED
  BY <1>4, <1>5 DEF WriteRow

LEMMA InsertRowKeeps ==
  ASSUME ServiceInv, NEW w \in Worker, InsertRow(w) PROVE ServiceInv'
<1> DEFINE k == T(w).key
           new == IF k = Wallet THEN DB!Over([c \in {"id"} |-> serial], T(w).entity)
                  ELSE T(w).entity
<1>1. Tasks /\ TaskOk(task[w]) /\ Op(w) \in Operation /\ Op(w) = task[w].op
  BY OpNow
<1>2. \/ Op(w).of = "claim" /\ k[1] = "relation" /\ T(w).entity \in RelationRow
      \/ Op(w).of = "watch" /\ k[1] = "wallet"
  BY <1>1, Targets, KeyKinds DEF InsertRow, At, T, TaskOk
<1>3. UNCHANGED <<vars, scenario>> /\ Op(w).of # "count" /\ Finish(w)
  BY <1>2 DEF InsertRow
<1>4. CASE UNCHANGED <<rows, told, raced>>
  BY <1>3, <1>4, EndKeeps
<1>5. CASE /\ Row(k) = NoRow /\ rows' = With(k, new) /\ Touch(w, k)
           /\ IF k[1] = "relation" THEN Tell(k, new) ELSE UNCHANGED told
  <2>1. k[1] = "relation" => new \in RelationRow
    BY <1>2, KeyKinds
  <2>2. Moves(w) /\ task'[w].step = "done" /\ task'[w].key = NoKey
    BY <1>1, <1>3, Finished
  <2>3. TaskOk(task'[w])
    BY <1>1, <2>2, RestOk
  <2>4. ASSUME NEW t \in told'
        PROVE  \/ t \in told
               \/ t.key = k /\ k[1] # "wallet" /\ \A c \in DOMAIN t.row : new[c] = t.row[c]
    BY <1>2, <1>5, <2>4 DEF Tell
  <2>5. k[1] \in {"relation", "wallet"}
    BY <1>2
  <2>6. Row(k) = NoRow /\ rows' = With(k, new) /\ Touch(w, k)
    BY <1>5
  <2> HIDE DEF k, new
  <2> QED
    BY <1>3, <2>1, <2>2, <2>3, <2>4, <2>5, <2>6, RowStep
<1> QED
  BY <1>4, <1>5 DEF InsertRow

\* What is recorded anew is the call that has been counted.
LEMMA RecordedByCount ==
  ASSUME Tasks, NEW w \in Worker, Moves(w), UNCHANGED <<vars, scenario>>, NEW x
  PROVE  /\ Recorded(x)' \subseteq Recorded(x) \cup {handler[w].id}
         /\ Op(w) # [of |-> "count", column |-> x] => Recorded(x)' \subseteq Recorded(x)
<1>1. UNCHANGED <<answered, handler>>
  BY DEF vars
<1>2. ASSUME NEW c \in Recorded(x)', c \notin Recorded(x)
      PROVE  c = handler[w].id /\ Op(w) = [of |-> "count", column |-> x]
  <2>1. PICK s \in Slot : Busy(s) /\ handler[s].id = c /\ At(s, "done")'
    BY <1>1, <1>2 DEF Recorded, Busy
  <2>2. c \in Call /\ scenario.ops[c] = [of |-> "count", column |-> x]
    BY <1>2 DEF Recorded
  <2>3. ~At(s, "done")
    BY <1>2, <2>1, <2>2 DEF Recorded
  <2>4. s = w
    BY <2>1, <2>3 DEF Moves, At, T, Worker
  <2> QED
    BY <2>1, <2>2, <2>4 DEF Tasks, Op, T
<1> QED
  BY <1>2

LEMMA CountKeeps ==
  ASSUME ServiceInv, NEW w \in Worker, Count(w) PROVE ServiceInv'
<1>1. Tasks /\ TaskOk(task[w]) /\ Op(w) \in Operation /\ Op(w) = task[w].op
  BY OpNow
<1>2. /\ UNCHANGED <<vars, scenario, told, raced>> /\ Finish(w)
      /\ rows' = IF Row(Banner) = NoRow THEN rows
                 ELSE [rows EXCEPT ![Banner][Op(w).column] = @ + 1]
  BY DEF Count, history
<1>3. Moves(w) /\ task'[w].step = "done" /\ task'[w].key = NoKey
  BY <1>1, <1>2, Finished
<1>4. TaskOk(task'[w])
  BY <1>1, <1>3, RestOk
<1>5. Tasks'
  BY <1>1, <1>2, <1>3, <1>4, TasksMove
<1>6. DOMAIN rows' = DOMAIN rows /\ \A j \in DOMAIN rows \ {Banner} : rows'[j] = rows[j]
  BY <1>2
<1>7. Banner \in DOMAIN rows => rows[Banner] \in BannerRow /\ Row(Banner) # NoRow
  BY RowAssumption DEF ServiceInv, IsTable, Banner, Row
<1>8. ASSUME NEW b \in Worker PROVE Unwritten(task[b].key)'
  <2>1. Unwritten(task'[b].key)
    BY <1>3, KeyKinds DEF ServiceInv, Moves
  <2>2. \A a : Badges(a)' = Badges(a)
    BY <1>6 DEF Badges, Banner
  <2>3. task'[b].key # Banner => (Row(task[b].key))' = Row(task'[b].key)
    BY <1>6 DEF Row
  <2>4. (Badges(task[b].key[2]))' = Badges(task'[b].key[2])
    BY <1>6 DEF Badges, Banner
  <2> QED
    BY <1>2, <2>1, <2>3, <2>4, KeyKinds DEF Unwritten
<1>9. IsTable(rows)'
  <2>1. Banner \in DOMAIN rows => rows'[Banner] \in BannerRow
    BY <1>2, <1>7 DEF BannerRow
  <2>2. IsTable(rows)
    BY DEF ServiceInv
  <2> QED
    BY <1>6, <2>1, <2>2, KeyKinds DEF IsTable
<1>10. SingleBadge'
  BY <1>2, <1>6 DEF ServiceInv, SingleBadge, ActiveBadge, Banner
<1>11. ASSUME NEW t \in told' PROVE IsKept(t)'
  <2>1. IsKept(t)
    BY <1>2 DEF ServiceInv
  <2>2. t.key # Banner
    BY <2>1, KeyKinds DEF IsKept
  <2> QED
    BY <1>2, <1>6, <2>1, <2>2 DEF IsKept, Row
<1>12. Counted'
  <2> SUFFICES ASSUME Banner \in DOMAIN rows', NEW x \in DOMAIN rows'[Banner]
               PROVE  /\ IsFiniteSet(Recorded(x)')
                      /\ Cardinality(Recorded(x)') <= rows'[Banner][x]
    BY DEF Counted
  <2>1. /\ rows[Banner] \in BannerRow
        /\ rows' = [rows EXCEPT ![Banner][Op(w).column] = @ + 1] /\ Banner \in DOMAIN rows
    BY <1>2, <1>6, <1>7
  <2>2. /\ x \in DOMAIN rows[Banner] /\ rows[Banner][x] \in Nat
        /\ rows'[Banner][x] = IF Op(w).column = x THEN rows[Banner][x] + 1 ELSE rows[Banner][x]
    BY <2>1 DEF BannerRow
  <2>3. IsFiniteSet(Recorded(x)) /\ Cardinality(Recorded(x)) <= rows[Banner][x]
    BY <2>1, <2>2 DEF ServiceInv, Counted
  <2>4. CASE Op(w) = [of |-> "count", column |-> x]
    <3>1. Recorded(x)' \subseteq Recorded(x) \cup {handler[w].id}
      BY <1>1, <1>2, <1>3, RecordedByCount
    <3>2. /\ Cardinality(Recorded(x)) \in Nat /\ Cardinality(Recorded(x)') \in Nat
          /\ IsFiniteSet(Recorded(x)')
          /\ Cardinality(Recorded(x)') <= Cardinality(Recorded(x)) + 1
      BY <2>3, <3>1, LargerByOne
    <3>3. rows'[Banner][x] = rows[Banner][x] + 1
      BY <2>2, <2>4
    <3> QED
      BY <2>2, <2>3, <3>2, <3>3
  <2>5. CASE Op(w) # [of |-> "count", column |-> x]
    <3>1. Recorded(x)' \subseteq Recorded(x)
      BY <1>1, <1>2, <1>3, <2>5, RecordedByCount
    <3>2. /\ IsFiniteSet(Recorded(x)') /\ Cardinality(Recorded(x)') <= Cardinality(Recorded(x))
          /\ Cardinality(Recorded(x)') \in Nat /\ Cardinality(Recorded(x)) \in Nat
      BY <2>3, <3>1, FS_Subset, FS_CardinalityType
    <3> QED
      BY <2>2, <2>3, <3>2
  <2> QED
    BY <2>4, <2>5
<1> QED
  BY <1>2, <1>5, <1>8, <1>9, <1>10, <1>11, <1>12 DEF ServiceInv

LEMMA DeleteKeeps ==
  ASSUME ServiceInv, NEW w \in Worker, Delete(w) PROVE ServiceInv'
<1> DEFINE k == Target(Op(w))
<1>1. Tasks /\ TaskOk(task[w]) /\ Op(w) \in Operation /\ Op(w) = task[w].op
  BY OpNow
<1>2. /\ UNCHANGED <<vars, scenario>> /\ Finish(w) /\ Touch(w, k)
      /\ rows' = [j \in DOMAIN rows \ {k} |-> rows[j]]
      /\ told' = {t \in told : t.key # k}
  BY DEF Delete
<1>3. Moves(w) /\ task'[w].step = "done" /\ task'[w].key = NoKey
  BY <1>1, <1>2, Finished
<1>4. TaskOk(task'[w])
  BY <1>1, <1>3, RestOk
<1>5. Tasks'
  BY <1>1, <1>2, <1>3, <1>4, TasksMove
<1>6. raced \subseteq raced'
  BY <1>2 DEF Touch
<1> HIDE DEF k
<1>7. /\ DOMAIN rows' = DOMAIN rows \ {k} /\ \A j \in DOMAIN rows' : rows'[j] = rows[j]
  BY <1>2
<1>8. ASSUME NEW b \in Worker PROVE Unwritten(task[b].key)'
  <2>1. Unwritten(task'[b].key)
    BY <1>3, KeyKinds DEF ServiceInv, Moves
  <2>2. (Row(task[b].key))' \in {NoRow, Row(task'[b].key)}
    BY <1>7 DEF Row
  <2>3. (Badges(task[b].key[2]))' \subseteq Badges(task'[b].key[2])
    BY <1>7 DEF Badges
  <2> QED
    BY <1>6, <2>1, <2>2, <2>3 DEF Unwritten
<1>9. IsTable(rows)'
  BY <1>7 DEF ServiceInv, IsTable
<1>10. SingleBadge'
  BY <1>6, <1>7 DEF ServiceInv, SingleBadge, ActiveBadge
<1>11. ASSUME NEW t \in told' PROVE IsKept(t)'
  BY <1>2, <1>6, <1>7 DEF ServiceInv, IsKept, Row
<1>12. Counted'
  <2>1. task'[w].step = "done" => At(w, "done") \/ Op(w).of # "count"
    BY <1>1 DEF Delete, TaskOk, At, T
  <2>2. \A x : Recorded(x)' \subseteq Recorded(x)
    BY <1>1, <1>2, <1>3, <2>1, RecordedStays
  <2>3. Banner \in DOMAIN rows' => Banner \in DOMAIN rows /\ rows'[Banner] = rows[Banner]
    BY <1>7
  <2> QED
    BY <2>2, <2>3, CountedStays DEF ServiceInv
<1> QED
  BY <1>2, <1>5, <1>8, <1>9, <1>10, <1>11, <1>12 DEF ServiceInv

LEMMA DemoteKeeps ==
  ASSUME ServiceInv, NEW w \in Worker, Demote(w) PROVE ServiceInv'
<1> DEFINE a == Op(w).address
<1>1. Tasks /\ TaskOk(task[w]) /\ Op(w) \in Operation /\ Op(w) = task[w].op
  BY OpNow
<1>2. Op(w).of \in {"tier", "provision"}
  BY <1>1 DEF Demote, At, T, TaskOk
<1>3. /\ UNCHANGED <<vars, scenario, told>> /\ Touch(w, Tier(a))
      /\ rows' = [k \in DOMAIN rows |->
                    IF k \in Badges(a) THEN [rows[k] EXCEPT !.active = FALSE] ELSE rows[k]]
  BY DEF Demote
<1>4. /\ Moves(w)
      /\ \/ task'[w].step = "done" /\ task'[w].key = NoKey
         \/ task'[w].step = "insert" /\ task'[w].key = Tier(a)
  <2>1. CASE Finish(w)
    BY <1>1, <2>1, Finished
  <2>2. CASE task' = [task EXCEPT ![w].step = "insert", ![w].key = Tier(a)]
    BY <1>1, <2>2 DEF Moves, Tasks, TaskOk, NoTask
  <2> QED
    BY <2>1, <2>2 DEF Demote
<1>5. TaskOk(task'[w])
  BY <1>1, <1>2, <1>4 DEF TaskOk, Moves
<1>6. Tasks'
  BY <1>1, <1>3, <1>4, <1>5, TasksMove
<1>7. raced \subseteq raced'
  BY <1>3 DEF Touch
<1>8. IsTable(rows)
  BY DEF ServiceInv
<1> HIDE DEF a
<1>9. /\ DOMAIN rows' = DOMAIN rows
      /\ \A k \in DOMAIN rows : k[1] # "badge" => rows'[k] = rows[k]
  BY <1>3 DEF Badges
<1>10. \A k \in DOMAIN rows : k[1] = "badge" =>
         /\ rows'[k] \in BadgeRow /\ rows'[k].address = rows[k].address
         /\ rows'[k].active => rows[k].active
         /\ rows[k].address = a => ~rows'[k].active
  <2> SUFFICES ASSUME NEW k \in DOMAIN rows, k[1] = "badge"
               PROVE  /\ rows'[k] \in BadgeRow /\ rows'[k].address = rows[k].address
                      /\ rows'[k].active => rows[k].active
                      /\ rows[k].address = a => ~rows'[k].active
    OBVIOUS
  <2>1. rows[k] \in BadgeRow
    BY <1>8 DEF IsTable
  <2>2. k \in Badges(a) <=> rows[k].address = a /\ rows[k].active
    BY DEF Badges
  <2>3. rows'[k] = IF k \in Badges(a) THEN [rows[k] EXCEPT !.active = FALSE] ELSE rows[k]
    BY <1>3
  <2>4. CASE k \in Badges(a)
    BY <2>1, <2>2, <2>3, <2>4 DEF BadgeRow
  <2>5. CASE k \notin Badges(a)
    BY <2>1, <2>2, <2>3, <2>5
  <2> QED
    BY <2>4, <2>5
<1>11. ASSUME NEW b \in Worker PROVE Unwritten(task[b].key)'
  <2>1. Unwritten(task'[b].key) \/ task'[b].key = Tier(a)
    BY <1>4, KeyKinds DEF ServiceInv, Moves
  <2>2. task'[b].key[1] # "badge" => (Row(task[b].key))' = Row(task'[b].key)
    BY <1>9 DEF Row
  <2>3. (Badges(task[b].key[2]))' \subseteq Badges(task'[b].key[2])
    BY <1>9, <1>10 DEF Badges
  <2>4. task'[b].key = Tier(a) => (Badges(task[b].key[2]))' = {}
    BY <1>9, <1>10, KeyKinds DEF Badges
  <2>5. CASE Unwritten(task'[b].key)
    BY <1>7, <2>2, <2>3, <2>5 DEF Unwritten
  <2>6. CASE task'[b].key = Tier(a)
    BY <2>4, <2>6, KeyKinds DEF Unwritten
  <2> QED
    BY <2>1, <2>5, <2>6
<1>12. IsTable(rows)'
  BY <1>8, <1>9, <1>10 DEF IsTable
<1>13. SingleBadge'
  <2>1. \A k : ActiveBadge(rows', k) =>
          ActiveBadge(rows, k) /\ rows'[k].address = rows[k].address
    BY <1>9, <1>10 DEF ActiveBadge
  <2> QED
    BY <1>7, <1>9, <2>1 DEF SingleBadge, ServiceInv
<1>14. ASSUME NEW t \in told' PROVE IsKept(t)'
  <2>1. IsKept(t) /\ t.key[1] # "badge"
    BY <1>3 DEF ServiceInv, IsKept
  <2> QED
    BY <1>7, <1>9, <2>1 DEF IsKept, Row
<1>15. Counted'
  <2>1. \A x : Recorded(x)' \subseteq Recorded(x)
    BY <1>1, <1>2, <1>3, <1>4, RecordedStays
  <2>2. Banner \in DOMAIN rows' => Banner \in DOMAIN rows /\ rows'[Banner] = rows[Banner]
    BY <1>9, KeyKinds
  <2> QED
    BY <2>1, <2>2, CountedStays DEF ServiceInv
<1> QED
  BY <1>3, <1>6, <1>11, <1>12, <1>13, <1>14, <1>15 DEF ServiceInv

LEMMA InsertBadgeKeeps ==
  ASSUME ServiceInv, NEW w \in Worker, InsertBadge(w) PROVE ServiceInv'
<1> DEFINE a == Op(w).address
           new == <<"badge", serial>>
           badge == [address |-> a, tier |-> Op(w).tier, active |-> TRUE]
<1>1. Tasks /\ TaskOk(task[w]) /\ Op(w) \in Operation /\ Op(w) = task[w].op
  BY OpNow
<1>2. /\ Op(w).of \in {"tier", "provision"} /\ task[w].key = Tier(a)
      /\ Unwritten(Tier(a))
  BY <1>1, Targets, KeyKinds DEF InsertBadge, At, T, TaskOk, ServiceInv
<1>3. badge \in BadgeRow
  BY <1>1, <1>2, Targets DEF BadgeRow
<1>4. /\ UNCHANGED <<vars, scenario, told>> /\ Finish(w)
      /\ Touch(w, Tier(a)) /\ rows' = With(new, badge)
  BY <1>2 DEF InsertBadge, T
<1>5. Moves(w) /\ task'[w].step = "done" /\ task'[w].key = NoKey
  BY <1>1, <1>4, Finished
<1>6. TaskOk(task'[w])
  BY <1>1, <1>5, RestOk
<1>7. Tasks'
  BY <1>1, <1>4, <1>5, <1>6, TasksMove
<1>8. /\ raced \subseteq raced'
      /\ \A b \in Worker \ {w} : task[b].key = Tier(a) => Tier(a) \in raced'
  BY <1>4 DEF Touch
<1>9. new[1] = "badge" /\ badge.active /\ badge.address = a
  OBVIOUS
<1> HIDE DEF a, new, badge
<1>10. /\ DOMAIN rows' = DOMAIN rows \cup {new} /\ rows'[new] = badge
       /\ \A j \in DOMAIN rows \ {new} : rows'[j] = rows[j]
  BY <1>4 DEF With, DB!Over
<1>11. ASSUME NEW b \in Worker PROVE Unwritten(task[b].key)'
  <2>1. Unwritten(task'[b].key)
    BY <1>5, KeyKinds DEF ServiceInv, Moves
  <2>2. task'[b].key[1] # "badge" => (Row(task[b].key))' = Row(task'[b].key)
    BY <1>9, <1>10 DEF Row
  <2>3. CASE task'[b].key = Tier(a)
    <3>1. b # w /\ task[b].key = Tier(a)
      BY <1>5, <2>3, KeyKinds DEF Moves
    <3> QED
      BY <1>8, <2>3, <3>1, KeyKinds DEF Unwritten
  <2>4. CASE task'[b].key # Tier(a) /\ task'[b].key[1] = "tier"
    <3>1. task'[b].key[2] # a
      BY <2>1, <2>4 DEF Unwritten
    <3>2. (Badges(task[b].key[2]))' \subseteq Badges(task'[b].key[2])
      BY <1>9, <1>10, <3>1 DEF Badges
    <3> QED
      BY <1>8, <2>1, <2>4, <3>2 DEF Unwritten
  <2>5. CASE task'[b].key[1] # "tier"
    BY <1>8, <2>1, <2>2, <2>5 DEF Unwritten
  <2> QED
    BY <2>3, <2>4, <2>5
<1>12. IsTable(rows)'
  BY <1>3, <1>9, <1>10 DEF ServiceInv, IsTable
<1>13. SingleBadge'
  <2>1. \A j : ActiveBadge(rows', j) /\ j # new => ActiveBadge(rows, j) /\ rows'[j] = rows[j]
    BY <1>10 DEF ActiveBadge
  <2>2. ASSUME NEW j \in DOMAIN rows', ActiveBadge(rows', j), j # new,
               rows'[j].address = a, Tier(a) \notin raced'
        PROVE  FALSE
    <3>1. j \in Badges(a)
      BY <2>1, <2>2 DEF ActiveBadge, Badges
    <3>2. Tier(a) \notin raced
      BY <1>8, <2>2
    <3> QED
      BY <1>2, <3>1, <3>2, KeyKinds DEF Unwritten
  <2> SUFFICES ASSUME NEW i \in DOMAIN rows', NEW j \in DOMAIN rows',
                      ActiveBadge(rows', i), ActiveBadge(rows', j),
                      rows'[i].address = rows'[j].address,
                      Tier(rows'[i].address) \notin raced'
               PROVE  i = j
    BY DEF SingleBadge
  <2>3. CASE i # new /\ j # new
    <3>1. /\ ActiveBadge(rows, i) /\ ActiveBadge(rows, j)
          /\ rows'[i] = rows[i] /\ rows'[j] = rows[j]
      BY <2>1, <2>3
    <3> QED
      BY <1>8, <3>1 DEF ServiceInv, SingleBadge, ActiveBadge
  <2>4. CASE i = new \/ j = new
    BY <1>9, <1>10, <2>2, <2>4
  <2> QED
    BY <2>3, <2>4
<1>14. ASSUME NEW t \in told' PROVE IsKept(t)'
  <2>1. IsKept(t) /\ t.key # new
    BY <1>4, <1>9 DEF ServiceInv, IsKept
  <2>2. (Row(t.key))' = Row(t.key) /\ (Row(t.key) # NoRow => rows'[t.key] = rows[t.key])
    BY <1>10, <2>1 DEF Row
  <2> QED
    BY <1>8, <2>1, <2>2 DEF IsKept
<1>15. Counted'
  <2>1. \A x : Recorded(x)' \subseteq Recorded(x)
    BY <1>1, <1>2, <1>4, <1>5, RecordedStays
  <2>2. Banner \in DOMAIN rows' => Banner \in DOMAIN rows /\ rows'[Banner] = rows[Banner]
    BY <1>9, <1>10, KeyKinds
  <2> QED
    BY <2>1, <2>2, CountedStays DEF ServiceInv
<1> QED
  BY <1>4, <1>7, <1>11, <1>12, <1>13, <1>14, <1>15 DEF ServiceInv

LEMMA StatementKeeps ==
  ASSUME ServiceInv, NEW w \in Worker, Statement(w) PROVE ServiceInv'
  BY FindCodeKeeps, DrawCodeKeeps, FindReferrerKeeps, LookUpCodeKeeps, FindFaucetKeeps,
   FindWalletKeeps, SelectRowKeeps, WriteRowKeeps, InsertRowKeeps, CountKeeps, DeleteKeeps,
   DemoteKeeps, InsertBadgeKeeps DEF Statement

-----------------------------------------------------------------------------
(* The service as a consumer: no row changes, and a key is held or let go. *)

LEMMA ServiceStep ==
  ASSUME ServiceInv, UNCHANGED <<scenario, tables, history>>, DOMAIN task' = Worker,
         \A w \in Worker : TaskOk(task'[w]) /\ task'[w].key \in {task[w].key, NoKey},
         \A s \in Slot : Busy(s)' => task'[s].op = scenario.ops[handler'[s].id],
         \A x : Recorded(x)' \subseteq Recorded(x)
  PROVE  ServiceInv'
<1>1. UNCHANGED <<rows, raced, told, scenario>>
  BY DEF tables, history
<1>2. Tasks'
  BY <1>1 DEF Tasks, TaskOk
<1>3. ASSUME NEW w \in Worker PROVE Unwritten(task[w].key)'
  <2>1. Unwritten(task'[w].key)
    BY KeyKinds DEF ServiceInv
  <2> QED
    BY <1>1, <2>1 DEF Unwritten, Row, Badges
<1>4. IsTable(rows)' /\ SingleBadge' /\ \A t \in told' : IsKept(t)'
  BY <1>1, SameRows DEF ServiceInv
<1>5. Counted'
  BY <1>1, CountedStays DEF ServiceInv
<1> QED
  BY <1>1, <1>2, <1>3, <1>4, <1>5 DEF ServiceInv

\* Whoever is busy and done was so before, and only such a call is answered.
LEMMA NoneRecorded ==
  ASSUME UNCHANGED scenario, NEW x,
         \A c \in answered' : \/ c \in answered
                              \/ \E s \in Slot : Busy(s) /\ handler[s].id = c /\ At(s, "done"),
         \A s \in Slot : Busy(s)' /\ task'[s].step = "done" =>
           \/ Busy(s) /\ handler'[s].id = handler[s].id /\ At(s, "done")
           \/ scenario.ops[handler'[s].id].of # "count"
  PROVE  Recorded(x)' \subseteq Recorded(x)
<1> SUFFICES ASSUME NEW c \in Call, scenario.ops[c] = [of |-> "count", column |-> x],
                    \/ c \in answered'
                    \/ \E s \in Slot : Busy(s)' /\ handler'[s].id = c /\ task'[s].step = "done"
             PROVE  c \in answered \/ \E s \in Slot : Busy(s) /\ handler[s].id = c /\ At(s, "done")
  BY DEF Recorded, At, T
<1>1. scenario.ops[c].of = "count"
  OBVIOUS
<1> QED
  BY <1>1

LEMMA BeginOk ==
  ASSUME NEW op \in Operation
  PROVE  /\ TaskOk(Begin(op)) /\ Begin(op).op = op /\ Begin(op).key = NoKey
         /\ Begin(op).step = "done" => op.of # "count"
<1>1. /\ DOMAIN Begin(op) = DOMAIN NoTask /\ Begin(op).op = op /\ Begin(op).key = NoKey
      /\ Begin(op).step = First(op)
  BY DEF Begin, NoTask
<1>2. op.of \in {"none", "read", "getCode", "claim", "tier", "provision", "count", "watch",
                 "register", "delete"}
  BY DEF Operation
<1>3. /\ First(op) \in {"none", "done", "demote", "count", "delete", "find"}
      /\ First(op) = "demote" => op.of = "tier"
      /\ First(op) = "done" => op.of = "read"
      /\ op.of = "count" => First(op) = "count"
  BY <1>2 DEF First
<1> HIDE DEF Begin
<1> QED
  BY <1>1, <1>3 DEF TaskOk

LEMMA NoTaskOk == TaskOk(NoTask) /\ NoTask.key = NoKey /\ NoTask.step = "none"
<1>1. [of |-> "none"] \in Operation
  BY DEF Operation
<1> QED
  BY <1>1 DEF TaskOk, NoTask

LEMMA TakeRequestKeeps ==
  ASSUME ServiceInv, TypeOK, NEW s \in Slot, TakeRequest(s) PROVE ServiceInv'
<1> DEFINE c == Head(requests).id
           op == scenario.ops[c]
<1>1. requests \in Seq(Request) /\ requests # << >> /\ handler \in [Slot -> Work]
  BY DEF TakeRequest, Take, TypeOK
<1>2. c \in Call
  BY <1>1, Popped DEF Request
<1>3. op \in Operation
  BY <1>2, ScenarioAssumption DEF ServiceInv
<1>4. /\ UNCHANGED <<scenario, tables, history, answered>>
      /\ task' = [task EXCEPT ![s] = Begin(op)]
      /\ \A b \in Slot \ {s} : handler'[b] = handler[b]
      /\ handler'[s].id = c
  BY <1>1 DEF TakeRequest, Take
<1>5. DOMAIN task = Worker /\ s \in Worker /\ \A w \in Worker : TaskOk(task[w])
  BY DEF ServiceInv, Tasks, Worker
<1> HIDE DEF op, c
<1>6. /\ DOMAIN task' = Worker /\ task'[s] = Begin(op)
      /\ \A w \in Worker \ {s} : task'[w] = task[w]
  BY <1>4, <1>5
<1>7. \A w \in Worker : TaskOk(task'[w]) /\ task'[w].key \in {task[w].key, NoKey}
  BY <1>3, <1>5, <1>6, BeginOk
<1>8. ASSUME NEW b \in Slot, Busy(b)' PROVE task'[b].op = scenario.ops[handler'[b].id]
  <2>1. CASE b = s
    BY <1>3, <1>4, <1>6, <2>1, BeginOk DEF op
  <2>2. CASE b # s
    BY <1>4, <1>6, <1>8, <2>2 DEF ServiceInv, Tasks, Busy, Worker
  <2> QED
    BY <2>1, <2>2
<1>9. ASSUME NEW b \in Slot, Busy(b)', task'[b].step = "done"
      PROVE  \/ Busy(b) /\ handler'[b].id = handler[b].id /\ At(b, "done")
             \/ scenario.ops[handler'[b].id].of # "count"
  <2>1. CASE b = s
    BY <1>3, <1>4, <1>6, <1>9, <2>1, BeginOk DEF op
  <2>2. CASE b # s
    BY <1>4, <1>6, <1>9, <2>2 DEF Busy, Worker, At, T
  <2> QED
    BY <2>1, <2>2
<1>10. \A x : Recorded(x)' \subseteq Recorded(x)
  BY <1>4, <1>9, NoneRecorded
<1> QED
  BY <1>4, <1>6, <1>7, <1>8, <1>10, ServiceStep

\* Each slot goes on with what it holds, or has let it go.
LEMMA LetGo ==
  ASSUME ServiceInv, UNCHANGED <<scenario, tables, history>>, DOMAIN task' = Worker,
         \A w \in Worker : task'[w] \in {task[w], NoTask},
         \A s \in Slot : Busy(s)' =>
           Busy(s) /\ handler'[s].id = handler[s].id /\ task'[s] = task[s],
         \A c \in answered' : \/ c \in answered
                              \/ \E s \in Slot : Busy(s) /\ handler[s].id = c /\ At(s, "done")
  PROVE  ServiceInv'
<1>1. \A w \in Worker : TaskOk(task'[w]) /\ task'[w].key \in {task[w].key, NoKey}
  BY NoTaskOk DEF ServiceInv, Tasks
<1>2. \A s \in Slot : Busy(s)' => task'[s].op = scenario.ops[handler'[s].id]
  BY DEF ServiceInv, Tasks
<1>3. \A s \in Slot : Busy(s)' /\ task'[s].step = "done" =>
        Busy(s) /\ handler'[s].id = handler[s].id /\ At(s, "done")
  BY DEF At, T
<1>4. \A x : Recorded(x)' \subseteq Recorded(x)
  BY <1>3, NoneRecorded
<1> QED
  BY <1>1, <1>2, <1>4, ServiceStep

LEMMA NoTasksFacts == DOMAIN NoTasks = Worker /\ \A w \in Worker : NoTasks[w] = NoTask
  BY DEF NoTasks

LEMMA Exited ==
  ASSUME handler' = [s \in Slot |-> Idle] PROVE \A s \in Slot : ~Busy(s)' /\ handler'[s] = Idle
  BY DEF Busy, Idle

LEMMA CrashKeeps ==
  ASSUME ServiceInv, Crash PROVE ServiceInv'
<1>1. UNCHANGED <<scenario, tables, history, answered>> /\ task' = NoTasks
  BY DEF Crash, BrokerCrash
<1>2. \A s \in Slot : ~Busy(s)'
  BY Exited DEF Crash, BrokerCrash, Exit
<1> QED
  BY <1>1, <1>2, NoTasksFacts, LetGo

\* What a call's end does to its slot.
LEMMA Ends ==
  ASSUME TypeOK, NEW s \in Slot, BrokerStep(s)
  PROVE  /\ Busy(s) /\ \A c \in answered' : c \in answered \/ c = handler[s].id
         /\ \/ /\ handler'[s] # Idle /\ handler'[s].id = handler[s].id
               /\ \A b \in Slot \ {s} : handler'[b] = handler[b]
            \/ /\ handler'[s] = Idle /\ Live(s)
               /\ \A b \in Slot \ {s} : handler'[b] = handler[b]
            \/ handler' = [b \in Slot |-> Idle] /\ ~Live(s)
<1>1. handler \in [Slot -> Work]
  BY DEF TypeOK
<1>2. Busy(s)
  BY DEF BrokerStep, Execute, ExecuteFails, SendReply, Ack, Busy
<1>3. ASSUME NEW pc \in {"reply", "ack"}, Goto(s, pc)
      PROVE  /\ handler'[s] # Idle /\ handler'[s].id = handler[s].id
             /\ \A b \in Slot \ {s} : handler'[b] = handler[b]
  <2>1. pc \in Pc \ {"idle"}
    BY DEF Pc
  <2> QED
    BY <1>2, <1>3, <2>1, GotoFacts DEF Idle
<1>4. CASE Execute(s)
  BY <1>2, <1>3, <1>4 DEF Execute
<1>5. CASE ExecuteFails(s)
  BY <1>1, <1>2, <1>5 DEF ExecuteFails, Exit
<1>6. CASE SendReply(s)
  BY <1>1, <1>2, <1>3, <1>6 DEF SendReply, Exit
<1>7. CASE Ack(s)
  BY <1>1, <1>2, <1>7 DEF Ack, Exit
<1> QED
  BY <1>4, <1>5, <1>6, <1>7 DEF BrokerStep

LEMMA RespondKeeps ==
  ASSUME ServiceInv, TypeOK, NEW s \in Slot, Respond(s) PROVE ServiceInv'
<1>1. /\ At(s, "done") /\ BrokerStep(s) /\ UNCHANGED <<scenario, tables, history>>
      /\ handler'[s] # Idle => task' = task
      /\ handler'[s] = Idle /\ Live(s) => task' = [task EXCEPT ![s] = NoTask]
      /\ handler'[s] = Idle /\ ~Live(s) => task' = NoTasks
  BY DEF Respond
<1>2. /\ Busy(s) /\ \A c \in answered' : c \in answered \/ c = handler[s].id
      /\ \/ /\ handler'[s] # Idle /\ handler'[s].id = handler[s].id
            /\ \A b \in Slot \ {s} : handler'[b] = handler[b]
         \/ /\ handler'[s] = Idle /\ Live(s)
            /\ \A b \in Slot \ {s} : handler'[b] = handler[b]
         \/ handler' = [b \in Slot |-> Idle] /\ ~Live(s)
  BY <1>1, Ends
<1>3. \A c \in answered' : \/ c \in answered
                           \/ \E b \in Slot : Busy(b) /\ handler[b].id = c /\ At(b, "done")
  BY <1>1, <1>2
<1>4. DOMAIN task = Worker /\ s \in Worker /\ Slot \subseteq Worker
  BY DEF ServiceInv, Tasks, Worker
<1>5. CASE handler'[s] # Idle
  <2>1. /\ task' = task /\ handler'[s].id = handler[s].id
        /\ \A b \in Slot \ {s} : handler'[b] = handler[b]
    BY <1>1, <1>2, <1>5
  <2>2. \A b \in Slot : Busy(b)' => Busy(b) /\ handler'[b].id = handler[b].id
    BY <1>2, <2>1 DEF Busy
  <2> QED
    BY <1>1, <1>3, <1>4, <2>1, <2>2, LetGo
<1>6. CASE handler'[s] = Idle /\ Live(s)
  <2>1. task' = [task EXCEPT ![s] = NoTask] /\ \A b \in Slot \ {s} : handler'[b] = handler[b]
    BY <1>1, <1>2, <1>6
  <2>2. \A b \in Slot : Busy(b)' => b # s /\ Busy(b) /\ handler'[b].id = handler[b].id
    BY <1>6, <2>1 DEF Busy, Idle
  <2>3. /\ DOMAIN task' = Worker /\ task'[s] = NoTask
        /\ \A w \in Worker \ {s} : task'[w] = task[w]
    BY <1>4, <2>1
  <2> QED
    BY <1>1, <1>3, <1>4, <2>2, <2>3, LetGo
<1>7. CASE handler'[s] = Idle /\ ~Live(s)
  <2>1. task' = NoTasks /\ handler' = [b \in Slot |-> Idle]
    BY <1>1, <1>2, <1>7
  <2> QED
    BY <1>1, <1>3, <2>1, Exited, NoTasksFacts, LetGo
<1> QED
  BY <1>5, <1>6, <1>7

\* The gateway's steps leave every call of the service where it is.
LEMMA GatewayStepKeeps ==
  ASSUME ServiceInv, TypeOK, Gateway \/ \E c \in Call : Expire(c) PROVE ServiceInv'
<1>1. UNCHANGED <<scenario, tables, task, history, answered>>
  BY DEF Gateway, Expire, Start, Transmit, BrokerReconnect, SendFails, HandleReply, Disconnect,
     Connect, Shutdown, Timeout, brokerVars
<1>2. \/ UNCHANGED handler
      \/ handler' = [s \in Slot |-> IF Live(s) THEN [handler[s] EXCEPT !.live = FALSE]
                                    ELSE handler[s]]
  BY DEF Gateway, Expire, Start, Transmit, BrokerReconnect, SendFails, HandleReply, Disconnect,
     Connect, Shutdown, Timeout, brokerVars
<1>3. ASSUME NEW s \in Slot, Busy(s)' PROVE Busy(s) /\ handler'[s].id = handler[s].id
  <2>1. CASE UNCHANGED handler
    BY <1>3, <2>1 DEF Busy
  <2>2. CASE handler' = [b \in Slot |-> IF Live(b) THEN [handler[b] EXCEPT !.live = FALSE]
                                       ELSE handler[b]]
    <3>1. CASE Live(s)
      <4>1. Busy(s)
        BY <3>1 DEF Live
      <4>2. handler'[s] = [handler[s] EXCEPT !.live = FALSE]
        BY <2>2, <3>1
      <4> QED
        BY <4>1, <4>2, WorkFields
    <3>2. CASE ~Live(s)
      BY <1>3, <2>2, <3>2 DEF Busy
    <3> QED
      BY <3>1, <3>2
  <2> QED
    BY <1>2, <2>1, <2>2
<1>4. DOMAIN task = Worker /\ Slot \subseteq Worker
  BY DEF ServiceInv, Tasks, Worker
<1> QED
  BY <1>1, <1>3, <1>4, LetGo

LEMMA ServiceInit ==
  ASSUME ConfigInit PROVE ServiceInv
<1>1. /\ scenario \in Scenarios /\ rows = scenario.rows /\ told = {} /\ raced = {}
      /\ task = [w \in Worker |-> IF w \in Http THEN Begin(scenario.http[w]) ELSE NoTask]
      /\ handler = [s \in Slot |-> Idle] /\ answered = {}
  BY DEF ConfigInit, Init
<1>2. \A s \in Slot : ~Busy(s)
  BY <1>1 DEF Busy, Idle
<1>3. \A w \in Worker : TaskOk(task[w]) /\ task[w].key = NoKey
  BY <1>1, BeginOk, NoTaskOk, ScenarioAssumption DEF Worker
<1>4. Tasks
  BY <1>1, <1>2, <1>3 DEF Tasks
<1>5. \A w \in Worker : Unwritten(task[w].key)
  BY <1>3, KeyKinds
<1>6. IsTable(rows)
  BY <1>1, ScenarioAssumption
<1>7. SingleBadge
  <2>1. \A j, k \in DOMAIN scenario.rows :
          ActiveBadge(scenario.rows, j) /\ ActiveBadge(scenario.rows, k)
            /\ scenario.rows[j].address = scenario.rows[k].address => j = k
    BY <1>1, ScenarioAssumption
  <2> QED
    BY <1>1, <2>1 DEF SingleBadge
<1>8. Counted
  <2>1. \A x : Recorded(x) = {}
    BY <1>1, <1>2 DEF Recorded
  <2> SUFFICES ASSUME Banner \in DOMAIN rows, NEW x \in DOMAIN rows[Banner]
               PROVE  IsFiniteSet(Recorded(x)) /\ Cardinality(Recorded(x)) <= rows[Banner][x]
    BY DEF Counted
  <2>2. rows[Banner][x] \in Nat
    BY <1>6, KeyKinds DEF IsTable, BannerRow
  <2> QED
    BY <2>1, <2>2, FS_EmptySet
<1> QED
  BY <1>1, <1>4, <1>5, <1>6, <1>7, <1>8 DEF ServiceInv

LEMMA ServiceNext ==
  ASSUME ServiceInv, TypeOK, [ConfigNext]_allVars PROVE ServiceInv'
<1>1. CASE UNCHANGED allVars
  <2>1. UNCHANGED <<scenario, tables, history, task, handler, answered>>
    BY <1>1 DEF allVars, vars
  <2>2. DOMAIN task = Worker
    BY DEF ServiceInv, Tasks
  <2> QED
    BY <2>1, <2>2, LetGo DEF Busy
<1>2. CASE ConfigNext
  BY <1>2, GatewayStepKeeps, CrashKeeps, TakeRequestKeeps, RespondKeeps, StatementKeeps
     DEF ConfigNext
<1> QED
  BY <1>1, <1>2

(***************************************************************************)
(* What the service tells stays true: every task holds a key it saw free,  *)
(* or the key is raced; and the calls that have counted are never more     *)
(* than the banner's number, whatever runs again after a lost connection.  *)
(***************************************************************************)
LEMMA ServiceInductive == ConfigSpec => []ServiceInv
  <1>1. ServiceInv /\ TypeOK /\ [ConfigNext]_allVars => ServiceInv'
    BY ServiceNext
  <1>2. ConfigSpec => []TypeOK
    BY ComposedSafety, PTL
  <1> QED
    BY ServiceInit, <1>1, <1>2, PTL DEF ConfigSpec

(***************************************************************************)
(* A code, a faucet and a referrer remain what a caller was told, but for  *)
(* the overlapping first requests, and an answered count is in the banner. *)
(***************************************************************************)
THEOREM ToldHolds == ConfigSpec => []ToldIsKept
  <1>1. ServiceInv /\ TypeOK => ToldIsKept
    <2> SUFFICES ASSUME ServiceInv, TypeOK PROVE ToldIsKept
      OBVIOUS
    <2>1. ASSUME NEW t \in told, t.key \notin raced \/ t.key[1] = "relation"
          PROVE  Row(t.key) # NoRow /\ \A c \in DOMAIN t.row : rows[t.key][c] = t.row[c]
      BY <2>1 DEF ServiceInv, IsKept
    <2>2. ASSUME Banner \in DOMAIN rows, NEW x \in DOMAIN rows[Banner]
          PROVE  Cardinality({c \in answered : scenario.ops[c] = [of |-> "count", column |-> x]})
                   <= rows[Banner][x]
      <3> DEFINE A == {c \in answered : scenario.ops[c] = [of |-> "count", column |-> x]}
      <3>1. A \subseteq Recorded(x)
        BY DEF TypeOK, Recorded
      <3>2. /\ IsFiniteSet(Recorded(x)) /\ Cardinality(Recorded(x)) <= rows[Banner][x]
            /\ rows[Banner][x] \in Nat
        BY <2>2, KeyKinds DEF ServiceInv, Counted, IsTable, BannerRow
      <3> HIDE DEF A
      <3>3. /\ Cardinality(A) \in Nat /\ Cardinality(Recorded(x)) \in Nat
            /\ Cardinality(A) <= Cardinality(Recorded(x))
        BY <3>1, <3>2, FS_Subset, FS_CardinalityType
      <3> QED
        BY <3>2, <3>3 DEF A
    <2> QED
      BY <2>1, <2>2 DEF ToldIsKept
  <1>2. ConfigSpec => []TypeOK
    BY ComposedSafety, PTL
  <1> QED
    BY ServiceInductive, <1>1, <1>2, PTL

(***************************************************************************)
(* An address has one active badge unless two grants have overlapped on    *)
(* it: whoever is about to insert one has taken the other away, and would  *)
(* be raced by whoever came between.                                       *)
(***************************************************************************)
THEOREM BadgeHolds == ConfigSpec => []OneBadge
  <1>1. ServiceInv => OneBadge
    <2> SUFFICES ASSUME ServiceInv, NEW k \in DOMAIN rows, k[1] = "badge",
                        Tier(rows[k].address) \notin raced
                 PROVE  Cardinality(Badges(rows[k].address)) <= 1
      BY DEF OneBadge
    <2>1. \A i, j \in Badges(rows[k].address) : i = j
      BY DEF ServiceInv, SingleBadge, ActiveBadge, Badges
    <2>2. CASE Badges(rows[k].address) = {}
      BY <2>2, FS_EmptySet
    <2>3. ASSUME NEW j, Badges(rows[k].address) = {j} PROVE Cardinality(Badges(rows[k].address)) = 1
      BY <2>3, FS_Singleton
    <2> QED
      BY <2>1, <2>2, <2>3
  <1> QED
    BY ServiceInductive, <1>1, PTL
=============================================================================
