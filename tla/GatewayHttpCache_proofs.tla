----------------------- MODULE GatewayHttpCache_proofs -----------------------
(***************************************************************************)
(* What the gateway's HTTP cache holds, for any number of events, keys and *)
(* requests and any disturbances: a body that is older than a finished     *)
(* invalidation was written in a race with it.                             *)
(***************************************************************************)
EXTENDS GatewayHttpCache, TLAPS

\* The notify queue hands the messages over in the order of their events.
InOrder ==
  /\ \A i, j \in 1..Len(channel) : i <= j => channel[i].ver <= channel[j].ver
  /\ \A i \in 1..Len(channel) :
       /\ channel[i].ver <= version
       /\ \A e \in swept.begun : e <= channel[i].ver
  /\ \A e \in swept.begun : e <= version

\* Who is going to write knows of no invalidation newer than what it writes.
WritersAhead ==
  /\ \A h \in running : h.kind = "upsert" => \A e \in h.after : e <= h.ver
  /\ \A r \in Get :
       /\ get[r].pc = "read" => \A e \in get[r].after : e <= version
       /\ get[r].pc = "store" => \A e \in get[r].after : e <= get[r].ver

EntriesAhead ==
  \A k \in Key : cache[k] # NoEntry => \A e \in cache[k].after : e <= cache[k].ver

\* Behind a sweep are only bodies that are new enough or came after it began.
SweptBehind ==
  \A h \in running : h.kind = "invalidate" =>
    /\ h.ver \in swept.begun
    /\ \A k \in Key \ h.todo : cache[k] # NoEntry /\ cache[k].ver < h.ver =>
         h.ver \in cache[k].during

IInv == TypeOK /\ InOrder /\ WritersAhead /\ EntriesAhead /\ SweptBehind /\ StaleOnlyByRace
-----------------------------------------------------------------------------
LEMMA Initially == Init => IInv
<1> SUFFICES ASSUME Init PROVE IInv
  OBVIOUS
<1>1. TypeOK
  BY CacheAssumption DEF Init, TypeOK, Version, Request
<1>2. InOrder
  BY DEF Init, InOrder
<1>3. WritersAhead
  BY DEF Init, WritersAhead
<1>4. EntriesAhead /\ SweptBehind /\ StaleOnlyByRace
  BY DEF Init, EntriesAhead, SweptBehind, StaleOnlyByRace
<1> QED
  BY <1>1, <1>2, <1>3, <1>4 DEF IInv

-----------------------------------------------------------------------------
(* The broker.                                                             *)

LEMMA BrokerStep ==
  ASSUME IInv, Aggregate \/ PublishInvalidate \/ PublishUpsert \/ NoUpsert
  PROVE  IInv'
<1> USE CacheAssumption DEF IInv
<1>1. CASE Aggregate
  <2> USE <1>1 DEF Aggregate, redisVars
  <2>1. version \in Nat /\ version' = version + 1 /\ version' \in Version
    BY DEF TypeOK, Version
  <2>2. TypeOK'
    <3>1. /\ stage' = "invalidate"
          /\ UNCHANGED <<channel, running, cache, volatile, get, swept, faults>>
      OBVIOUS
    <3> QED
      BY <2>1, <3>1, Zenon DEF TypeOK
  <2>3. InOrder'
    <3>1. \A i \in 1..Len(channel) : channel[i].ver \in Nat
      <4>1. \A i \in 1..Len(channel) : channel[i] \in Message
        BY DEF TypeOK
      <4> QED
        BY <4>1, Version \subseteq Nat DEF Message, Version
    <3>2. swept.begun \subseteq Nat
      BY DEF TypeOK, Version
    <3> QED
      BY <2>1, <3>1, <3>2 DEF InOrder
  <2>4. WritersAhead'
    <3>1. \A r \in Get : get[r].after \subseteq Nat
      BY DEF TypeOK, Request, Version
    <3> QED
      BY <2>1, <3>1 DEF WritersAhead
  <2>5. EntriesAhead' /\ SweptBehind' /\ StaleOnlyByRace'
    BY DEF EntriesAhead, SweptBehind, StaleOnlyByRace
  <2> QED
    BY <2>2, <2>3, <2>4, <2>5
<1>2. CASE UNCHANGED <<version, running, redisVars, get, swept>>
  <2> USE <1>2 DEF redisVars
  <2>1. WritersAhead' /\ EntriesAhead' /\ SweptBehind' /\ StaleOnlyByRace'
    BY DEF WritersAhead, EntriesAhead, SweptBehind, StaleOnlyByRace
  <2>2. CASE \E kind \in {"invalidate", "upsert"}, next \in {"upsert", "aggregate"} :
               Publish(kind, next)
    <3>1. PICK kind \in {"invalidate", "upsert"} :
            /\ channel' = Append(channel, [kind |-> kind, ver |-> version])
            /\ stage' \in {"upsert", "aggregate"} /\ faults' = faults
      BY <2>2 DEF Publish
    <3> DEFINE m == [kind |-> kind, ver |-> version]
    <3>2. m \in Message /\ channel \in Seq(Message)
      BY DEF TypeOK, Message
    <3>3. TypeOK'
      BY <3>1, <3>2 DEF TypeOK
    <3>4. /\ Len(channel') = Len(channel) + 1 /\ Len(channel) \in Nat
          /\ \A i \in 1..Len(channel) : channel'[i] = channel[i]
          /\ channel'[Len(channel) + 1].ver = version
      BY <3>1, <3>2
    <3>5. version \in Nat
      BY DEF TypeOK, Version
    <3>6. InOrder'
      BY <3>4, <3>5 DEF InOrder
    <3> QED
      BY <2>1, <3>3, <3>6
  <2>3. CASE UNCHANGED channel /\ stage' \in {"upsert", "aggregate"} /\ faults' \in Nat
    BY <2>1, <2>3 DEF TypeOK, InOrder
  <2>4. \/ \E kind \in {"invalidate", "upsert"}, next \in {"upsert", "aggregate"} :
               Publish(kind, next)
        \/ UNCHANGED channel /\ stage' \in {"upsert", "aggregate"} /\ faults' \in Nat
        \/ Aggregate
    BY DEF PublishInvalidate, PublishUpsert, NoUpsert, PublishLost, Fault, TypeOK
  <2> QED
    BY <1>1, <2>2, <2>3, <2>4
<1> QED
  BY <1>1, <1>2 DEF PublishInvalidate, PublishUpsert, NoUpsert, Publish, PublishLost

-----------------------------------------------------------------------------
(* Notifications.                                                          *)

LEMMA DeliverStep ==
  ASSUME IInv, Deliver
  PROVE  IInv'
<1> USE DEF IInv
<1> DEFINE m == Head(channel)
<1>1. /\ channel \in Seq(Message) /\ channel # << >>
      /\ channel' = Tail(channel) /\ Len(channel) \in Nat \ {0}
      /\ UNCHANGED <<version, stage, cache, volatile, get, faults>>
  BY DEF Deliver, TypeOK, brokerVars, redisVars
<1>2. /\ m \in Message /\ m = channel[1] /\ 1 \in 1..Len(channel)
      /\ Len(channel') = Len(channel) - 1
      /\ \A i \in 1..Len(channel') : channel'[i] = channel[i + 1] /\ i + 1 \in 1..Len(channel)
  BY <1>1
<1>3. \/ UNCHANGED <<running, swept>>
      \/ Begin(m)
  BY DEF Deliver
<1>4. swept.begun \subseteq Version /\ swept.done \subseteq swept.begun /\ m.ver \in Version
  BY <1>2 DEF TypeOK, Message
<1> DEFINE h0 == [kind |-> m.kind, ver |-> m.ver, todo |-> Key, after |-> swept.done]
<1>5. /\ running' \subseteq running \cup {h0}
      /\ swept' \in [begun : SUBSET Version, done : SUBSET Version]
      /\ swept'.done = swept.done /\ swept.begun \subseteq swept'.begun
      /\ swept'.begun \subseteq swept.begun \cup {m.ver}
      /\ h0 \in running' => h0 \in running \/ (m.kind = "invalidate" => m.ver \in swept'.begun)
  <2>1. CASE UNCHANGED <<running, swept>>
    BY <2>1 DEF TypeOK
  <2>2. CASE Begin(m)
    <3>1. swept \in [begun : SUBSET Version, done : SUBSET Version]
      BY DEF TypeOK
    <3> QED
      BY <1>4, <2>2, <3>1 DEF Begin
  <2> QED
    BY <1>3, <2>1, <2>2
<1>6. h0 \in Handler
  BY <1>2, <1>4 DEF Message, Handler
<1>7. TypeOK'
  <2>1. running' \subseteq Handler /\ swept'.done \subseteq swept'.begun
    BY <1>4, <1>5, <1>6 DEF TypeOK
  <2>2. channel' \in Seq(Message)
    BY <1>1
  <2> QED
    BY <1>1, <1>5, <2>1, <2>2, Zenon DEF TypeOK
<1> HIDE DEF h0
<1>8. InOrder'
  <2>1. \A i \in 1..Len(channel) : m.ver <= channel[i].ver
    BY <1>2 DEF InOrder
  <2> HIDE DEF m
  <2> QED
    BY <1>1, <1>2, <1>5, <2>1 DEF InOrder
<1>9. WritersAhead'
  <2>1. h0.kind = m.kind /\ h0.ver = m.ver /\ h0.after = swept.done
    BY DEF h0
  <2>2. \A e \in swept.done : e <= m.ver
    BY <1>2, <1>4 DEF InOrder
  <2> QED
    BY <1>1, <1>5, <2>1, <2>2 DEF WritersAhead
<1>10. EntriesAhead'
  BY <1>1 DEF EntriesAhead
<1>11. SweptBehind'
  <2>1. h0.kind = m.kind /\ h0.ver = m.ver /\ h0.todo = Key
    BY DEF h0
  <2> QED
    BY <1>1, <1>5, <2>1 DEF SweptBehind
<1>12. StaleOnlyByRace'
  BY <1>1, <1>5 DEF StaleOnlyByRace
<1> QED
  BY <1>7, <1>8, <1>9, <1>10, <1>11, <1>12

\* A handler with part of its keys behind it.
LEMMA ProgressMade ==
  ASSUME IInv, NEW h \in running, NEW K \in SUBSET h.todo, Progress(h, K)
  PROVE  /\ running' \subseteq Handler
         /\ \A g \in running' :
              \/ g \in running
              \/ /\ g.kind = h.kind /\ g.ver = h.ver /\ g.after = h.after
                 /\ g.todo = h.todo \ K
<1>1. h \in Handler /\ running \subseteq Handler
  BY DEF IInv, TypeOK
<1> DEFINE g0 == [h EXCEPT !.todo = @ \ K]
<1>2. /\ g0 \in Handler /\ g0.kind = h.kind /\ g0.ver = h.ver /\ g0.after = h.after
      /\ g0.todo = h.todo \ K
  BY <1>1 DEF Handler
<1>3. running' \subseteq running \cup {g0}
  BY DEF Progress
<1> HIDE DEF g0
<1> QED
  BY <1>1, <1>2, <1>3

LEMMA SweepStep ==
  ASSUME IInv, NEW h \in running, NEW K \in SUBSET h.todo, Sweep(h, K)
  PROVE  IInv'
<1> USE DEF IInv
<1>1. /\ h.kind = "invalidate" /\ Progress(h, K)
      /\ cache' = [k \in Key |-> IF k \in K THEN NoEntry ELSE cache[k]]
      /\ volatile' = volatile \ K
      /\ swept' = IF h.todo = K THEN [swept EXCEPT !.done = @ \cup {h.ver}] ELSE swept
      /\ UNCHANGED <<version, stage, channel, get, faults>>
  BY DEF Sweep, brokerVars
<1>2. h \in Handler /\ swept \in [begun : SUBSET Version, done : SUBSET Version]
  BY DEF TypeOK
<1>3. h.ver \in swept.begun /\ h.ver \in Version /\ h.todo \subseteq Key
  BY <1>1, <1>2 DEF SweptBehind, Handler
<1>4. /\ swept' \in [begun : SUBSET Version, done : SUBSET Version]
      /\ swept'.begun = swept.begun /\ swept'.done \subseteq swept.done \cup {h.ver}
      /\ h.ver \in swept'.done => h.todo = K \/ h.ver \in swept.done
  BY <1>1, <1>2, <1>3
<1>5. /\ running' \subseteq Handler
      /\ \A g \in running' :
           \/ g \in running
           \/ /\ g.kind = h.kind /\ g.ver = h.ver /\ g.after = h.after
              /\ g.todo = h.todo \ K
  BY <1>1, ProgressMade
<1>6. \A k \in Key : cache'[k] # NoEntry => k \notin K /\ cache'[k] = cache[k]
  BY <1>1
<1>7. TypeOK'
  <2>1. cache' \in [Key -> Entry \cup {NoEntry}] /\ volatile' \subseteq Key
    BY <1>1 DEF TypeOK
  <2>2. swept'.done \subseteq swept'.begun
    BY <1>3, <1>4 DEF TypeOK
  <2> QED
    BY <1>1, <1>4, <1>5, <2>1, <2>2, Zenon DEF TypeOK
<1>8. InOrder'
  BY <1>1, <1>4 DEF InOrder
<1>9. WritersAhead'
  BY <1>1, <1>5 DEF WritersAhead
<1>10. EntriesAhead'
  BY <1>6 DEF EntriesAhead
<1>11. SweptBehind'
  BY <1>1, <1>3, <1>4, <1>5, <1>6 DEF SweptBehind
<1>12. StaleOnlyByRace'
  <2> SUFFICES ASSUME NEW k \in Key, cache'[k] # NoEntry, NEW e \in swept'.done,
                      cache'[k].ver < e
               PROVE  e \notin cache'[k].after /\ e \in cache'[k].during
    BY DEF StaleOnlyByRace
  <2>1. k \notin K /\ cache'[k] = cache[k]
    BY <1>6
  <2>2. CASE e \in swept.done
    BY <2>1, <2>2 DEF StaleOnlyByRace
  <2>3. CASE e = h.ver /\ h.todo = K
    <3>1. e \in cache[k].during
      BY <1>1, <2>1, <2>3 DEF SweptBehind
    <3>2. cache[k].ver \in Nat /\ e \in Nat
      BY <1>3, <2>1, <2>3 DEF TypeOK, Entry, Version
    <3>3. e \notin cache[k].after
      BY <2>1, <3>2 DEF EntriesAhead
    <3> QED
      BY <2>1, <3>1, <3>3
  <2> QED
    BY <1>4, <2>2, <2>3
<1> QED
  BY <1>7, <1>8, <1>9, <1>10, <1>11, <1>12

\* A body is written: what was begun is known to its entry, and nothing newer
\* than the body had finished when its writer began.
LEMMA Written ==
  ASSUME IInv, NEW k \in Key, NEW e \in Entry,
         e.during = swept.begun, \A v \in e.after : v <= e.ver,
         SetJson(k, e), UNCHANGED <<version, swept>>
  PROVE  /\ cache' \in [Key -> Entry \cup {NoEntry}] /\ volatile' \subseteq Key
         /\ EntriesAhead' /\ StaleOnlyByRace'
         /\ \A j \in Key : j # k => cache'[j] = cache[j]
         /\ cache'[k] = e
<1> USE DEF IInv
<1>1. /\ cache \in [Key -> Entry \cup {NoEntry}] /\ volatile \subseteq Key
      /\ swept.done \subseteq swept.begun /\ swept.done \subseteq Nat
  BY DEF TypeOK, Version
<1>2. /\ cache' = [cache EXCEPT ![k] = e] /\ volatile' = volatile \cup {k}
  BY DEF SetJson
<1>3. cache' \in [Key -> Entry \cup {NoEntry}] /\ volatile' \subseteq Key
  BY <1>1, <1>2
<1>4. cache'[k] = e /\ \A j \in Key : j # k => cache'[j] = cache[j]
  BY <1>1, <1>2
<1>5. EntriesAhead'
  BY <1>4 DEF EntriesAhead
<1>6. StaleOnlyByRace'
  <2> SUFFICES ASSUME NEW j \in Key, cache'[j] # NoEntry, NEW v \in swept.done,
                      cache'[j].ver < v
               PROVE  v \notin cache'[j].after /\ v \in cache'[j].during
    BY DEF StaleOnlyByRace
  <2>1. CASE j # k
    BY <1>4, <2>1 DEF StaleOnlyByRace
  <2>2. CASE j = k
    <3>1. e.ver \in Nat /\ v \in Nat
      BY <1>1 DEF Entry, Version
    <3> QED
      BY <1>1, <1>4, <2>2, <3>1
  <2> QED
    BY <2>1, <2>2
<1> QED
  BY <1>3, <1>4, <1>5, <1>6

LEMMA UpsertStep ==
  ASSUME IInv, NEW h \in running, NEW k \in h.todo, Upsert(h, k)
  PROVE  IInv'
<1> USE DEF IInv
<1> DEFINE e == [ver |-> h.ver, by |-> "upsert", after |-> h.after, during |-> swept.begun]
<1>1. /\ h.kind = "upsert" /\ SetJson(k, e) /\ Progress(h, {k})
      /\ UNCHANGED <<version, stage, channel, get, swept, faults>>
  BY DEF Upsert, brokerVars
<1>2. h \in Handler /\ swept \in [begun : SUBSET Version, done : SUBSET Version]
  BY DEF TypeOK
<1>3. k \in Key /\ e \in Entry
  BY <1>2 DEF Handler, Entry
<1>4. \A v \in h.after : v <= h.ver
  BY <1>1 DEF WritersAhead
<1>5. /\ cache' \in [Key -> Entry \cup {NoEntry}] /\ volatile' \subseteq Key
      /\ EntriesAhead' /\ StaleOnlyByRace'
      /\ \A j \in Key : j # k => cache'[j] = cache[j]
      /\ cache'[k].during = swept.begun
  BY <1>1, <1>3, <1>4, Written
<1> HIDE DEF e
<1>6. /\ running' \subseteq Handler
      /\ \A g \in running' :
           \/ g \in running
           \/ /\ g.kind = h.kind /\ g.ver = h.ver /\ g.after = h.after
              /\ g.todo = h.todo \ {k}
  BY <1>1, ProgressMade
<1>7. TypeOK'
  BY <1>1, <1>5, <1>6, Zenon DEF TypeOK
<1>8. InOrder'
  BY <1>1 DEF InOrder
<1>9. WritersAhead'
  BY <1>1, <1>6 DEF WritersAhead
<1>10. SweptBehind'
  BY <1>1, <1>5, <1>6 DEF SweptBehind
<1> QED
  BY <1>5, <1>7, <1>8, <1>9, <1>10

LEMMA RestartStep ==
  ASSUME IInv, GatewayRestart
  PROVE  IInv'
<1> USE DEF IInv
<1>1. /\ channel' = << >> /\ running' = {} /\ faults' \in Nat
      /\ UNCHANGED <<version, stage, cache, volatile, swept>>
      /\ get' = [r \in Get |-> IF get[r].pc = "new" THEN get[r]
                                ELSE [get[r] EXCEPT !.pc = "done"]]
  BY DEF GatewayRestart, Fault, brokerVars, redisVars, TypeOK
<1>2. \A r \in Get : get'[r] \in Request /\ get'[r].pc \in {"new", "done"}
  <2> TAKE r \in Get
  <2>1. get[r] \in Request
    BY DEF TypeOK
  <2> QED
    BY <1>1, <2>1 DEF Request
<1>3. TypeOK'
  <2>1. get' \in [Get -> Request]
    BY <1>1, <1>2
  <2> QED
    BY <1>1, <2>1 DEF TypeOK
<1>4. InOrder'
  BY <1>1 DEF InOrder
<1>5. WritersAhead'
  BY <1>1, <1>2 DEF WritersAhead
<1>6. EntriesAhead' /\ SweptBehind' /\ StaleOnlyByRace'
  BY <1>1 DEF EntriesAhead, SweptBehind, StaleOnlyByRace
<1> QED
  BY <1>3, <1>4, <1>5, <1>6

-----------------------------------------------------------------------------
(* Requests, and the end of a TTL.                                         *)

LEMMA RequestStep ==
  ASSUME IInv, NEW r \in Get, Lookup(r) \/ Read(r) \/ Store(r) \/ RequestFails(r)
  PROVE  IInv'
<1> USE DEF IInv
<1>1. /\ UNCHANGED <<version, stage, channel, running, swept>>
      /\ faults' \in Nat
  BY DEF Lookup, Read, Store, RequestFails, Fault, brokerVars, redisVars, TypeOK
<1>2. get \in [Get -> Request] /\ version \in Version
      /\ swept.done \subseteq Version /\ swept.begun \subseteq Version
      /\ \A v \in swept.done : v <= version
  BY DEF TypeOK, InOrder
<1>3. /\ get' \in [Get -> Request] /\ WritersAhead'
  <2>1. \A q \in Get : q # r => get'[q] = get[q]
    BY <1>2 DEF Lookup, Read, Store, RequestFails
  <2>2. get[r] \in Request
    BY <1>2
  <2>3. /\ DOMAIN get' = Get /\ get'[r] \in Request
        /\ get'[r].pc = "read" => \A v \in get'[r].after : v <= version
        /\ get'[r].pc = "store" => \A v \in get'[r].after : v <= get'[r].ver
    <3>1. CASE Lookup(r)
      BY <1>2, <2>2, <3>1 DEF Lookup, Request
    <3>2. CASE Read(r)
      BY <1>2, <2>2, <3>2 DEF Read, Request, WritersAhead
    <3>3. CASE Store(r) \/ RequestFails(r)
      BY <1>2, <2>2, <3>3 DEF Store, RequestFails, Request
    <3> QED
      BY <3>1, <3>2, <3>3
  <2>4. get' \in [Get -> Request]
    <3>1. get' = [q \in Get |-> get'[q]]
      BY <1>2 DEF Lookup, Read, Store, RequestFails
    <3> QED
      BY <1>2, <2>1, <2>3, <3>1
  <2> QED
    BY <1>1, <2>1, <2>3, <2>4 DEF WritersAhead
<1>4. InOrder'
  BY <1>1 DEF InOrder
<1>5. CASE UNCHANGED <<cache, volatile>>
  <2>1. TypeOK'
    BY <1>1, <1>3, <1>5 DEF TypeOK
  <2>2. EntriesAhead' /\ SweptBehind' /\ StaleOnlyByRace'
    BY <1>1, <1>5 DEF EntriesAhead, SweptBehind, StaleOnlyByRace
  <2> QED
    BY <1>3, <1>4, <2>1, <2>2
<1>6. CASE Store(r)
  <2> DEFINE k == get[r].key
             e == [ver |-> get[r].ver, by |-> "fill", after |-> get[r].after,
                   during |-> swept.begun]
  <2>1. k \in Key /\ e \in Entry /\ e.during = swept.begun
    BY <1>2 DEF Request, Entry
  <2>2. \A v \in e.after : v <= e.ver
    BY <1>6 DEF WritersAhead, Store
  <2>3. SetJson(k, e)
    BY <1>6 DEF Store
  <2> HIDE DEF k, e
  <2>4. /\ cache' \in [Key -> Entry \cup {NoEntry}] /\ volatile' \subseteq Key
        /\ EntriesAhead' /\ StaleOnlyByRace'
        /\ \A j \in Key : j # k => cache'[j] = cache[j]
        /\ cache'[k].during = swept.begun
    BY <1>1, <2>1, <2>2, <2>3, Written
  <2>5. TypeOK'
    BY <1>1, <1>3, <2>4 DEF TypeOK
  <2>6. SweptBehind'
    BY <1>1, <2>4 DEF SweptBehind
  <2> QED
    BY <1>3, <1>4, <2>4, <2>5, <2>6
<1> QED
  BY <1>5, <1>6 DEF Lookup, Read, RequestFails, redisVars

LEMMA ExpireStep ==
  ASSUME IInv, NEW k \in Key, Expire(k)
  PROVE  IInv'
<1> USE DEF IInv
<1>1. /\ cache' = [cache EXCEPT ![k] = NoEntry] /\ volatile' = volatile \ {k}
      /\ UNCHANGED <<version, stage, channel, running, get, swept, faults>>
  BY DEF Expire, brokerVars
<1>2. \A j \in Key : cache'[j] # NoEntry => cache'[j] = cache[j]
  BY <1>1 DEF TypeOK
<1>3. TypeOK'
  <2>1. cache' \in [Key -> Entry \cup {NoEntry}] /\ volatile' \subseteq Key
    BY <1>1 DEF TypeOK
  <2> QED
    BY <1>1, <2>1 DEF TypeOK
<1>4. InOrder' /\ WritersAhead'
  BY <1>1 DEF InOrder, WritersAhead
<1>5. EntriesAhead' /\ SweptBehind' /\ StaleOnlyByRace'
  BY <1>1, <1>2 DEF EntriesAhead, SweptBehind, StaleOnlyByRace
<1> QED
  BY <1>3, <1>4, <1>5

-----------------------------------------------------------------------------
LEMMA StepInv == IInv /\ [Next]_vars => IInv'
<1> SUFFICES ASSUME IInv, [Next]_vars PROVE IInv'
  OBVIOUS
<1>1. CASE Aggregate \/ PublishInvalidate \/ PublishUpsert \/ NoUpsert
  BY <1>1, BrokerStep
<1>2. CASE Deliver
  BY <1>2, DeliverStep
<1>3. CASE Notify
  <2>1. PICK h \in running : \/ \E K \in SUBSET h.todo \ {{}} : Sweep(h, K)
                             \/ \E k \in h.todo : Upsert(h, k)
    BY <1>3 DEF Notify
  <2>2. CASE \E K \in SUBSET h.todo : Sweep(h, K)
    BY <2>2, SweepStep
  <2>3. CASE \E k \in h.todo : Upsert(h, k)
    BY <2>3, UpsertStep
  <2> QED
    BY <2>1, <2>2, <2>3
<1>4. CASE GatewayRestart
  BY <1>4, RestartStep
<1>5. CASE \E r \in Get : Lookup(r) \/ Read(r) \/ Store(r) \/ RequestFails(r)
  BY <1>5, RequestStep
<1>6. CASE \E k \in Key : Expire(k)
  BY <1>6, ExpireStep
<1>7. CASE UNCHANGED vars
  BY <1>7 DEF vars, IInv, TypeOK, InOrder, WritersAhead, EntriesAhead, SweptBehind,
              StaleOnlyByRace
<1> QED
  BY <1>1, <1>2, <1>3, <1>4, <1>5, <1>6, <1>7 DEF Next

LEMMA Invariant == Spec => []IInv
<1>1. Init => IInv
  BY Initially
<1>2. IInv /\ [Next]_vars => IInv'
  BY StepInv
<1> QED
  BY <1>1, <1>2, PTL DEF Spec

(***************************************************************************)
(* The variables of the cache, the notify queue, its handlers and the      *)
(* requests keep their types.                                              *)
(***************************************************************************)
THEOREM TypeCorrect == Spec => []TypeOK
<1>1. IInv => TypeOK
  BY DEF IInv
<1> QED
  BY <1>1, Invariant, PTL

(***************************************************************************)
(* A body older than a finished invalidation was written in a race with    *)
(* it: its writer began before the invalidation finished and wrote after   *)
(* it began.  handleBrokerNotify is not awaited, so that is all there is.  *)
(***************************************************************************)
THEOREM StaleBodiesRaced == Spec => []StaleOnlyByRace
<1>1. IInv => StaleOnlyByRace
  BY DEF IInv
<1> QED
  BY <1>1, Invariant, PTL
=============================================================================
