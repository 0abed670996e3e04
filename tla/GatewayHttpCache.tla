-------------------------- MODULE GatewayHttpCache --------------------------
(***************************************************************************)
(* The gateway's HTTP cache in Redis: filled by GETs that miss, emptied by *)
(* invalidations and refilled by upserts that the broker sends for each    *)
(* event it has aggregated.  The notify consumer has no prefetch limit and *)
(* does not await handleBrokerNotify, so handlers of successive messages   *)
(* interleave at every Redis round trip.                                   *)
(*                                                                         *)
(* version is the number of events aggregated; a response body is the      *)
(* version it was computed from.  All keys are matched by the prefixes of  *)
(* every invalidation (broadListPrefixes).                                 *)
(***************************************************************************)
EXTENDS Naturals, Sequences

CONSTANTS
  N,          \* number of events aggregated
  Key,        \* cache keys, GET:<url>
  Get,        \* HTTP GET requests
  NoEntry,    \* a key that Redis does not hold
  MaxFaults   \* bound: messages lost, failing requests, gateway restarts

ASSUME CacheAssumption == N \in Nat \ {0} /\ MaxFaults \in Nat

VARIABLES
  version,     \* the broker's read models: events aggregated so far
  stage,       \* what handleIndexerMessage does next for event version
  channel,     \* the gateway's notify queue
  running,     \* calls of handleBrokerNotify
  cache,       \* cache[k]: entry of key k
  volatile,    \* keys that carry a TTL
  get,         \* get[r]: progress of request r
  swept,       \* history: invalidations begun and finished, by version
  faults       \* counter of disturbances

brokerVars == <<version, stage>>
redisVars == <<cache, volatile>>
vars == <<version, stage, channel, running, cache, volatile, get, swept, faults>>

Version == 0..N
Message == [kind : {"invalidate", "upsert"}, ver : Version]

\* An entry: its body, who wrote it, the invalidations that had finished when
\* its writer began, and those that had begun when it was written.
Entry == [ver : Version, by : {"fill", "upsert"},
          after : SUBSET Version, during : SUBSET Version]

\* A running handler has the keys todo before it and knows what had finished
\* when it began.
Handler == [kind : {"invalidate", "upsert"}, ver : Version, todo : SUBSET Key,
            after : SUBSET Version]

Request == [pc : {"new", "read", "store", "done"}, key : Key, ver : Version,
            after : SUBSET Version]

Init ==
  /\ version = 0 /\ stage = "aggregate"
  /\ channel = << >> /\ running = {}
  /\ cache = [k \in Key |-> NoEntry] /\ volatile = {}
  /\ get \in [Get -> [pc : {"new"}, key : Key, ver : {0}, after : {{}}]]
  /\ swept = [begun |-> {}, done |-> {}]
  /\ faults = 0

Fault == faults < MaxFaults /\ faults' = faults + 1

-----------------------------------------------------------------------------
(* The broker, for one event after the other.                              *)

Aggregate ==
  /\ stage = "aggregate" /\ version < N
  /\ version' = version + 1 /\ stage' = "invalidate"
  /\ UNCHANGED <<channel, running, redisVars, get, swept, faults>>

Publish(kind, next) ==
  /\ stage = kind
  /\ channel' = Append(channel, [kind |-> kind, ver |-> version])
  /\ stage' = next
  /\ UNCHANGED <<version, running, redisVars, get, swept, faults>>

\* publishToGateway fails, or no gateway is bound to the exchange.
PublishLost(kind, next) ==
  /\ stage = kind
  /\ Fault
  /\ stage' = next
  /\ UNCHANGED <<version, channel, running, redisVars, get, swept>>

\* fanOutFromIndexerPayload, then publishAfterIndexerFanout for a Swap.
PublishInvalidate ==
  Publish("invalidate", "upsert") \/ PublishLost("invalidate", "upsert")

PublishUpsert ==
  Publish("upsert", "aggregate") \/ PublishLost("upsert", "aggregate")

NoUpsert ==
  /\ stage = "upsert" /\ stage' = "aggregate"
  /\ UNCHANGED <<version, channel, running, redisVars, get, swept, faults>>

-----------------------------------------------------------------------------
(* The gateway: notifications.                                             *)

Begin(m) ==
  /\ running' = running \cup
       {[kind |-> m.kind, ver |-> m.ver, todo |-> Key, after |-> swept.done]}
  /\ swept' = IF m.kind = "invalidate"
                THEN [swept EXCEPT !.begun = @ \cup {m.ver}] ELSE swept

\* Messages are delivered in order; their handlers run concurrently.  A payload
\* that neither guard recognises is only passed on to the sockets.
Deliver ==
  /\ channel # << >>
  /\ Begin(Head(channel)) \/ UNCHANGED <<running, swept>>
  /\ channel' = Tail(channel)
  /\ UNCHANGED <<brokerVars, redisVars, get, faults>>

\* Variant for checking: SET without EX; an upsert takes the TTL off a key.
SetJsonForever(k, e) ==
  /\ cache' = [cache EXCEPT ![k] = e]
  /\ volatile' = volatile \ {k}

\* SET key value EX ttl.
SetJson(k, e) ==
  /\ cache' = [cache EXCEPT ![k] = e]
  /\ volatile' = volatile \cup {k}

Progress(h, K) ==
  running' = IF h.todo = K THEN running \ {h}
             ELSE (running \ {h}) \cup {[h EXCEPT !.todo = @ \ K]}

\* Variant for checking: the scan ends after its first page.
SweepFirstPage(h, K) ==
  /\ h \in running /\ h.kind = "invalidate"
  /\ cache' = [k \in Key |-> IF k \in K THEN NoEntry ELSE cache[k]]
  /\ volatile' = volatile \ K
  /\ running' = running \ {h}
  /\ swept' = [swept EXCEPT !.done = @ \cup {h.ver}]
  /\ UNCHANGED <<brokerVars, channel, get, faults>>

\* One page of SCAN and its UNLINK.
Sweep(h, K) ==
  /\ h \in running /\ h.kind = "invalidate"
  /\ cache' = [k \in Key |-> IF k \in K THEN NoEntry ELSE cache[k]]
  /\ volatile' = volatile \ K
  /\ Progress(h, K)
  /\ swept' = IF h.todo = K THEN [swept EXCEPT !.done = @ \cup {h.ver}] ELSE swept
  /\ UNCHANGED <<brokerVars, channel, get, faults>>

\* One turn of the loop of applyUpsert.
Upsert(h, k) ==
  /\ h \in running /\ h.kind = "upsert"
  /\ SetJson(k, [ver |-> h.ver, by |-> "upsert", after |-> h.after,
                 during |-> swept.begun])
  /\ Progress(h, {k})
  /\ UNCHANGED <<brokerVars, channel, get, swept, faults>>

Notify ==
  \E h \in running :
    \/ \E K \in SUBSET h.todo \ {{}} : Sweep(h, K)
    \/ \E k \in h.todo : Upsert(h, k)

\* The notify queue is not durable and autoDelete: it goes with the process.
GatewayRestart ==
  /\ Fault
  /\ channel' = << >> /\ running' = {}
  /\ get' = [r \in Get |-> IF get[r].pc = "new" THEN get[r]
                           ELSE [get[r] EXCEPT !.pc = "done"]]
  /\ UNCHANGED <<brokerVars, redisVars, swept>>

-----------------------------------------------------------------------------
(* The gateway: HttpCacheInterceptor.                                      *)

\* A cached entry, fresh or stale, is the response; a miss goes to the broker.
Lookup(r) ==
  /\ get[r].pc = "new"
  /\ get' = [get EXCEPT ![r].pc = IF cache[get[r].key] = NoEntry THEN "read" ELSE "done",
                        ![r].after = swept.done]
  /\ UNCHANGED <<brokerVars, channel, running, redisVars, swept, faults>>

\* Variant for checking: a call that timed out passes for an empty body.
ReadUndefined(r) ==
  /\ get[r].pc = "read"
  /\ \E v \in {version, NoEntry} :
       get' = [get EXCEPT ![r].pc = "store", ![r].ver = v]
  /\ UNCHANGED <<brokerVars, channel, running, redisVars, swept, faults>>

\* The broker computes the body.
Read(r) ==
  /\ get[r].pc = "read"
  /\ get' = [get EXCEPT ![r].pc = "store", ![r].ver = version]
  /\ UNCHANGED <<brokerVars, channel, running, redisVars, swept, faults>>

Store(r) ==
  /\ get[r].pc = "store"
  /\ SetJson(get[r].key, [ver |-> get[r].ver, by |-> "fill",
                          after |-> get[r].after, during |-> swept.begun])
  /\ get' = [get EXCEPT ![r].pc = "done"]
  /\ UNCHANGED <<brokerVars, channel, running, swept, faults>>

\* RPC timeout, error status, Redis error: nothing is cached.
RequestFails(r) ==
  /\ get[r].pc \in {"new", "read", "store"}
  /\ Fault
  /\ get' = [get EXCEPT ![r].pc = "done"]
  /\ UNCHANGED <<brokerVars, channel, running, redisVars, swept>>

\* Redis drops an entry whose TTL has run out.
Expire(k) ==
  /\ k \in volatile
  /\ cache' = [cache EXCEPT ![k] = NoEntry]
  /\ volatile' = volatile \ {k}
  /\ UNCHANGED <<brokerVars, channel, running, get, swept, faults>>

Next ==
  \/ Aggregate \/ PublishInvalidate \/ PublishUpsert \/ NoUpsert
  \/ Deliver \/ Notify \/ GatewayRestart
  \/ \E r \in Get : Lookup(r) \/ Read(r) \/ Store(r) \/ RequestFails(r)
  \/ \E k \in Key : Expire(k)

\* Deliveries, handlers and requests in progress go on; TTLs run out.
Fairness ==
  /\ WF_vars(Deliver) /\ WF_vars(Notify)
  /\ \A r \in Get : WF_vars(Read(r) \/ Store(r))
  /\ \A k \in Key : WF_vars(Expire(k))

Spec == Init /\ [][Next]_vars
FairSpec == Spec /\ Fairness
-----------------------------------------------------------------------------
(* Properties.                                                             *)

TypeOK ==
  /\ version \in Version /\ stage \in {"aggregate", "invalidate", "upsert"}
  /\ channel \in Seq(Message) /\ running \subseteq Handler
  /\ cache \in [Key -> Entry \cup {NoEntry}]
  /\ volatile \subseteq Key
  /\ get \in [Get -> Request]
  /\ swept \in [begun : SUBSET Version, done : SUBSET Version]
  /\ swept.done \subseteq swept.begun
  /\ faults \in Nat

(***************************************************************************)
(* A body older than an invalidation that has finished is in the cache     *)
(* only through a race: its writer began before the invalidation finished  *)
(* and wrote after it began.  What was there before is gone, and a GET or  *)
(* an upsert that begins later brings a newer body.                        *)
(***************************************************************************)
StaleOnlyByRace ==
  \A k \in Key : cache[k] # NoEntry =>
    \A e \in swept.done : cache[k].ver < e =>
      e \notin cache[k].after /\ e \in cache[k].during

(***************************************************************************)
(* Such races, lost messages and restarts leave nothing stale for good:    *)
(* when the events stop, what the cache holds is in the end current,       *)
(* because every SET carries a TTL.                                        *)
(***************************************************************************)
EventuallyCurrent ==
  <>[](\A k \in Key : cache[k] # NoEntry => cache[k].ver = version)

(***************************************************************************)
(* "Invoked after fanOutFromIndexerPayload so prior HTTP cache             *)
(* invalidations have run; repopulates": an invalidation does not delete   *)
(* what an upsert for the same or a later event has put there.             *)
(***************************************************************************)
UpsertSurvives ==
  [][\A h \in running : \A K \in SUBSET h.todo : Sweep(h, K) =>
       \A k \in K : cache[k] # NoEntry =>
         ~(cache[k].by = "upsert" /\ cache[k].ver >= h.ver)]_vars
=============================================================================
