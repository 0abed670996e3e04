----------------------------- MODULE ReadModels -----------------------------
(***************************************************************************)
(* The read models of the spot market under everything that writes them:   *)
(* the consumer, the replay tool, the minute cron (whose runs may overlap) *)
(* and the catalog's administrators, each at its own statement.            *)
(*                                                                         *)
(* The log is settled in order and may be published again from any event   *)
(* on (IndexerIngest).  A scenario bounds a behaviour: the types the n-th  *)
(* event may have, its pools, whether creations carry TokenInfo, the       *)
(* ranges of mints, the actors beside the consumer and how many events are *)
(* settled before they start, the days and the faults.                     *)
(***************************************************************************)
EXTENDS SpotPrograms, FiniteSetsExt

CONSTANTS
  Scenarios,     \* bounds: records [shape, pools, info, ranges, actors, quiet, days, faults]
  FeeBps         \* fees in basis points

\* The tick ranges of mints are records [lo, hi].
EventTypes ==
  {"created", "setFee", "customFee", "moduleFee", "capSet", "feeReset", "default", "discount",
   "undiscount", "whitelist", "mint", "swap", "gauge", "claim", "stake"}

PairRow(days) ==
  [dyn : BOOLEAN, bps : FeeBps \cup {Unset}, src : AnySource, cl : BOOLEAN,
   flip : BOOLEAN, listed : BOOLEAN, gauge : BOOLEAN,
   price : {"none", "token1/token0", "token0/token1"}, day : 0..days,
   dayTvl : Nat, dayUsd : Nat, liquidity : Nat, fees : Nat]
TokenRow(days) ==
  [listed : BOOLEAN, day : 0..days, dayVol : Nat, dayTvl : Nat, trades : Nat \cup {NaN}]
BucketRow == [volume : Nat, tvl : Nat, trades : Nat, pairs : Nat]

ASSUME ScenariosAssumption ==
  \A s \in Scenarios :
    /\ s.pools \subseteq Pool /\ s.info \subseteq BOOLEAN /\ s.days \in Nat \ {0}
    /\ Len(s.shape) \in Nat /\ DOMAIN s.shape = 1..Len(s.shape)
    /\ \A n \in DOMAIN s.shape : s.shape[n] \subseteq EventTypes
    /\ \A r \in s.ranges : r.lo \in Int /\ r.hi \in Int /\ r.lo < r.hi
    /\ NoRow \notin PairRow(s.days) \cup TokenRow(s.days) \cup BucketRow

\* Unset and NoRow stand for null: no fee is set to that, and no row is it.
SettingRow ==
  [value : FeeBps \cup {Unset}] \cup [on : BOOLEAN]
    \cup [base : FeeBps \cup {Unset}, cap : FeeBps \cup {Unset}]
    \cup [volatile : FeeBps \cup {Unset}, stable : FeeBps \cup {Unset}]

ASSUME SettingsAssumption == Unset \notin FeeBps /\ NoRow \notin SettingRow

VARIABLES
  scenario,
  log,        \* events in chain order, chosen at the start
  rows,       \* the tables, by key
  candle,     \* swaps in each 1d bucket of the token, by day
  now,        \* day of the wall clock
  next,       \* event whose message is the next to be settled
  at,         \* event each actor handles; 0: none
  selected,   \* events the replay has yet to run
  todo,       \* statements each actor has yet to run
  held,       \* row each actor has loaded to write it back
  started,    \* history: times each event was taken up
  done,       \* history: times it was handled to the end
  raced,      \* history: rows written between another's load and its write
  ahead,      \* history: the cron read a candle whose swap the token had yet to get
  lost,       \* history: events whose first publication was lost
  dropped,    \* history: an error ended a handler, or an event was lost
  unordered,  \* history: a replay ran beside the consumer, or ended early
  faults

jobVars == <<at, todo, held>>
history == <<started, done, raced, ahead, lost, dropped, unordered>>
vars == <<scenario, log, rows, candle, now, next, selected, jobVars, history, faults>>

Cron == {"cron", "cron2"}
Actor == {"consumer", "replay", "admin"} \cup Cron
Broker == Actor \ {"replay"}             \* one process
Side == {0, 1}                           \* the tokens of the pools
NoHold == [key |-> <<"none", 0>>, row |-> NoRow]

-----------------------------------------------------------------------------
(* The chain (external).                                                   *)

Event(s, type, d) ==
  LET cl == {p \in s.pools : CL(p)}
      basic == s.pools \ cl
  IN CASE type = "created" -> [type : {type}, pool : s.pools, info : s.info, day : {d}]
       [] type = "setFee" -> [type : {type}, class : {Class[p] : p \in basic}, bps : FeeBps, day : {d}]
       [] type = "customFee" -> [type : {type}, pool : basic, bps : FeeBps, day : {d}]
       [] type = "moduleFee" -> [type : {type}, pool : cl, bps : FeeBps, day : {d}]
       [] type = "capSet" -> [type : {type}, pool : cl, bps : FeeBps, day : {d}]
       [] type = "feeReset" -> [type : {type}, pool : cl, day : {d}]
       [] type \in {"default", "discount"} -> [type : {type}, bps : FeeBps, day : {d}]
       [] type = "undiscount" -> [type : {type}, day : {d}]
       [] type = "whitelist" -> [type : {type}, side : Side, on : BOOLEAN, day : {d}]
       [] type = "mint" ->
            [type : {type}, pool : basic, day : {d}]
              \cup {[type |-> type, pool |-> p, day |-> d, lo |-> r.lo, hi |-> r.hi] :
                      p \in cl, r \in s.ranges}
       [] type \in {"swap", "gauge", "claim", "stake"} -> [type : {type}, pool : s.pools, day : {d}]

Events(s, n) == UNION {Event(s, t, d) : t \in s.shape[n], d \in 1..s.days}
Anywhere == {"setFee", "default", "discount", "undiscount", "whitelist"}   \* of no pool
Of(type, p, l) == {n \in DOMAIN l : l[n].type = type /\ l[n].pool = p}

\* A pool is created before it is used; the router and the factory report one
\* creation of a CL pool twice, in the same transaction.  A gauge is created once,
\* before it is staked in or rewards its voters.
Feasible(l) ==
  /\ \A m, n \in DOMAIN l : m < n => l[m].day <= l[n].day
  /\ \A n \in DOMAIN l :
       l[n].type \notin Anywhere =>
         LET C == Of("created", l[n].pool, l) IN
         /\ C # {} /\ Min(C) <= n
         /\ l[n].type = "created" =>
              n = Min(C) \/ (CL(l[n].pool) /\ n = Min(C) + 1 /\ l[n] = l[n - 1])
         /\ LET G == Of("gauge", l[n].pool, l) IN
            /\ l[n].type \in {"claim", "stake"} => \E m \in G : m < n
            /\ l[n].type = "gauge" => G = {n}

Drawn(s, l) == \A n \in DOMAIN l : l[n] \in Events(s, n)
Logs(s) ==
  {l \in [DOMAIN s.shape -> UNION {Events(s, n) : n \in DOMAIN s.shape}] :
     Drawn(s, l) /\ Feasible(l)}

Init ==
  /\ scenario \in Scenarios /\ log \in Logs(scenario)
  /\ rows = << >> /\ candle = << >> /\ now = 1 /\ next = 1
  /\ at = [a \in Actor |-> 0] /\ selected = {}
  /\ todo = [a \in Actor |-> << >>] /\ held = [a \in Actor |-> NoHold]
  /\ started = [n \in DOMAIN log |-> 0] /\ done = started
  /\ raced = {} /\ lost = {} /\ ahead = FALSE /\ dropped = FALSE /\ unordered = FALSE /\ faults = 0

Fault == faults < scenario.faults /\ faults' = faults + 1
-----------------------------------------------------------------------------
(* What a query finds.                                                     *)

Stored == {n \in DOMAIN log : started[n] > 0}          \* in indexed_events
Row(k) == IF k \in DOMAIN rows THEN rows[k] ELSE NoRow
Pools(classes) == {p \in Pool : Edge(p) \in DOMAIN rows /\ rows[Edge(p)].class \in classes}

\* The first in address order, as a set.
First(S) == IF S = {} THEN {} ELSE {Min(S)}

\* resolveV2Pool, resolvePoolForSwapEvent: the pools of the event's class.
ResolveByClass(p) == First(Pools({Class[p]}))

\* resolveCLPool: the pool of the event's tick spacing, or else any CL pool.
ResolveCL(p) ==
  IF p \in Pools({"cl"}) THEN {p} ELSE First(Pools({"cl"}))

\* resolvePoolForTokens: of all pools of the tokens, whatever their class.
ResolveByTokens == First(Pools({Class[p] : p \in Pool}))

ForPool(S, Prog(_)) == IF S = {} THEN << >> ELSE Prog(CHOOSE p \in S : TRUE)

ApplyFactoryTier(p) ==
  IF Row(Tiers) = NoRow \/ rows[Tiers][Class[p]] = Unset THEN << >>
  ELSE << Update({Pair(p)}, AnySource,
                 [bps |-> rows[Tiers][Class[p]], src |-> "factory_tier"]) >>

SetCustomFee(p, bps) ==
  IF Row(Pair(p)) = NoRow \/ rows[Pair(p)].cl THEN << >>
  ELSE << Update({Pair(p)}, AnySource, Fee(FALSE, bps, "factory_custom")) >>

Mint(e) ==
  IF CL(e.pool)
    THEN IF ResolveCL(e.pool) = {} THEN << Raise >>
         ELSE ForPool(ResolveCL(e.pool), LAMBDA p : onCLLiquidityAdded(p, e))
  ELSE ForPool(ResolveByClass(e.pool), LAMBDA p : onLiquidityAdded(p, e))

\* Tokens of the graph only; the look-back needs a bucket before today's.
InGraph == ResolveByTokens # {}
Backfill == IF \E d \in DOMAIN candle : d < now THEN flushBfFieldsForTokenChunk ELSE << >>
Measure(d) ==
  IF InGraph /\ d \in DOMAIN candle
    THEN flushSpotTokenProfileMetricsChunk(d, candle[d]) ELSE << >>

\* The pool of the gauge event that names the contract the claim is of.
PoolOfReward(q) ==
  IF \E n \in Stored : log[n].type = "gauge" /\ log[n].pool = q.pool THEN q.pool ELSE Unset

Answer(q) ==
  CASE q.of = "tier" -> ApplyFactoryTier(q.pool)
    [] q.of = "custom" -> SetCustomFee(q.pool, q.bps)
    [] q.of = "mint" -> Mint(q)
    [] q.of = "claim" -> << Insert(Claim(q.id), [pool |-> PoolOfReward(q)]) >>
    [] q.of = "swap" -> ForPool(ResolveByClass(q.pool), onSwapReserves)
    [] q.of = "trade" -> onSwapCandles(ResolveByTokens, q)
    [] q.of = "candles" -> IF InGraph THEN << Candle(q.day, 0) >> ELSE << >>
    [] q.of = "backfill" -> Backfill
    [] q.of = "measure" -> Measure(q.day)
-----------------------------------------------------------------------------
(* The statements.                                                         *)

S(a) == Head(todo[a])
Rest(a) == Tail(todo[a])
Is(a, op) == todo[a] # << >> /\ S(a).op = op

One(k, r) == [j \in {k} |-> r]

Become(a, prog) == todo' = [todo EXCEPT ![a] = prog]
Release(a) == held' = [held EXCEPT ![a] = NoHold]
Untouched == 
  UNCHANGED <<scenario, log, now, next, at, selected, started, done, lost, unordered, faults>>

\* a writes these rows: whoever has loaded one of them now holds an old one.
Write(a, written) ==
  /\ rows' = Over(written, rows)
  /\ raced' = raced \cup {k \in DOMAIN written : \E b \in Actor \ {a} : held[b].key = k}

\* Between the candle of a swap and its token row.
Counting(b) ==
  \E i \in DOMAIN todo[b] :
    /\ todo[b][i].op = "save" /\ todo[b][i].edit.of = "tradeToken"
    /\ \A j \in 1..i : todo[b][j].op # "candle"

RunQuery(a) ==
  /\ Is(a, "query")
  /\ Become(a, Answer(S(a)) \o Rest(a))
  /\ ahead' = (ahead \/ (S(a).of = "measure" /\ \E b \in Actor : Counting(b)))
  /\ Untouched /\ UNCHANGED <<rows, candle, held, raced, dropped>>

RunFind(a) ==
  /\ Is(a, "find")
  /\ LET s == S(a) IN
       IF Row(s.key) = NoRow /\ s.skip > 0
         THEN Become(a, SubSeq(Rest(a), s.skip + 1, Len(Rest(a)))) /\ UNCHANGED held
         ELSE /\ Become(a, Rest(a))
              /\ held' = [held EXCEPT ![a] = [key |-> s.key, row |-> Row(s.key)]]
  /\ Untouched /\ UNCHANGED <<rows, candle, raced, ahead, dropped>>

\* Tagged as part of the rollup like the statement it follows from.
Following(s, prog) ==
  IF "rollup" \in DOMAIN s THEN [i \in DOMAIN prog |-> InRollup(prog[i])] ELSE prog

\* The SELECT of a save, but for a new entity whose key is yet to be generated; a
\* bucket that was not found is counted afterwards.
RunSave(a) ==
  /\ Is(a, "save")
  /\ LET s == S(a)
         row == IF held[a].row = NoRow /\ Generated(s.key) THEN NoRow ELSE Row(s.key)
         patch == Difference(Edited(s.edit, held[a].row), row)
         insert == row = NoRow
         write == IF DOMAIN patch = {} THEN << >>
                  ELSE << [op |-> "write", key |-> s.key, patch |-> patch, insert |-> insert] >>
         count == IF IsBucket(s.key) /\ held[a].row = NoRow
                    THEN CountBucket(s.key[1]) ELSE << >>
     IN /\ Become(a, Following(s, write \o count) \o Rest(a))
        /\ IF write = << >> THEN Release(a) ELSE UNCHANGED held
  /\ Untouched /\ UNCHANGED <<rows, candle, raced, ahead, dropped>>

\* Its INSERT or UPDATE.
RunWrite(a) ==
  /\ Is(a, "write")
  /\ S(a).insert => Row(S(a).key) = NoRow
  /\ Write(a, One(S(a).key, Patched(S(a).patch, Row(S(a).key))))
  /\ Become(a, Rest(a)) /\ Release(a)
  /\ Untouched /\ UNCHANGED <<candle, ahead, dropped>>

\* An UPDATE of columns computed from the row loaded before.
RunSet(a) ==
  /\ Is(a, "set")
  /\ LET s == S(a)
         new == Edited(s.edit, held[a].row)
     IN Write(a, One(s.key, Over([c \in s.cols |-> new[c]], Row(s.key))))
  /\ Become(a, Rest(a)) /\ Release(a)
  /\ Untouched /\ UNCHANGED <<candle, ahead, dropped>>

RunUpsert(a) ==
  /\ Is(a, "upsert")
  /\ LET s == S(a) IN
       Write(a, One(s.key, IF Row(s.key) = NoRow THEN s.new ELSE Over(s.patch, Row(s.key))))
  /\ Become(a, Rest(a))
  /\ Untouched /\ UNCHANGED <<candle, held, ahead, dropped>>

RunUpdate(a) ==
  /\ Is(a, "update")
  /\ LET s == S(a)
         K == {k \in s.keys : Row(k) # NoRow /\ rows[k].src \in s.where}
     IN Write(a, [k \in K |-> Over(s.patch, rows[k])])
  /\ Become(a, Rest(a))
  /\ Untouched /\ UNCHANGED <<candle, held, ahead, dropped>>

BothWhitelisted == \A side \in Side : Row(Whitelisted(side)) # NoRow /\ rows[Whitelisted(side)].on

\* GREATEST and + on the row there is.
Computed(expr, row) ==
  CASE expr.of = "gauge" -> [row EXCEPT !.gauge = BothWhitelisted]
    [] expr.of = "account" ->
         [row EXCEPT !.trades = @ + expr.trades, !.last = Max({@, expr.day})]

RunCompute(a) ==
  /\ Is(a, "compute")
  /\ Write(a, [k \in S(a).keys \cap DOMAIN rows |-> Computed(S(a).expr, rows[k])])
  /\ Become(a, Rest(a))
  /\ Untouched /\ UNCHANGED <<candle, held, ahead, dropped>>

RunDelete(a) ==
  /\ Is(a, "delete")
  /\ rows' = Restrict(rows, DOMAIN rows \ {S(a).key})
  /\ Become(a, Rest(a))
  /\ Untouched /\ UNCHANGED <<candle, held, raced, ahead, dropped>>

\* The bucket of the day, and flat ones up to it; an older one is not created.
Candles(d, n) ==
  IF candle = << >> THEN One(d, n)
  ELSE IF d \in DOMAIN candle THEN [candle EXCEPT ![d] = @ + n]
  ELSE IF d < Max(DOMAIN candle) THEN candle
  ELSE Over(One(d, n), Over(candle, [e \in Max(DOMAIN candle)..d |-> 0]))

\* The bucket transactions (OhlcvBuckets).
RunCandle(a) ==
  /\ Is(a, "candle")
  /\ candle' = Candles(S(a).day, S(a).count)
  /\ Become(a, Rest(a))
  /\ Untouched /\ UNCHANGED <<rows, held, raced, ahead, dropped>>

\* What follows the last statement of the rollup.
AfterRollup(prog) ==
  LET last == CHOOSE i \in DOMAIN prog :
                /\ "rollup" \in DOMAIN prog[i]
                /\ \A j \in DOMAIN prog : "rollup" \in DOMAIN prog[j] => j <= i
  IN SubSeq(prog, last + 1, Len(prog))

\* An error ends the rollup when it is in one, the whole handler otherwise, but for
\* the statement that was sent beside it.
Abandon(a) ==
  /\ Become(a, IF "rollup" \in DOMAIN S(a) THEN AfterRollup(todo[a])
               ELSE IF "beside" \in DOMAIN S(a) THEN Rest(a) ELSE << >>)
  /\ Release(a)
  /\ dropped' = TRUE
  /\ UNCHANGED <<scenario, log, rows, candle, now, next, at, selected, started, done, raced, ahead, lost, unordered>>

\* Two inserted the same row; or a pool that a mint needs is missing.
Refused(a) ==
  /\ \/ Is(a, "write") /\ S(a).insert /\ Row(S(a).key) # NoRow
     \/ Is(a, "raise")
  /\ Abandon(a) /\ UNCHANGED faults

Fail(a) == todo[a] # << >> /\ Fault /\ Abandon(a)

Step(a) ==
  \/ RunQuery(a) \/ RunFind(a) \/ RunSave(a) \/ RunWrite(a) \/ RunSet(a)
  \/ RunUpsert(a) \/ RunUpdate(a) \/ RunCompute(a) \/ RunDelete(a)
  \/ RunCandle(a) \/ Refused(a)
-----------------------------------------------------------------------------
(* The actors.                                                             *)

Idle(a) == at[a] = 0 /\ todo[a] = << >>
MayStart(a) == a \in scenario.actors /\ Idle(a) /\ next > scenario.quiet

Begin(a, n) ==
  /\ at' = [at EXCEPT ![a] = n]
  /\ \E prog \in Programs(Over([id |-> n], log[n])) : Become(a, prog)
  /\ started' = [started EXCEPT ![n] = @ + 1]

Deliver ==
  /\ Idle("consumer") /\ next \in DOMAIN log /\ log[next].day <= now
  /\ Begin("consumer", next)
  /\ unordered' = (unordered \/ ~Idle("replay"))
  /\ UNCHANGED <<scenario, log, rows, candle, now, next, selected, held, done, raced, ahead, lost, dropped, faults>>

Acknowledge ==
  /\ at["consumer"] # 0 /\ todo["consumer"] = << >>
  /\ next' = next + 1 /\ at' = [at EXCEPT !["consumer"] = 0]
  /\ done' = [done EXCEPT ![next] = @ + 1]
  /\ UNCHANGED <<scenario, log, rows, candle, now, selected, todo, held, started,
                 raced, ahead, lost, dropped, unordered, faults>>

\* The broker ends; the message in hand is delivered again.
Restart ==
  /\ Fault /\ \E a \in Broker : ~Idle(a)
  /\ at' = [a \in Actor |-> IF a \in Broker THEN 0 ELSE at[a]]
  /\ todo' = [a \in Actor |-> IF a \in Broker THEN << >> ELSE todo[a]]
  /\ held' = [a \in Actor |-> IF a \in Broker THEN NoHold ELSE held[a]]
  /\ UNCHANGED <<scenario, log, rows, candle, now, next, selected, history>>

\* The indexer restarts and publishes a suffix of the log again.
Rewind ==
  /\ Fault /\ Idle("consumer")
  /\ next' \in 1..(next - 1)
  /\ UNCHANGED <<scenario, log, rows, candle, now, selected, jobVars, history>>

\* The publication of an event fails, or its row cannot be stored: either is only
\* logged.
Lose ==
  /\ Fault /\ Idle("consumer") /\ next \in DOMAIN log /\ started[next] = 0
  /\ next' = next + 1 /\ lost' = lost \cup {next} /\ dropped' = TRUE
  /\ UNCHANGED <<scenario, log, rows, candle, now, selected, jobVars, started, done, raced,
                 ahead, unordered>>

\* The replay tool selects its rows when it starts.
StartReplay ==
  /\ MayStart("replay") /\ Fault
  /\ \E m, n \in Stored :
       /\ m <= n
       /\ Begin("replay", m) /\ selected' = {k \in Stored : m < k /\ k <= n}
       /\ unordered' = (unordered \/ n # Max(Stored) \/ ~Idle("consumer"))
  /\ UNCHANGED <<scenario, log, rows, candle, now, next, held, done, raced, ahead, lost, dropped>>

ReplayNext ==
  /\ at["replay"] # 0 /\ todo["replay"] = << >>
  /\ done' = [done EXCEPT ![at["replay"]] = @ + 1]
  /\ IF selected # {}
       THEN Begin("replay", Min(selected)) /\ selected' = selected \ {Min(selected)}
       ELSE at' = [at EXCEPT !["replay"] = 0] /\ UNCHANGED <<todo, started, selected>>
  /\ UNCHANGED <<scenario, log, rows, candle, now, next, held, raced, ahead, lost, dropped,
                 unordered, faults>>

\* It is interrupted, or ends at a failed event (without --continue-on-error).
StopReplay ==
  /\ at["replay"] # 0
  /\ at' = [at EXCEPT !["replay"] = 0] /\ Become("replay", << >>) /\ Release("replay")
  /\ unordered' = TRUE /\ selected' = {}
  /\ UNCHANGED <<scenario, log, rows, candle, now, next, started, done, raced, ahead, lost, dropped,
                 faults>>

StartCron(c) ==
  /\ MayStart(c)
  /\ Become(c, ensureWallClockBuckets(now))
  /\ UNCHANGED <<scenario, log, rows, candle, now, next, at, selected, held, history, faults>>

Administer ==
  /\ MayStart("admin") /\ Fault
  /\ \E v \in BOOLEAN :
       \/ Become("admin", setTokenListed(v))
       \/ \E p \in Pool : \/ Become("admin", setPairListed(p, v))
                          \/ Become("admin", setListed(p, v))
  /\ UNCHANGED <<scenario, log, rows, candle, now, next, at, selected, held, history>>

Midnight ==
  /\ now < scenario.days /\ now' = now + 1
  /\ UNCHANGED <<scenario, log, rows, candle, next, selected, jobVars, history, faults>>

Next ==
  \/ \E a \in Actor : Step(a) \/ Fail(a)
  \/ Deliver \/ Acknowledge \/ Restart \/ Rewind \/ Lose
  \/ StartReplay \/ ReplayNext \/ StopReplay
  \/ (\E c \in Cron : StartCron(c)) \/ Administer \/ Midnight

\* The broker's processes go on, and the cron fires every minute.
Fairness ==
  /\ WF_vars(Step("consumer") \/ Deliver \/ Acknowledge)
  /\ \A c \in Cron : WF_vars(Step(c) \/ StartCron(c))

Spec == Init /\ [][Next]_vars /\ Fairness
-----------------------------------------------------------------------------
(* Properties.                                                             *)

TypeOK ==
  /\ \A k \in DOMAIN rows :
       /\ k[1] = "pair" => rows[k] \in PairRow(scenario.days)
       /\ k = SpotToken => rows[k] \in TokenRow(scenario.days)
       /\ IsBucket(k) => rows[k] \in BucketRow
  /\ \A d \in DOMAIN candle : d \in 1..now /\ candle[d] \in Nat
  /\ \A a \in Actor : todo[a] = << >> => held[a] = NoHold
  /\ at["consumer"] \in {0, next}

(***************************************************************************)
(* Once the log is handled, the settings shown are those the chain has set *)
(* last: the fee of a pool (its own, or else that of its class) and the    *)
(* curve it comes from, the defaults, a discount and, for pairs that were  *)
(* there when one of their tokens was last whitelisted or struck off,      *)
(* whether both are on the list (a younger pair is never said to be when   *)
(* it is not); whatever was delivered or published again and whenever the  *)
(* tool replayed a suffix while the consumer was at rest.  Exempt: a       *)
(* replay beside the consumer or of a part that ends early, a pair two     *)
(* actors have raced on, a handler that failed.                            *)
(***************************************************************************)
Typed(T) == {n \in DOMAIN log : log[n].type \in T}
LastSet(E) ==
  IF E = {} \/ log[Max(E)].type \in {"feeReset", "undiscount"} THEN Unset ELSE log[Max(E)].bps

ChainFee(p) ==
  LET own == IF CL(p) THEN Of("moduleFee", p, log) \cup Of("feeReset", p, log)
             ELSE Of("customFee", p, log)
      tier == {n \in DOMAIN log : log[n].type = "setFee" /\ log[n].class = Class[p]}
  IN IF CL(p)
       THEN IF own = {} \/ log[Max(own)].type = "feeReset" THEN DynamicFee
            ELSE Fee(FALSE, log[Max(own)].bps, "cl_module_fixed")
     ELSE IF own # {} THEN Fee(FALSE, log[Max(own)].bps, "factory_custom")
     ELSE IF tier # {} THEN Fee(FALSE, log[Max(tier)].bps, "factory_tier")
     ELSE NoFee

ChainCurve(p) ==
  [base |-> LastSet(Of("moduleFee", p, log)),
   cap |-> LastSet(Of("capSet", p, log) \cup Of("feeReset", p, log))]

OnChain(side) ==
  LET W == {n \in Typed({"whitelist"}) : log[n].side = side} IN W # {} /\ log[Max(W)].on
WhitelistShown(p, shown) ==
  LET both == \A side \in Side : OnChain(side) IN
  IF \E n \in Typed({"whitelist"}) : n > Min(Of("created", p, log))
    THEN shown = both ELSE shown => both

Shown(k, none) == IF Row(k) = NoRow THEN none ELSE rows[k]
Settled == next > Len(log) /\ Idle("consumer") /\ Idle("replay")

SettingsFollowChain ==
  Settled /\ ~dropped /\ ~unordered =>
    /\ \A p \in Pool :
         /\ Shown(Curve(p), NoCurve) = ChainCurve(p)
         /\ Of("created", p, log) # {} /\ Pair(p) \notin raced =>
              /\ [c \in DOMAIN NoFee |-> rows[Pair(p)][c]] = ChainFee(p)
              /\ WhitelistShown(p, rows[Pair(p)].gauge)
    /\ Shown(Defaults, [value |-> Unset]).value = LastSet(Typed({"default"}))
    /\ Shown(Discount, [value |-> Unset]).value = LastSet(Typed({"discount", "undiscount"}))

(***************************************************************************)
(* The running counters: the cells each is kept in, and the events that    *)
(* add 1 to it.                                                            *)
(***************************************************************************)
PairCells(c) == {<<Pair(p), c>> : p \in Pool}
Counter(cells, events) == [cells |-> cells, events |-> events]

PairCounters ==
  { Counter(PairCells("liquidity"), Typed({"swap", "mint"})),
    Counter(PairCells("fees"), Typed({"swap"})),
    Counter({<<SpotToken, "trades">>}, Typed({"swap"})),
    Counter({<<Account, "trades">>}, Typed({"swap"})) }

\* Concentrated liquidity: the ends of its ranges, and the bars they lie in.
Concentrated == {n \in Typed({"mint"}) : CL(log[n].pool)}
Ends == UNION {{log[n].lo, log[n].hi} : n \in Concentrated}
Bars == {i - (i % Width) : i \in UNION {log[n].lo..log[n].hi : n \in Concentrated}}
In(n, b) == \E i \in b..(b + Width - 1) : log[n].lo <= i /\ i < log[n].hi

DepthCounters ==
  {Counter({<<Tick(p, i), "lower">> : p \in Pool}, {n \in Concentrated : log[n].lo = i}) : i \in Ends}
    \cup {Counter({<<Tick(p, i), "upper">> : p \in Pool}, {n \in Concentrated : log[n].hi = i}) : i \in Ends}
    \cup {Counter({<<Bar(p, b), "liquidity">> : p \in Pool}, {n \in Concentrated : In(n, b)}) : b \in Bars}

Source == [volume |-> "swap", trades |-> "swap", tvl |-> "mint", pairs |-> "created"]

BucketCounter(res, d, c) ==
  Counter({<<Bucket(res, d), c>>},
          {n \in Typed({Source[c]}) : /\ alignBucketStart(log[n].day, res) = alignBucketStart(d, res)
                                      /\ c \in {"trades", "pairs"} => res = "1d"})

Counters ==
  PairCounters \cup DepthCounters \cup {BucketCounter(res, d, c) :
    res \in DOMAIN NoTotals, d \in 1..scenario.days, c \in DOMAIN NewBucket}

Cell(x) == IF x[1] \in DOMAIN rows THEN rows[x[1]][x[2]] ELSE 0
Value(C) == MapThenSumSet(Cell, C.cells)
Times(count, C) == MapThenSumSet(LAMBDA n : count[n], C.events)
NotANumber(C) == \E x \in C.cells : Cell(x) = NaN

(***************************************************************************)
(* Nothing is counted that did not happen: at every moment, between any    *)
(* two statements, over races, failures and restarts, no counter is above  *)
(* the number of times an event that feeds it was taken up, and the bucket *)
(* counts of the exchange, which every handler resets, are never above the *)
(* buckets there are.                                                      *)
(***************************************************************************)
NeverOverstated ==
  /\ \A C \in Counters : ~NotANumber(C) => Value(C) <= Times(started, C)
  /\ Totals \in DOMAIN rows =>
       \A res \in DOMAIN NoTotals :
         LET K == {k \in DOMAIN rows : k[1] = res} IN
         (K \cup {Totals}) \cap raced = {} => rows[Totals][res] <= Cardinality(K)

(***************************************************************************)
(* Only a race loses a count: while no one has written a row between       *)
(* another's load and its write of it, and no handler failed, each counter *)
(* holds every event handled to the end, once for each time it was.  The   *)
(* account's rows are written without loading them, and lose nothing in    *)
(* any case: its trades are counted, its wallet was told, its last trade   *)
(* is not before any that was handled.  And a reward claim is stored with  *)
(* the pool it is of, in any case but one: the gauge's own event was lost, *)
(* after which the pool stays unknown.                                     *)
(***************************************************************************)
Told(n) ==
  CASE log[n].type \in {"swap", "mint"} ->
         /\ {Notification(n), Account} \subseteq DOMAIN rows
         /\ log[n].type = "mint" => Provision(n) \in DOMAIN rows
         /\ rows[Account].last >= log[n].day
    [] log[n].type = "claim" -> Claim(n) \in DOMAIN rows
    [] log[n].type = "stake" -> Stake(n) \in DOMAIN rows
    [] OTHER -> TRUE

NothingLost ==
  /\ \A n \in Typed({"claim"}) :
       Claim(n) \in DOMAIN rows /\ rows[Claim(n)].pool # log[n].pool =>
         /\ rows[Claim(n)].pool = Unset
         /\ Of("gauge", log[n].pool, log) \subseteq lost
  /\ ~dropped =>
       /\ \A C \in Counters :
            ~NotANumber(C) /\ (\A x \in C.cells : x[1] \notin raced) => Value(C) >= Times(done, C)
       /\ \A n \in DOMAIN log : done[n] > 0 => Told(n)

(***************************************************************************)
(* The day volume of a token never exceeds the candle of the day it is     *)
(* kept for, late swaps that roll the day back included: except when the   *)
(* cron copied a candle between the two transactions of a swap, which then *)
(* counts twice in the row until the next run.                             *)
(***************************************************************************)
DayVolumeOfItsDay ==
  ~ahead /\ SpotToken \in DOMAIN rows \ raced =>
    LET t == rows[SpotToken] IN t.day \in DOMAIN candle => t.dayVol <= candle[t.day]

(***************************************************************************)
(* Each column has its writer: only an administrator lists or unlists a    *)
(* row, and the liquidity of a day only falls when the day changes, as the *)
(* comment on the cron's metrics says; but for rows that were raced on.    *)
(***************************************************************************)
Listable == {k \in DOMAIN rows : k[1] = "pair" \/ k = SpotToken}

OwnColumns ==
  [][\A k \in Listable \ raced :
       /\ rows'[k].listed # rows[k].listed => todo'["admin"] # todo["admin"]
       /\ rows'[k].dayTvl < rows[k].dayTvl => rows'[k].day # rows[k].day]_vars

(***************************************************************************)
(* The cron heals the day volume: whatever was lost, torn or rolled back,  *)
(* the row ends as the candle of the day and stays so.  Runs that overlap  *)
(* may put each other's old row back for ever: it is right time and again. *)
(***************************************************************************)
Healed ==
  "cron" \in scenario.actors /\ SpotToken \in DOMAIN rows /\ InGraph =>
    /\ now \in DOMAIN candle
    /\ rows[SpotToken].day = now /\ rows[SpotToken].dayVol = candle[now]

DayVolumeHealed == []<>Healed /\ <>[](Healed \/ "cron2" \in scenario.actors)

(***************************************************************************)
(* "Broker stores `spot_pairs.price` as human token1 per token0."          *)
(***************************************************************************)
PriceAxis ==
  \A p \in Pool : Pair(p) \in DOMAIN rows => rows[Pair(p)].price # "token0/token1"
=============================================================================
