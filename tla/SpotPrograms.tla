---------------------------- MODULE SpotPrograms ----------------------------
(***************************************************************************)
(* What each handler of the broker does to the read models, as the         *)
(* statements it sends one by one; no transaction spans two of them.       *)
(*                                                                         *)
(* "query" is a read whose result decides what comes next (ReadModels puts *)
(* that in its place); "find" loads a row and, when there is none, passes  *)
(* over the next "skip" statements; "save" stores the row loaded last      *)
(* after an edit; "set" updates the columns that edit computed from it;    *)
(* "compute" is an UPDATE whose values the database computes.              *)
(***************************************************************************)
EXTENDS SpotRows, SequencesExt

Query(q) == Over([op |-> "query"], q)
Find(k) == [op |-> "find", key |-> k, skip |-> 0]
Save(k, edit) == [op |-> "save", key |-> k, edit |-> edit]
Set(k, cols, edit) == [op |-> "set", key |-> k, cols |-> cols, edit |-> edit]
Upsert(k, patch, new) == [op |-> "upsert", key |-> k, patch |-> patch, new |-> new]
Update(keys, where, patch) ==
  [op |-> "update", keys |-> keys, where |-> where, patch |-> patch]
Compute(keys, expr) == [op |-> "compute", keys |-> keys, expr |-> expr]
Delete(k) == [op |-> "delete", key |-> k]
Candle(d, n) == [op |-> "candle", day |-> d, count |-> n]
Raise == [op |-> "raise"]

\* An INSERT that a row of the same key makes ineffective.
Insert(k, r) == Upsert(k, << >>, r)

Change(k, edit) == << Find(k), Save(k, edit) >>

\* The same of n rows, one after the other.
ChangeEach(n, Key(_), Edit(_)) ==
  [i \in 1..(2 * n) |-> LET j == (i + 1) \div 2 IN
                       IF i % 2 = 1 THEN Find(Key(j)) ELSE Save(Key(j), Edit(j))]

\* The rest is about the row of k: without one it is passed over.
Needing(k, rest) == << [Find(k) EXCEPT !.skip = Len(rest)] >> \o rest
-----------------------------------------------------------------------------
(* ExchangeRollupService: an error in it is logged and ends the rollup.    *)

\* ensureExchangeRow: zeros over the counts that are there.
EnsureTotals == Upsert(Totals, NoTotals, NoTotals)

\* bumpMetaBucketCount, when the bucket was not found.
CountBucket(res) ==
  << EnsureTotals >> \o Needing(Totals, << Save(Totals, [of |-> "count", res |-> res]) >>)

\* Variant for checking: trades and pairs are counted in every resolution.
InEvery(res, delta) == delta

\* Trades and pairs are counted by day only.
InResolution(res, delta) ==
  IF res = "1d" THEN delta ELSE [delta EXCEPT !.trades = 0, !.pairs = 0]

bumpBucket(res, delta) == [of |-> "bump", delta |-> InResolution(res, delta)]

InRollup(s) == Over([rollup |-> TRUE], s)

Rollup(d, delta) ==
  LET all == << EnsureTotals >>
               \o ChangeEach(Len(Resolutions), LAMBDA j : Bucket(Resolutions[j], d),
                             LAMBDA j : bumpBucket(Resolutions[j], delta))
  IN [i \in DOMAIN all |-> InRollup(all[i])]

recordNewPair(d) == Rollup(d, [NewBucket EXCEPT !.pairs = 1])
recordSwapVolumeAndTrade(d) == Rollup(d, [NewBucket EXCEPT !.volume = 1, !.trades = 1])
recordLiquidityTvlUsd(d) == Rollup(d, [NewBucket EXCEPT !.tvl = 1])
-----------------------------------------------------------------------------
(* AccountNotificationService, for one wallet.                             *)

TouchAccount(d, trades) ==
  << Insert(Account, NewAccount),
     Compute({Account}, [of |-> "account", day |-> d, trades |-> trades]) >>

recordSwap(e) == << Insert(Notification(e.id), [read |-> FALSE]) >> \o TouchAccount(e.day, 1)

recordLiquidityAdded(e) ==
  << Insert(Notification(e.id), [read |-> FALSE]), Insert(Provision(e.id), [of |-> "mint"]) >>
    \o TouchAccount(e.day, 0)
-----------------------------------------------------------------------------
(* DynamicSwapFeeReadModelService.                                         *)

upsertGlobal(bps) == << Upsert(Defaults, [value |-> bps], [value |-> bps]) >>
upsertPool(p, patch) == << Upsert(Curve(p), patch, Over(patch, NoCurve)) >>
onFeeCapSet(e) == upsertPool(e.pool, [cap |-> e.bps])
onCustomFeeSet(e) == upsertPool(e.pool, [base |-> e.bps])

\* The base fee of a pool outlives its reset.
onDynamicFeeReset(e) == upsertPool(e.pool, [cap |-> Unset])

onDiscountedRegistered(e) == << Upsert(Discount, [value |-> e.bps], [value |-> e.bps]) >>
onDiscountedDeregistered == << Delete(Discount) >>

\* Whether both tokens are whitelisted, for every pair they are in.
aggregateVoterWhitelistToken(e) ==
  << Upsert(Whitelisted(e.side), [on |-> e.on], [on |-> e.on]),
     Compute({Pair(p) : p \in Pool}, [of |-> "gauge"]) >>
-----------------------------------------------------------------------------
(* SwapLiquidityGraphService.                                              *)

upsertEdge(p) == Upsert(Edge(p), [class |-> Class[p]], [class |-> Class[p]])
upsertSpotPairMinimal(p) == Change(Pair(p), [of |-> "minimal", pool |-> p])
applyTokenInfoFromIndexer(e) ==
  IF e.info THEN Change(SpotToken, [of |-> "tokenInfo"]) ELSE << >>

onPoolCreated(e) ==
  << upsertEdge(e.pool) >> \o upsertSpotPairMinimal(e.pool) \o applyTokenInfoFromIndexer(e)
    \o << Query([of |-> "tier", pool |-> e.pool]) >> \o recordNewPair(e.day)

onCLPoolCreated(e) ==
  << upsertEdge(e.pool) >> \o upsertSpotPairMinimal(e.pool) \o applyTokenInfoFromIndexer(e)
    \o recordNewPair(e.day)

\* Variant for checking: a pool's own fee is overwritten as well.
OfEveryPool(class, bps) ==
  Update({Pair(p) : p \in {q \in Pool : Class[q] = class}}, {"", "factory_tier", "factory_custom"},
         Fee(FALSE, bps, "factory_tier"))

\* A tier is the fee of the pools of its class that have none of their own.
OfTier(class, bps) ==
  Update({Pair(p) : p \in {q \in Pool : Class[q] = class}}, {"", "factory_tier"},
         Fee(FALSE, bps, "factory_tier"))

AnySource == {"", "factory_tier", "factory_custom", "cl_module_fixed", "cl_module_dynamic"}

onPoolFactorySetFee(e) ==
  << Upsert(Tiers, [c \in {e.class} |-> e.bps], [NoTiers EXCEPT ![e.class] = e.bps]),
     OfTier(e.class, e.bps) >>

onPoolFactorySetCustomFee(e) ==
  << Query([of |-> "custom", pool |-> e.pool, bps |-> e.bps]) >>

onDynamicSwapFeeModuleCustomFeeSet(e) ==
  << Update({Pair(e.pool)}, AnySource, Over([cl |-> TRUE], Fee(FALSE, e.bps, "cl_module_fixed"))) >>

onDynamicSwapFeeModuleDynamicFeeReset(e) ==
  << Update({Pair(e.pool)}, AnySource, Over([cl |-> TRUE], DynamicFee)) >>

bumpTokenLiquidityFromMint(d) == Change(SpotToken, [of |-> "mintToken", day |-> d])

\* The pair is stored, read again after the price lookup, and stored again.
incrementPairLiquidityFromAmounts(p, d) ==
  Needing(Pair(p),
    << Save(Pair(p), [of |-> "mintPair", day |-> d]) >>
      \o Needing(Pair(p), << Save(Pair(p), [of |-> "mintUsd"]) >>)
      \o bumpTokenLiquidityFromMint(d) \o recordLiquidityTvlUsd(d))

onLiquidityAdded(p, e) ==
  incrementPairLiquidityFromAmounts(p, e.day) \o recordLiquidityAdded(e)

bumpTickLiquidity(p, i, end) == Change(Tick(p, i), [of |-> "tick", end |-> end])
applyClTickBoundaryLiquidity(p, lo, hi) ==
  bumpTickLiquidity(p, lo, "lower") \o bumpTickLiquidity(p, hi, "upper")

\* The first ticks of the bars that intersect lo..hi-1, ascending.
clHistogramBucketsForRange(lo, hi) ==
  [j \in 1..((hi - 1) \div Width - lo \div Width + 1) |-> (lo \div Width + j - 1) * Width]

applyClLiquidityHistogram(p, lo, hi) ==
  LET bars == clHistogramBucketsForRange(lo, hi)
  IN ChangeEach(Len(bars), LAMBDA j : Bar(p, bars[j]), LAMBDA j : [of |-> "bar"])

onCLLiquidityAdded(p, e) ==
  onLiquidityAdded(p, e) \o applyClTickBoundaryLiquidity(p, e.lo, e.hi)
    \o applyClLiquidityHistogram(p, e.lo, e.hi)

\* The reserves of a swap, and the price it implies.
onSwapReserves(p) ==
  Needing(Pair(p), << Set(Pair(p), {"liquidity", "price"}, [of |-> "swap"]) >>)
-----------------------------------------------------------------------------
(* SwapOhlcvAggregationService: S is the set of the pool found, if any.    *)

refreshSpotPairAndTokenProfiles(S, e) ==
  (IF S = {} THEN << >>
   ELSE Change(Pair(CHOOSE p \in S : TRUE), [of |-> "tradePair", day |-> e.day]))
    \o Change(SpotToken, [of |-> "tradeToken", day |-> e.day])
    \o recordSwapVolumeAndTrade(e.day) \o recordSwap(e)

onSwapCandles(S, e) ==
  << Candle(e.day, 1), Query([of |-> "backfill"]) >> \o refreshSpotPairAndTokenProfiles(S, e)

ensureWallClockBuckets(d) ==
  << Query([of |-> "candles", day |-> d]) >> \o Rollup(d, NewBucket)
    \o << Query([of |-> "backfill"]), Query([of |-> "measure", day |-> d]) >>

flushBfFieldsForTokenChunk == Needing(SpotToken, << Save(SpotToken, [of |-> "backfill"]) >>)
flushSpotTokenProfileMetricsChunk(d, n) ==
  Needing(SpotToken, << Save(SpotToken, [of |-> "measure", day |-> d, volume |-> n]) >>)
-----------------------------------------------------------------------------
(* The catalog.                                                            *)

List(v) == [of |-> "list", listed |-> v]
setTokenListed(v) == Needing(SpotToken, << Save(SpotToken, List(v)) >>)

\* Listing a pair lists its tokens; unlisting does not touch them.
setPairListed(p, v) ==
  Needing(Pair(p), << Save(Pair(p), List(v)) >> \o
                     (IF v THEN setTokenListed(TRUE) ELSE << >>))

\* PoolAdminService: one column.
setListed(p, v) == << Update({Pair(p)}, AnySource, [listed |-> v]) >>

Asked(what, e) == << Query(Over([of |-> what], e)) >>

\* Of two statements sent at once (Promise.all), a failing one spares the other.
Beside(one, other) ==
  LET both == one \o other IN [i \in DOMAIN both |-> Over([beside |-> TRUE], both[i])]

\* aggregateIndexedEvent.
Handler(e) ==
  CASE e.type = "created" -> IF CL(e.pool) THEN onCLPoolCreated(e) ELSE onPoolCreated(e)
    [] e.type = "setFee" -> onPoolFactorySetFee(e)
    [] e.type = "customFee" -> onPoolFactorySetCustomFee(e)
    [] e.type = "moduleFee" -> Beside(onDynamicSwapFeeModuleCustomFeeSet(e), onCustomFeeSet(e))
    [] e.type = "feeReset" -> Beside(onDynamicSwapFeeModuleDynamicFeeReset(e), onDynamicFeeReset(e))
    [] e.type = "capSet" -> onFeeCapSet(e)
    [] e.type = "default" -> upsertGlobal(e.bps)
    [] e.type = "discount" -> onDiscountedRegistered(e)
    [] e.type = "undiscount" -> onDiscountedDeregistered
    [] e.type = "whitelist" -> aggregateVoterWhitelistToken(e)
    [] e.type = "gauge" -> << >>
    [] e.type = "claim" -> Asked("claim", e)
    [] e.type = "stake" -> << Insert(Stake(e.id), [pool |-> e.pool]) >>
    [] e.type = "mint" -> Asked("mint", e)
    [] e.type = "swap" -> Asked("swap", e) \o Asked("trade", e)

\* The orders in which its statements may reach the database.
Programs(e) ==
  IF e.type \in {"moduleFee", "feeReset"} THEN {Handler(e), Reverse(Handler(e))}
  ELSE {Handler(e)}
=============================================================================
