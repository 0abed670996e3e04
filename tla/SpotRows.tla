------------------------------ MODULE SpotRows ------------------------------
(***************************************************************************)
(* The read models of the spot market and what each handler does to one of *)
(* their rows in memory: spot_pairs, spot_tokens, spot_exchange_time_      *)
(* buckets, spot_exchanges, ticks and their histogram, and the rows of     *)
(* fees, whitelisted tokens, accounts, claims and stakes.                  *)
(*                                                                         *)
(* Every amount is 1 and every token has a USD route.  One row stands for  *)
(* the two tokens of a pair, one column for base and quote; one account    *)
(* trades.  A day is a number from 1: 0 is metricsDayStartTs of a row      *)
(* never rolled.                                                           *)
(***************************************************************************)
EXTENDS Integers, Sequences

CONSTANTS
  Class,           \* pools in address order: "volatile", "stable" or "cl"
  Flipped,         \* pools whose display base is token1
  Resolutions,     \* EXCHANGE_ROLLUP_RESOLUTIONS
  Length,          \* days in a bucket of a resolution
  Width,           \* CL_HISTOGRAM_TICK_WIDTH
  NoRow, NaN

INSTANCE SavedRow

Pool == DOMAIN Class
CL(p) == Class[p] = "cl"

ASSUME SpotRowsAssumption ==
  /\ Len(Class) \in Nat /\ DOMAIN Class = 1..Len(Class)
  /\ \A p \in Pool : Class[p] \in {"volatile", "stable", "cl"}
  /\ Flipped \subseteq Pool
  /\ \A i \in DOMAIN Resolutions : Length[Resolutions[i]] \in Nat \ {0}
  /\ Width \in Nat \ {0}
  /\ Len(Resolutions) \in Nat /\ DOMAIN Resolutions = 1..Len(Resolutions)
  /\ \A i \in DOMAIN Resolutions :
       Resolutions[i] \notin {"pair", "edge", "tick", "bar", "token", "tiers", "totals", "curve",
                             "defaults", "discount", "whitelisted", "account", "notification",
                             "provision", "claim", "stake"}

Pair(p) == <<"pair", p>>
Edge(p) == <<"edge", p>>
Tick(p, i) == <<"tick", p, i>>
Bar(p, b) == <<"bar", p, b>>        \* liquidity_histogram_buckets
SpotToken == <<"token", 0>>
Tiers == <<"tiers", 0>>             \* pool_factory_fee_defaults
Totals == <<"totals", 0>>           \* spot_exchanges
Curve(p) == <<"curve", p>>          \* broker_dynamic_swap_fee_pools
Defaults == <<"defaults", 0>>       \* broker_dynamic_swap_fee_globals
Discount == <<"discount", 0>>       \* broker_dynamic_swap_fee_discounts
Whitelisted(side) == <<"whitelisted", side>>   \* of the two tokens
Account == <<"account", 0>>         \* spot_accounts
Notification(n) == <<"notification", n>>       \* of event n
Provision(n) == <<"provision", n>>             \* spot_account_liquidity_provisions
Claim(n) == <<"claim", n>>         \* voter_reward_claims
Stake(n) == <<"stake", n>>         \* spot_account_stake_events

\* Rows whose primary key the database generates; these keys are unique indexes.
Generated(k) == k[1] \in {"tick", "bar"}

alignBucketStart(d, res) == d - (d % Length[res])
Bucket(res, d) == <<res, alignBucketStart(d, res)>>
IsBucket(k) == \E i \in DOMAIN Resolutions : k[1] = Resolutions[i]

Unset == 0
Fee(dyn, bps, src) == [dyn |-> dyn, bps |-> bps, src |-> src]
NoFee == Fee(FALSE, Unset, "")
DynamicFee == Fee(TRUE, Unset, "cl_module_dynamic")

NewPair ==
  [dyn |-> FALSE, bps |-> Unset, src |-> "", cl |-> FALSE, flip |-> FALSE, listed |-> FALSE,
   gauge |-> FALSE, price |-> "none", day |-> 0, dayTvl |-> 0, dayUsd |-> 0, liquidity |-> 0,
   fees |-> 0]
NewToken == [listed |-> FALSE, day |-> 0, dayVol |-> 0, dayTvl |-> 0, trades |-> 0]
NewBucket == [volume |-> 0, tvl |-> 0, trades |-> 0, pairs |-> 0]
NoTotals == [i \in {Resolutions[j] : j \in DOMAIN Resolutions} |-> 0]
NoTiers == [volatile |-> Unset, stable |-> Unset]

\* "cap" is the fee cap and the scaling factor, which are set and reset alike.
NoCurve == [base |-> Unset, cap |-> Unset]
NewAccount == [trades |-> 0, last |-> 0]

\* liquidityGross is the sum of what starts and ends at a tick, liquidityNet the
\* difference.
NewTick == [lower |-> 0, upper |-> 0]
-----------------------------------------------------------------------------
\* The columns of a day start again.
OfDay(row, d) ==
  [c \in DOMAIN row |->
     IF c = "day" THEN d ELSE IF c \in {"dayVol", "dayTvl", "dayUsd"} THEN 0 ELSE row[c]]

\* Variant for checking: an older day does not roll the row back.
RolledForward(row, d) == IF row.day >= d THEN row ELSE OfDay(row, d)

\* rollSpotTokenUtcDayWindow, rollSpotPairUtcDayWindow: a new day or an old one.
Rolled(row, d) == IF row.day = d THEN row ELSE OfDay(row, d)

\* The axis of quote per base.
QuotePerBase(row) == IF row.flip THEN "token0/token1" ELSE "token1/token0"

Minimal(row, p) ==
  Over(IF CL(p) THEN DynamicFee ELSE [dyn |-> FALSE],
       [row EXCEPT !.cl = CL(p), !.flip = p \in Flipped])

MintedPair(row, d) ==
  [Rolled(row, d) EXCEPT !.dayTvl = @ + 1, !.liquidity = @ + 1, !.price = "token1/token0"]

MintedUsd(row) == [row EXCEPT !.dayUsd = @ + 1]

TradedPair(row, d) ==
  [Rolled(row, d) EXCEPT !.fees = @ + 1, !.price = QuotePerBase(row)]

\* The reserve of the token that comes in.
Swapped(row) == [row EXCEPT !.liquidity = @ + 1, !.price = QuotePerBase(row)]

MintedToken(row, d) == [Rolled(row, d) EXCEPT !.dayTvl = @ + 1]

\* tradesCount of a row created in memory is undefined, and undefined + 1 NaN.
TradedToken(row, d) ==
  [Rolled(row, d) EXCEPT !.dayVol = @ + 1, !.trades = IF @ = NaN THEN NaN ELSE @ + 1]
FirstTraded(d) == [TradedToken(NewToken, d) EXCEPT !.trades = NaN]

\* Variants for checking: the day's liquidity is overwritten; the day is not rolled.
MeasuredAll(row, d, volume) == [Rolled(row, d) EXCEPT !.dayVol = volume, !.dayTvl = 0]
MeasuredUnrolled(row, d, volume) == [row EXCEPT !.dayVol = volume]

\* flushSpotTokenProfileMetricsChunk: the day's volume is the candle's.
Measured(row, d, volume) == [Rolled(row, d) EXCEPT !.dayVol = volume]

\* Variant for checking: the counters are overwritten.
BumpedOver(row, delta) == delta

Bumped(row, delta) == [c \in DOMAIN row |-> row[c] + delta[c]]

\* What a handler makes of the row it found.
Edited(edit, row) ==
  LET pair == IF row = NoRow THEN NewPair ELSE row
      token == IF row = NoRow THEN NewToken ELSE row
  IN CASE edit.of = "minimal" -> Minimal(pair, edit.pool)
       [] edit.of = "mintPair" -> MintedPair(row, edit.day)
       [] edit.of = "mintUsd" -> MintedUsd(row)
       [] edit.of = "tradePair" -> TradedPair(pair, edit.day)
       [] edit.of = "swap" -> Swapped(row)
       [] edit.of = "tokenInfo" -> token
       [] edit.of = "mintToken" -> MintedToken(token, edit.day)
       [] edit.of = "tradeToken" ->
            IF row = NoRow THEN FirstTraded(edit.day) ELSE TradedToken(row, edit.day)
       [] edit.of = "backfill" -> row
       [] edit.of = "measure" -> Measured(row, edit.day, edit.volume)
       [] edit.of = "bump" ->
            Bumped(IF row = NoRow THEN NewBucket ELSE row, edit.delta)
       [] edit.of = "count" -> [row EXCEPT ![edit.res] = @ + 1]
       [] edit.of = "tick" ->
            [(IF row = NoRow THEN NewTick ELSE row) EXCEPT ![edit.end] = @ + 1]
       [] edit.of = "bar" ->
            [liquidity |-> IF row = NoRow THEN 1 ELSE row.liquidity + 1]
       [] edit.of = "list" -> [row EXCEPT !.listed = edit.listed]
=============================================================================
