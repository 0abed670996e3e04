----------------------------- MODULE RouteQuotes -----------------------------
(***************************************************************************)
(* The answer of GET swap-routes: the hops found by SwapRoutes, with the   *)
(* fee of each read from spot_pairs and then from the factory defaults,    *)
(* up to three times over (hydrateSwapRouteHops, enrichHopQuotesFromSpot-  *)
(* Pairs, quoteRouteAmountOutWeiFromSpotPairs), while the consumer changes *)
(* pools and fees statement by statement.  Amounts are left out: any hop   *)
(* may come out as 0.                                                      *)
(***************************************************************************)
EXTENDS SwapRoutes, TLC

CONSTANTS
  Class,          \* "volatile", "stable" or "cl"
  FeeBps,
  Start           \* bounds: records [graph, from, growth, changes]

VARIABLES
  bounds,
  pairs,          \* effectiveFeeBps of the rows of spot_pairs, with its source
  tiers,          \* pool_factory_fee_defaults
  job,            \* statements of the consumer's event yet to run
  stage,          \* of the three reads: even, the pairs; odd, the defaults; 6, done
  loaded,         \* the pairs as read last
  shown,          \* feeBps of each hop
  quoted,         \* fee of each hop in amountOutWei; << >>: no amount
  had,            \* history: fees of each pool since the request came in
  torn,           \* history: pools whose fee and tier were read across two changes
  changes         \* fee events so far

feeVars == <<bounds, pairs, tiers, job, stage, loaded, shown, quoted, had, torn, changes>>
allVars == <<vars, feeVars>>

Null == -1
NoFee == [bps |-> Null, own |-> FALSE]
Tier(p) == IF Class[p] = "stable" THEN "stable" ELSE "volatile"
Seen == {hops[h].pool : h \in 1..Len(hops)}

\* resolveSwapRouteHopFeeBps: the pool's, or the factory's, or 5 and 30.
HopFeeBps(p, bps, defaults) ==
  CASE bps # Null -> bps
    [] bps = Null /\ defaults[Tier(p)] # Null -> defaults[Tier(p)]
    [] OTHER -> IF Tier(p) = "stable" THEN 5 ELSE 30

\* A pair that is not there counts as one without a fee.
Bps(rows, p) == IF p \in DOMAIN rows THEN rows[p].bps ELSE Null
Fees(rows, defaults) == [p \in Pool |-> HopFeeBps(p, Bps(rows, p), defaults)]

QuotesInit ==
  /\ Init /\ bounds \in Start /\ graph = bounds.graph /\ from = bounds.from
  /\ pairs = [p \in graph |-> NoFee] /\ tiers = [volatile |-> Null, stable |-> Null]
  /\ job = << >> /\ stage = 0 /\ loaded = << >> /\ shown = << >> /\ quoted = << >>
  /\ had = [p \in Pool |-> {Fees(pairs, tiers)[p]}] /\ torn = {} /\ changes = 0
-----------------------------------------------------------------------------
(* The consumer: handlers as in SpotPrograms.                              *)

Create(p) ==
  << [op |-> "edge", pool |-> p], [op |-> "pair", pool |-> p] >> \o
    (IF Class[p] = "cl" THEN << >> ELSE << [op |-> "applyTier", pool |-> p] >>)
SetFee(tier, b) ==
  << [op |-> "tier", tier |-> tier, bps |-> b], [op |-> "tierPairs", tier |-> tier, bps |-> b] >>
SetOwn(p, b) == << [op |-> "own", pool |-> p, bps |-> b] >>

\* Only a CL pool goes back to a dynamic fee.
Take ==
  /\ job = << >> /\ stage < 6 /\ pc # "notFound"
  /\ \/ /\ Cardinality(graph) < Cardinality(bounds.graph) + bounds.growth
        /\ \E p \in Pool \ graph : job' = Create(p)
        /\ UNCHANGED changes
     \/ /\ changes < bounds.changes /\ changes' = changes + 1
        /\ \/ \E tier \in {"volatile", "stable"}, b \in FeeBps : job' = SetFee(tier, b)
           \/ \E p \in graph, b \in FeeBps \cup {Null} :
                (b = Null => Class[p] = "cl") /\ job' = SetOwn(p, b)
  /\ UNCHANGED <<vars, bounds, pairs, tiers, stage, loaded, shown, quoted, had, torn>>

Is(op) == job # << >> /\ Head(job).op = op
Stmt == Head(job)

\* One statement: new rows of spot_pairs and defaults.
Commit(rows, defaults) ==
  /\ pairs' = rows /\ tiers' = defaults /\ job' = Tail(job)
  /\ had' = [p \in Pool |-> had[p] \cup {Fees(rows, defaults)[p]}]
  /\ torn' = IF defaults # tiers /\ stage \in {1, 3, 5}
               THEN torn \cup {p \in Seen : Bps(loaded, p) = Null /\ Bps(rows, p) # Null}
             ELSE torn
  /\ UNCHANGED <<bounds, stage, loaded, shown, quoted, changes>>

StoreEdge ==
  /\ Is("edge") /\ Index(Stmt.pool)
  /\ Commit(pairs, tiers)

\* upsertSpotPairMinimal.
StorePair ==
  /\ Is("pair") /\ Commit(Stmt.pool :> NoFee @@ pairs, tiers)
  /\ UNCHANGED vars

\* applyFactoryTierToBasicPoolIfKnown.
ApplyTier ==
  /\ Is("applyTier")
  /\ LET bps == tiers[Tier(Stmt.pool)] IN
       Commit(IF bps = Null THEN pairs ELSE [pairs EXCEPT ![Stmt.pool].bps = bps], tiers)
  /\ UNCHANGED vars

StoreTier ==
  /\ Is("tier") /\ Commit(pairs, [tiers EXCEPT ![Stmt.tier] = Stmt.bps])
  /\ UNCHANGED vars

\* The pools of the class that have no fee of their own.
StoreTierPairs ==
  /\ Is("tierPairs")
  /\ Commit([p \in DOMAIN pairs |->
               IF Class[p] = Stmt.tier /\ ~pairs[p].own
                 THEN [bps |-> Stmt.bps, own |-> FALSE] ELSE pairs[p]], tiers)
  /\ UNCHANGED vars

StoreOwn ==
  /\ Is("own") /\ Commit([pairs EXCEPT ![Stmt.pool] = [bps |-> Stmt.bps, own |-> TRUE]], tiers)
  /\ UNCHANGED vars

Consumer ==
  \/ Take \/ StoreEdge \/ StorePair \/ ApplyTier \/ StoreTier \/ StoreTierPairs \/ StoreOwn
-----------------------------------------------------------------------------
(* The request, once the hops are known.                                   *)

Reading == pc = "found" /\ hops # << >>

ReadPairs ==
  /\ Reading /\ stage \in {0, 2, 4} /\ stage' = stage + 1
  /\ loaded' = [p \in Seen \cap DOMAIN pairs |-> pairs[p]]
  /\ UNCHANGED <<vars, bounds, pairs, tiers, job, shown, quoted, had, torn, changes>>

\* Variant for checking: the tier of volatile pools for all.
FeesOfOneTier ==
  [h \in 1..Len(hops) |->
     HopFeeBps(hops[h].pool, Bps(loaded, hops[h].pool),
               [volatile |-> tiers.volatile, stable |-> tiers.volatile])]

\* The defaults, and the fees they make with the pairs read before.
FeesRead == [h \in 1..Len(hops) |-> HopFeeBps(hops[h].pool, Bps(loaded, hops[h].pool), tiers)]
Missing == {h \in 1..Len(hops) : hops[h].pool \notin DOMAIN loaded}

\* Without amountIn the answer ends here.
Hydrate ==
  /\ stage = 1 /\ stage' \in {2, 6}
  /\ shown' = FeesRead
  /\ UNCHANGED <<vars, bounds, pairs, tiers, job, loaded, quoted, had, torn, changes>>

\* Up to the first hop that comes out as 0.
Enrich ==
  /\ stage = 3 /\ stage' = 4
  /\ \E last \in 1..Len(hops) :
       /\ \A h \in 1..(last - 1) : h \notin Missing
       /\ shown' = [h \in 1..Len(hops) |-> IF h <= last THEN FeesRead[h] ELSE shown[h]]
  /\ UNCHANGED <<vars, bounds, pairs, tiers, job, loaded, quoted, had, torn, changes>>

\* No amountOutWei when a hop comes out as 0.
Quote ==
  /\ stage = 5 /\ stage' = 6
  /\ quoted' \in {<< >>} \cup (IF Missing = {} THEN {FeesRead} ELSE {})
  /\ UNCHANGED <<vars, bounds, pairs, tiers, job, loaded, shown, had, torn, changes>>

QuotesNext ==
  \/ Search /\ UNCHANGED feeVars
  \/ Consumer
  \/ ReadPairs \/ Hydrate \/ Enrich \/ Quote

QuotesSpec ==
  /\ QuotesInit /\ [][QuotesNext]_allVars
  /\ WF_allVars(Search /\ UNCHANGED feeVars)
-----------------------------------------------------------------------------
(* Properties.                                                             *)

(***************************************************************************)
(* Each fee in an answer, shown or used for the amount, is one the pool    *)
(* had at some moment of the request, although the pairs and the defaults  *)
(* are read apart and again for the amount; except for a pool that got a   *)
(* fee of its own and whose tier changed between two such reads.           *)
(***************************************************************************)
FeeOfRequest ==
  \A f \in {shown, quoted} : stage = 6 =>
    \A h \in DOMAIN f : f[h] \in had[hops[h].pool] \/ hops[h].pool \in torn
=============================================================================
