----------------------------- MODULE PoolGraph -----------------------------
(***************************************************************************)
(* The liquidity graph: tokens joined by pools, which trade both ways.     *)
(***************************************************************************)
EXTENDS Integers, Sequences, FiniteSets

CONSTANTS
  Token, Pool,
  Ends            \* <<token0, token1>> of each pool

ASSUME PoolAssumption == IsFiniteSet(Pool) /\ Pool # {}
ASSUME EndsAssumption ==
  \A p \in Pool : Ends[p] \in Token \X Token /\ Ends[p][1] # Ends[p][2]

Joins(p, a, b) == Ends[p] = <<a, b>> \/ Ends[p] = <<b, a>>

\* t visits m tokens from a to b, each next to the one before in the graph G.
IsPath(t, m, G, a, b) ==
  /\ t[1] = a /\ t[m] = b
  /\ \A i \in 1..(m - 1) : \E p \in G : Joins(p, t[i], t[i + 1])

\* No way from a to b takes n hops or fewer.
NoneWithin(n, G, a, b) ==
  \A m \in 1..(n + 1) : \A t \in [1..m -> Token] : ~IsPath(t, m, G, a, b)

Hop == [pool : Pool, tokenIn : Token, tokenOut : Token]

\* r goes from a to b through pools of G, each hop from where the last one ends.
IsRoute(r, G, a, b) ==
  /\ r \in Seq(Hop)
  /\ \A i \in 1..Len(r) :
       /\ r[i].pool \in G /\ Joins(r[i].pool, r[i].tokenIn, r[i].tokenOut)
       /\ r[i].tokenIn = IF i = 1 THEN a ELSE r[i - 1].tokenOut
  /\ b = IF r = << >> THEN a ELSE r[Len(r)].tokenOut

IsShortest(r, G, a, b) == IsRoute(r, G, a, b) /\ NoneWithin(Len(r) - 1, G, a, b)
=============================================================================
