----------------------------- MODULE SwapRoutes -----------------------------
(***************************************************************************)
(* SwapLiquidityGraphService.findShortestRoute: a breadth-first search     *)
(* over the pools as they were read in one query, while the consumer adds  *)
(* pools.  The table is read in no particular order.  From the read to the *)
(* route nothing is awaited: the steps of the search only ever interleave  *)
(* with a graph that it does not look at again.                            *)
(***************************************************************************)
EXTENDS PoolGraph

CONSTANT MaxHops        \* 8 for both callers

ASSUME MaxHopsAssumption == MaxHops \in Nat

VARIABLES
  graph,          \* pools of swap_liquidity_edges
  from, to,
  pc,             \* "start", "search", "scan", "rebuild", "found", "notFound"
  edges,          \* the rows read, in the order they came
  queue,
  depth,          \* depthMap; Unvisited when the token is not in visited
  parent,         \* the hop by which a token was reached
  cur,
  i,              \* index in edges of the loop over the neighbours of cur
  hops            \* hopCores, from the last hop to the first and then reversed

search == <<pc, edges, queue, depth, parent, cur, i, hops>>
vars == <<graph, from, to, search>>

Unvisited == -1
NoHop(t) == [pool |-> CHOOSE p \in Pool : TRUE, tokenIn |-> t, tokenOut |-> t]
Read == {edges[j] : j \in 1..Len(edges)}

Init ==
  /\ graph \in SUBSET Pool /\ from \in Token /\ to \in Token
  /\ pc = "start" /\ edges = << >> /\ queue = << >>
  /\ depth = [t \in Token |-> Unvisited]
  /\ parent = [t \in Token |-> NoHop(t)]
  /\ cur = from /\ i = 1 /\ hops = << >>

\* upsertEdge of a pool that is new.
Index(p) == p \in Pool \ graph /\ graph' = graph \cup {p} /\ UNCHANGED <<from, to, search>>

\* No hops, and no query.
Same ==
  /\ pc = "start" /\ from = to
  /\ pc' = "found"
  /\ UNCHANGED <<graph, from, to, edges, queue, depth, parent, cur, i, hops>>

IsOrder(s, S) == {s[j] : j \in 1..Len(s)} = S /\ Len(s) = Cardinality(S)

ReadEdges ==
  /\ pc = "start" /\ from # to
  /\ edges' \in {s \in [1..Cardinality(graph) -> graph] : IsOrder(s, graph)}
  /\ IF edges' = << >>
       THEN pc' = "notFound" /\ UNCHANGED <<queue, depth>>
       ELSE /\ pc' = "search" /\ queue' = <<from>>
            /\ depth' = [depth EXCEPT ![from] = 0]
  /\ UNCHANGED <<graph, from, to, parent, cur, i, hops>>

\* Variant for checking: the loop over the pools starts before the first.
DequeueFromZero ==
  /\ pc = "search" /\ queue # << >>
  /\ cur' = Head(queue) /\ queue' = Tail(queue)
  /\ pc' = IF cur' = to THEN "rebuild" ELSE IF depth[cur'] >= MaxHops THEN "search" ELSE "scan"
  /\ i' = 0
  /\ UNCHANGED <<graph, from, to, edges, depth, parent, hops>>

\* Variant for checking: tokens at maxHops are expanded.
DequeueTooDeep ==
  /\ pc = "search" /\ queue # << >>
  /\ cur' = Head(queue) /\ queue' = Tail(queue)
  /\ pc' = IF cur' = to THEN "rebuild" ELSE IF depth[cur'] > MaxHops THEN "search" ELSE "scan"
  /\ i' = 1
  /\ UNCHANGED <<graph, from, to, edges, depth, parent, hops>>

\* Tokens at maxHops are not expanded.
Dequeue ==
  /\ pc = "search" /\ queue # << >>
  /\ cur' = Head(queue) /\ queue' = Tail(queue)
  /\ pc' = IF cur' = to THEN "rebuild" ELSE IF depth[cur'] >= MaxHops THEN "search" ELSE "scan"
  /\ i' = 1
  /\ UNCHANGED <<graph, from, to, edges, depth, parent, hops>>

NotFound ==
  /\ pc = "search" /\ queue = << >>
  /\ pc' = "notFound"
  /\ UNCHANGED <<graph, from, to, edges, queue, depth, parent, cur, i, hops>>

Neighbour(p) == IF Ends[p][1] = cur THEN Ends[p][2] ELSE Ends[p][1]
Incident(p) == cur \in {Ends[p][1], Ends[p][2]}

\* The next pool of the list of cur: the first to reach a token is its parent.
Visit ==
  /\ pc = "scan" /\ i <= Len(edges)
  /\ Incident(edges[i]) /\ depth[Neighbour(edges[i])] = Unvisited
  /\ LET t == Neighbour(edges[i]) IN
       /\ depth' = [depth EXCEPT ![t] = depth[cur] + 1]
       /\ parent' = [parent EXCEPT ![t] = [pool |-> edges[i], tokenIn |-> cur, tokenOut |-> t]]
       /\ queue' = Append(queue, t)
  /\ i' = i + 1
  /\ UNCHANGED <<graph, from, to, pc, edges, cur, hops>>

\* Variant for checking: a token already visited is not passed over.
PassInPlace ==
  /\ pc = "scan" /\ i <= Len(edges)
  /\ Incident(edges[i]) => depth[Neighbour(edges[i])] # Unvisited
  /\ UNCHANGED vars

Pass ==
  /\ pc = "scan" /\ i <= Len(edges)
  /\ Incident(edges[i]) => depth[Neighbour(edges[i])] # Unvisited
  /\ i' = i + 1
  /\ UNCHANGED <<graph, from, to, pc, edges, queue, depth, parent, cur, hops>>

Scanned ==
  /\ pc = "scan" /\ i > Len(edges)
  /\ pc' = "search"
  /\ UNCHANGED <<graph, from, to, edges, queue, depth, parent, cur, i, hops>>

\* "Route reconstruction failed" is never reached: a visited token has a parent.
Rebuild ==
  /\ pc = "rebuild" /\ cur # from
  /\ hops' = << parent[cur] >> \o hops
  /\ cur' = parent[cur].tokenIn
  /\ UNCHANGED <<graph, from, to, pc, edges, queue, depth, parent, i>>

Rebuilt ==
  /\ pc = "rebuild" /\ cur = from
  /\ pc' = "found"
  /\ UNCHANGED <<graph, from, to, edges, queue, depth, parent, cur, i, hops>>

Search ==
  \/ Same \/ ReadEdges \/ Dequeue \/ NotFound \/ Visit \/ Pass \/ Scanned
  \/ Rebuild \/ Rebuilt

Next == Search \/ \E p \in Pool : Index(p)

\* A request that was taken up runs.
Spec == Init /\ [][Next]_vars /\ WF_vars(Search)
-----------------------------------------------------------------------------
(* Properties.                                                             *)

TypeOK ==
  /\ graph \subseteq Pool /\ from \in Token /\ to \in Token
  /\ pc \in {"start", "search", "scan", "rebuild", "found", "notFound"}
  /\ edges \in Seq(Pool) /\ queue \in Seq(Token) /\ hops \in Seq(Hop)
  /\ depth \in [Token -> Nat \cup {Unvisited}]
  /\ parent \in [Token -> Hop]
  /\ cur \in Token /\ i \in Nat \ {0}

(***************************************************************************)
(* The answer is right for the pools that were read, which are pools there *)
(* are: a route that joins the tokens, and none has fewer hops; and "No    *)
(* swap route between the given tokens" only when none is within maxHops.  *)
(***************************************************************************)
ShortestRoute ==
  /\ Read \subseteq graph
  /\ pc = "found" => IsShortest(hops, Read, from, to) /\ Len(hops) <= MaxHops
  /\ pc = "notFound" => NoneWithin(MaxHops, Read, from, to)

(***************************************************************************)
(* findShortestRoute implements RouteAnswers: the search and the order of  *)
(* the rows do not show, nor do pools added after the read, and every      *)
(* request is answered.                                                    *)
(***************************************************************************)
Answers == INSTANCE RouteAnswers WITH
  graph <- graph, from <- from, to <- to,
  read <- pc # "start" /\ from # to, seen <- Read,
  status <- IF pc \in {"found", "notFound"} THEN pc ELSE "pending",
  route <- IF pc = "found" THEN hops ELSE << >>

AnswersSpec == Answers!Spec
=============================================================================
