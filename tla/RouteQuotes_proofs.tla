------------------------- MODULE RouteQuotes_proofs -------------------------
(***************************************************************************)
(* The search of SwapRoutes is correct for every graph and every MaxHops:  *)
(* types, and the answer being a shortest route or none within MaxHops.    *)
(*                                                                         *)
(* The depths are a potential: they differ by at most 1 along a pool whose *)
(* ends are closer than the token sought.  A path of n hops raises a       *)
(* potential by at most n (PathBound), so none is shorter than the depth   *)
(* found.  That the depths are a potential rests on the queue being sorted *)
(* by depth with at most two depths in it (Frontier), and on every visited *)
(* token being queued, being scanned, too deep or fully scanned (Expanded).*)
(*                                                                         *)
(* The second part is about RouteQuotes: its search is this search, while  *)
(* the consumer changes pools and fees under it, and the fees of its       *)
(* answer are fees of the time of the request (FeesKept).  The third is    *)
(* about SwapScreen, the page that shows such an answer.                   *)
(***************************************************************************)
EXTENDS RouteQuotes, SwapScreen, FiniteSetTheorems, WellFoundedInduction, TLAPS

Visited == {t \in Token : depth[t] # Unvisited}
Queued == {queue[j] : j \in 1..Len(queue)}
Searching == pc \in {"search", "scan"}

\* v is at most one hop deeper than u.
Near(u, v) == depth[v] # Unvisited /\ depth[v] <= depth[u] + 1

\* Each visited token but the first was reached from a visited one.
Tree ==
  pc \in {"search", "scan", "rebuild"} =>
    /\ from # to /\ depth[from] = 0
    /\ \A t \in Visited : depth[t] <= MaxHops
    /\ \A t \in Visited \ {from} :
         /\ parent[t].tokenOut = t /\ parent[t].pool \in Read
         /\ Joins(parent[t].pool, parent[t].tokenIn, t)
         /\ parent[t].tokenIn \in Visited
         /\ depth[t] = depth[parent[t].tokenIn] + 1

Frontier ==
  Searching =>
    /\ Queued \subseteq Visited
    /\ \A j, k \in 1..Len(queue) : j < k => depth[queue[j]] <= depth[queue[k]]
    /\ \A t \in Visited, q \in Queued : depth[t] <= depth[q] + 1
    /\ pc = "scan" =>
         /\ cur \in Visited /\ cur # to /\ depth[cur] < MaxHops
         /\ \A q \in Queued : depth[cur] <= depth[q]
         /\ \A t \in Visited : depth[t] <= depth[cur] + 1
    /\ to \in Visited => to \in Queued

Expanded ==
  Searching =>
    /\ \A u \in Visited :
         \/ u \in Queued \/ (pc = "scan" /\ u = cur) \/ depth[u] >= MaxHops
         \/ \A p \in Read, v \in Token : Joins(p, u, v) => Near(u, v)
    /\ pc = "scan" =>
         \A j \in 1..Len(edges) : j < i =>
           \A v \in Token : Joins(edges[j], cur, v) => Near(cur, v)

\* From the token reached back to the one sought.
Rebuilding ==
  pc = "rebuild" =>
    /\ to \in Visited /\ cur \in Visited
    /\ \A u \in Visited, p \in Read, v \in Token :
         depth[u] < depth[to] /\ Joins(p, u, v) => Near(u, v)
    /\ IsRoute(hops, Read, cur, to) /\ Len(hops) + depth[cur] = depth[to]

Unread ==
  /\ pc = "start" => edges = << >> /\ \A t \in Token : depth[t] = Unvisited
  /\ pc \in {"start", "search", "scan"} => hops = << >>

IInv == TypeOK /\ Unread /\ Tree /\ Frontier /\ Expanded /\ Rebuilding /\ ShortestRoute
-----------------------------------------------------------------------------
\* A non-empty set of naturals has a least element.
LEMMA Least ==
  ASSUME NEW S \in SUBSET Nat, S # {}
  PROVE  \E x \in S : \A y \in S : x <= y
<1> DEFINE R == OpToRel(<, Nat)
<1>1. \A x, y \in Nat : y < x => <<y, x>> \in R
  BY DEF OpToRel
<1>2. IsWellFoundedOn(R, Nat)
  BY NatLessThanWellFounded
<1> HIDE DEF R
<1>3. PICK x \in S : \A y \in S : ~(<<y, x>> \in R)
  BY <1>2, WFMin
<1>4. \A y \in S : ~(y < x)
  BY <1>1, <1>3, Zenon
<1> QED
  BY <1>4

\* A potential D rises by at most one per hop, and so by m - 1 along a path
\* of m tokens: consider the first token where it is higher.
LEMMA PathBound ==
  ASSUME NEW G, NEW a, NEW b, NEW D \in [Token -> Nat], D[a] = 0,
         \A p \in G, u, v \in Token : Joins(p, u, v) => D[v] <= D[u] + 1,
         NEW m \in Nat \ {0}, NEW t \in [1..m -> Token], IsPath(t, m, G, a, b)
  PROVE  D[b] <= m - 1
<1> DEFINE High == {k \in 1..m : D[t[k]] > k - 1}
<1>1. SUFFICES ASSUME High # {} PROVE FALSE
  <2>1. m \in 1..m /\ t[m] = b /\ D[t[m]] \in Nat
    BY DEF IsPath
  <2> QED
    BY <2>1
<1>2. PICK k \in High : \A l \in High : k <= l
  <2>1. High \in SUBSET Nat
    OBVIOUS
  <2> HIDE DEF High
  <2> QED
    BY <1>1, <2>1, Least
<1>3. k # 1
  BY <1>2 DEF IsPath
<1>4. k - 1 \in 1..(m - 1) /\ k - 1 \notin High
  BY <1>2, <1>3
<1>5. D[t[k - 1]] <= k - 2
  BY <1>4
<1>6. PICK p \in G : Joins(p, t[k - 1], t[(k - 1) + 1])
  BY <1>4 DEF IsPath
<1>7. D[t[k]] <= D[t[k - 1]] + 1
  BY <1>2, <1>4, <1>6
<1> QED
  BY <1>2, <1>4, <1>5, <1>7

LEMMA NoneWithinBound ==
  ASSUME NEW G, NEW a, NEW b \in Token, NEW D \in [Token -> Nat], D[a] = 0,
         \A p \in G, u, v \in Token : Joins(p, u, v) => D[v] <= D[u] + 1,
         NEW n \in Int, D[b] > n
  PROVE  NoneWithin(n, G, a, b)
<1> SUFFICES ASSUME NEW m \in 1..(n + 1), NEW t \in [1..m -> Token], IsPath(t, m, G, a, b)
             PROVE  FALSE
  BY DEF NoneWithin
<1>1. m \in Nat \ {0}
  OBVIOUS
<1>2. D[b] <= m - 1
  BY <1>1, PathBound
<1> QED
  BY <1>2
-----------------------------------------------------------------------------
LEMMA NoHopType == ASSUME NEW t \in Token PROVE NoHop(t) \in Hop
BY PoolAssumption DEF NoHop, Hop

LEMMA NeighbourType ==
  ASSUME NEW p \in Pool, Incident(p)
  PROVE  /\ Neighbour(p) \in Token /\ Neighbour(p) # cur /\ Joins(p, cur, Neighbour(p))
         /\ \A v \in Token : Joins(p, cur, v) => v = Neighbour(p)
BY EndsAssumption DEF Incident, Neighbour, Joins

LEMMA NotIncident ==
  ASSUME NEW p \in Pool, ~Incident(p), NEW v
  PROVE  ~Joins(p, cur, v)
BY EndsAssumption DEF Incident, Joins

LEMMA OrderType ==
  ASSUME graph \subseteq Pool, NEW s \in [1..Cardinality(graph) -> graph]
  PROVE  s \in Seq(Pool)
<1>1. Cardinality(graph) \in Nat
  BY PoolAssumption, FS_Subset, FS_CardinalityType
<1> QED
  BY <1>1

LEMMA TypeInit == Init => TypeOK
BY NoHopType DEF Init, TypeOK, Hop, Unvisited

LEMMA TypeStep == TypeOK /\ [Next]_vars => TypeOK'
<1> SUFFICES ASSUME TypeOK, [Next]_vars PROVE TypeOK'
  OBVIOUS
<1> USE DEF TypeOK
<1>1. ASSUME NEW p \in Pool, Index(p) PROVE TypeOK'
  BY <1>1 DEF Index, search
<1>2. CASE Same
  BY <1>2 DEF Same
<1>3. CASE ReadEdges
  <2>1. edges' \in Seq(Pool)
    <3>1. PICK s \in [1..Cardinality(graph) -> graph] : edges' = s
      BY <1>3 DEF ReadEdges
    <3>2. graph \subseteq Pool
      OBVIOUS
    <3>3. s \in Seq(Pool)
      BY <3>1, <3>2, OrderType
    <3> QED
      BY <3>1, <3>3
  <2>2. queue' \in Seq(Token) /\ depth' \in [Token -> Nat \cup {Unvisited}]
    <3>1. \/ queue' = queue /\ depth' = depth
          \/ queue' = <<from>> /\ depth' = [depth EXCEPT ![from] = 0]
      BY <1>3 DEF ReadEdges
    <3>2. <<from>> \in Seq(Token) /\ [depth EXCEPT ![from] = 0] \in [Token -> Nat \cup {Unvisited}]
      OBVIOUS
    <3> QED
      BY <3>1, <3>2
  <2> QED
    BY <1>3, <2>1, <2>2 DEF ReadEdges
<1>4. CASE Dequeue
  BY <1>4 DEF Dequeue
<1>5. CASE NotFound
  BY <1>5 DEF NotFound
<1>6. CASE Visit
  <2>1. edges[i] \in Pool /\ Neighbour(edges[i]) \in Token
    BY <1>6, NeighbourType DEF Visit
  <2>2. depth[cur] + 1 \in Nat
    BY DEF Unvisited
  <2>3. [pool |-> edges[i], tokenIn |-> cur, tokenOut |-> Neighbour(edges[i])] \in Hop
    BY <2>1 DEF Hop
  <2>4. depth' \in [Token -> Nat \cup {Unvisited}] /\ parent' \in [Token -> Hop]
    BY <1>6, <2>1, <2>2, <2>3 DEF Visit
  <2>5. queue' \in Seq(Token)
    BY <1>6, <2>1 DEF Visit
  <2> QED
    BY <1>6, <2>4, <2>5 DEF Visit
<1>7. CASE Pass
  BY <1>7 DEF Pass
<1>8. CASE Scanned
  BY <1>8 DEF Scanned
<1>9. CASE Rebuild
  <2>1. parent[cur] \in Hop /\ parent[cur].tokenIn \in Token
    BY DEF Hop
  <2>2. hops' \in Seq(Hop) /\ cur' \in Token
    BY <1>9, <2>1 DEF Rebuild
  <2> QED
    BY <1>9, <2>2 DEF Rebuild
<1>10. CASE Rebuilt
  BY <1>10 DEF Rebuilt
<1>11. CASE UNCHANGED vars
  BY <1>11 DEF vars, search
<1> QED
  BY <1>1, <1>2, <1>3, <1>4, <1>5, <1>6, <1>7, <1>8, <1>9, <1>10, <1>11 DEF Next, Search

(***************************************************************************)
(* The variables of a search hold values of their types, for any graph and *)
(* MaxHops.                                                                *)
(***************************************************************************)
THEOREM TypeCorrect == Spec => []TypeOK
BY TypeInit, TypeStep, PTL DEF Spec
-----------------------------------------------------------------------------
LEMMA InvInit == Init => IInv
<1> SUFFICES ASSUME Init PROVE IInv
  OBVIOUS
<1>1. Read = {}
  BY DEF Init, Read
<1> QED
  BY <1>1, TypeInit DEF Init, IInv, Unread, Tree, Frontier, Expanded, Rebuilding, ShortestRoute,
     Searching

LEMMA QueuedAfter ==
  ASSUME queue \in Seq(Token), queue # << >>
  PROVE  /\ Queued = {Head(queue)} \cup {Tail(queue)[j] : j \in 1..Len(Tail(queue))}
         /\ Len(Tail(queue)) = Len(queue) - 1
         /\ \A j \in 1..Len(Tail(queue)) : Tail(queue)[j] = queue[j + 1]
         /\ Head(queue) = queue[1] /\ Head(queue) \in Token
<1>1. /\ Len(Tail(queue)) = Len(queue) - 1 /\ Len(queue) \in Nat \ {0}
      /\ \A j \in 1..Len(Tail(queue)) : Tail(queue)[j] = queue[j + 1]
      /\ Head(queue) = queue[1] /\ Head(queue) \in Token
  OBVIOUS
<1>2. Queued = {queue[1]} \cup {queue[j + 1] : j \in 1..(Len(queue) - 1)}
  <2>1. \A k \in 1..Len(queue) : k = 1 \/ (k - 1 \in 1..(Len(queue) - 1) /\ k = (k - 1) + 1)
    BY <1>1
  <2> QED
    BY <1>1, <2>1 DEF Queued
<1> QED
  BY <1>1, <1>2

LEMMA ReadEdgesInv == IInv /\ ReadEdges => IInv'
<1> SUFFICES ASSUME IInv, ReadEdges PROVE IInv'
  OBVIOUS
<1> USE DEF TypeOK, IInv
<1>1. TypeOK'
  BY TypeStep DEF Next, Search
<1>2. pc = "start" /\ from # to /\ hops = << >> /\ \A t \in Token : depth[t] = Unvisited
  BY DEF ReadEdges, Unread
<1>3. Read' \subseteq graph'
  <2>1. PICK s \in [1..Cardinality(graph) -> graph] : IsOrder(s, graph) /\ edges' = s
    BY DEF ReadEdges
  <2> QED
    BY <2>1 DEF Read, IsOrder, ReadEdges
<1>4. CASE edges' = << >>
  <2>1. pc' = "notFound" /\ from' = from /\ to' = to /\ Read' = {}
    BY <1>4 DEF ReadEdges, Read
  <2>2. NoneWithin(MaxHops, {}, from, to)
    BY <1>2 DEF NoneWithin, IsPath
  <2> QED
    BY <1>1, <1>3, <2>1, <2>2
       DEF Unread, Tree, Frontier, Expanded, Rebuilding, ShortestRoute, Searching
<1>5. CASE edges' # << >>
  <2>1. /\ pc' = "search" /\ queue' = <<from>> /\ from' = from /\ to' = to
        /\ depth' = [depth EXCEPT ![from] = 0]
    BY <1>5 DEF ReadEdges
  <2>6. hops' = hops
    BY DEF ReadEdges
  <2>2. depth'[from] = 0 /\ \A t \in Token : t # from => depth'[t] = Unvisited
    BY <1>2, <2>1
  <2>3. Visited' = {from} /\ Queued' = {from}
    BY <2>1, <2>2 DEF Visited, Queued, Unvisited
  <2>4. Tree' /\ Unread' /\ Rebuilding' /\ ShortestRoute'
    BY <1>2, <1>3, <2>1, <2>2, <2>3, <2>6, MaxHopsAssumption
       DEF Tree, Unread, Rebuilding, ShortestRoute
  <2>5. Frontier' /\ Expanded'
    BY <1>2, <2>1, <2>2, <2>3 DEF Frontier, Expanded, Searching
  <2> QED
    BY <1>1, <2>4, <2>5
<1> QED
  BY <1>4, <1>5
LEMMA DequeueInv == IInv /\ Dequeue => IInv'
<1> SUFFICES ASSUME IInv, Dequeue PROVE IInv'
  OBVIOUS
<1> USE DEF TypeOK, IInv
<1>1. TypeOK'
  BY TypeStep DEF Next, Search
<1>2. /\ pc = "search" /\ Searching /\ queue # << >> /\ queue \in Seq(Token)
      /\ cur' = Head(queue) /\ queue' = Tail(queue) /\ i' = 1
      /\ UNCHANGED <<graph, from, to, edges, depth, parent, hops>>
  BY DEF Dequeue, Searching
<1> HIDE DEF TypeOK, IInv
<1>3. /\ Queued = {cur'} \cup Queued' /\ Len(queue') = Len(queue) - 1
      /\ \A j \in 1..Len(queue') : queue'[j] = queue[j + 1]
      /\ cur' = queue[1] /\ cur' \in Token
  BY <1>2, QueuedAfter DEF Queued
<1> USE DEF TypeOK, IInv
<1>4. Visited' = Visited /\ Read' = Read
  BY <1>2 DEF Visited, Read
<1>5. cur' \in Visited /\ Queued' \subseteq Visited
  BY <1>2, <1>3 DEF Frontier
<1>6. /\ \A j, k \in 1..Len(queue') : j < k => depth[queue'[j]] <= depth[queue'[k]]
      /\ \A t \in Visited, q \in Queued' : depth[t] <= depth[q] + 1
      /\ \A t \in Visited : depth[t] <= depth[cur'] + 1
  BY <1>2, <1>3 DEF Frontier
<1>7. \A q \in Queued' : depth[cur'] <= depth[q]
  <2> SUFFICES ASSUME NEW j \in 1..Len(queue') PROVE depth[cur'] <= depth[queue'[j]]
    BY DEF Queued
  <2>1. 1 \in 1..Len(queue) /\ j + 1 \in 1..Len(queue) /\ 1 < j + 1
    BY <1>2, <1>3
  <2> QED
    BY <1>2, <1>3, <2>1 DEF Frontier
<1>8. Tree' /\ Unread'
  BY <1>2, <1>4 DEF Tree, Unread, Dequeue
<1>9. ShortestRoute'
  BY <1>2, <1>4 DEF ShortestRoute, Dequeue
<1>10. depth \in [Token -> Nat \cup {-1}] /\ MaxHops \in Nat
  BY MaxHopsAssumption DEF Unvisited
<1>11. CASE cur' = to
  <2>1. pc' = "rebuild"
    BY <1>11 DEF Dequeue
  <2>2. Frontier' /\ Expanded'
    BY <2>1 DEF Frontier, Expanded, Searching
  <2>3. ASSUME NEW u \in Visited, NEW p \in Read, NEW v \in Token,
               depth[u] < depth[to], Joins(p, u, v)
        PROVE  Near(u, v)
    <3>1. u \notin Queued
      BY <1>3, <1>7, <1>10, <1>11, <2>3 DEF Visited
    <3>2. ~(depth[u] >= MaxHops)
      BY <1>2, <1>5, <1>10, <1>11, <2>3 DEF Tree, Visited
    <3>3. pc # "scan"
      BY <1>2
    <3> QED
      BY <1>2, <2>3, <3>1, <3>2, <3>3 DEF Expanded
  <2>4. Len(hops) = 0 /\ hops = << >>
    BY <1>2 DEF Unread
  <2>5. IsRoute(hops, Read, to, to)
    BY <2>4 DEF IsRoute
  <2>6. Rebuilding'
    BY <1>2, <1>4, <1>5, <1>10, <1>11, <2>1, <2>3, <2>4, <2>5 DEF Rebuilding, Near, Visited
  <2> QED
    BY <1>1, <1>8, <1>9, <2>2, <2>6
<1>12. CASE cur' # to /\ depth[cur'] >= MaxHops
  <2>1. pc' = "search"
    BY <1>12, <1>2 DEF Dequeue
  <2>2. Frontier'
    BY <1>2, <1>3, <1>4, <1>5, <1>6, <1>12, <2>1 DEF Frontier, Searching
  <2>3. Expanded'
    BY <1>2, <1>3, <1>4, <1>12, <2>1 DEF Expanded, Searching, Near
  <2>4. Rebuilding'
    BY <2>1 DEF Rebuilding
  <2> QED
    BY <1>1, <1>8, <1>9, <2>2, <2>3, <2>4
<1>13. CASE cur' # to /\ ~(depth[cur'] >= MaxHops)
  <2>1. pc' = "scan"
    BY <1>13, <1>2 DEF Dequeue
  <2>2. depth[cur'] < MaxHops
    BY <1>10, <1>3, <1>13
  <2>3. Frontier'
    BY <1>2, <1>3, <1>4, <1>5, <1>6, <1>7, <1>13, <2>1, <2>2 DEF Frontier, Searching
  <2>4. Expanded'
    BY <1>2, <1>3, <1>4, <1>13, <2>1 DEF Expanded, Searching, Near
  <2>5. Rebuilding'
    BY <2>1 DEF Rebuilding
  <2> QED
    BY <1>1, <1>8, <1>9, <2>3, <2>4, <2>5
<1> QED
  BY <1>11, <1>12, <1>13
LEMMA NotFoundInv == IInv /\ NotFound => IInv'
<1> SUFFICES ASSUME IInv, NotFound PROVE IInv'
  OBVIOUS
<1> USE DEF TypeOK, IInv
<1>1. TypeOK'
  BY TypeStep DEF Next, Search
<1>2. /\ pc = "search" /\ Searching /\ queue = << >> /\ pc' = "notFound"
      /\ UNCHANGED <<graph, from, to, edges, queue, depth, parent, cur, i, hops>>
  BY DEF NotFound, Searching
<1>3. Queued = {}
  BY <1>2 DEF Queued
<1>4. to \notin Visited
  BY <1>2, <1>3 DEF Frontier
<1>5. depth \in [Token -> Nat \cup {-1}] /\ MaxHops \in Nat
  BY MaxHopsAssumption DEF Unvisited
<1> DEFINE D == [t \in Token |-> IF t \in Visited THEN depth[t] ELSE MaxHops + 1]
<1>6. D \in [Token -> Nat] /\ D[to] > MaxHops
  BY <1>4, <1>5 DEF Visited, Unvisited
<1>7. D[from] = 0
  BY <1>2, <1>5 DEF Tree, Visited, Unvisited
<1>8. ASSUME NEW p \in Read, NEW u \in Token, NEW v \in Token, Joins(p, u, v)
      PROVE  D[v] <= D[u] + 1
  <2>1. \A t \in Visited : depth[t] <= MaxHops
    BY <1>2 DEF Tree
  <2>2. D[v] <= MaxHops + 1
    BY <1>5, <2>1
  <2>3. CASE u \notin Visited
    BY <1>5, <2>2, <2>3
  <2>4. CASE u \in Visited /\ depth[u] >= MaxHops
    BY <1>5, <2>2, <2>4
  <2>5. CASE u \in Visited /\ ~(depth[u] >= MaxHops)
    <3>1. Near(u, v)
      BY <1>2, <1>3, <1>8, <2>5 DEF Expanded
    <3> QED
      BY <1>5, <2>5, <3>1 DEF Near, Visited
  <2> QED
    BY <2>3, <2>4, <2>5
<1>9. NoneWithin(MaxHops, Read, from, to)
  <2> HIDE DEF D
  <2> QED
    BY <1>5, <1>6, <1>7, <1>8, NoneWithinBound
<1>10. ShortestRoute'
  BY <1>2, <1>9 DEF ShortestRoute, Read
<1> QED
  BY <1>1, <1>2, <1>10 DEF Unread, Tree, Frontier, Expanded, Rebuilding, Searching

LEMMA SameInv == IInv /\ Same => IInv'
<1> SUFFICES ASSUME IInv, Same PROVE IInv'
  OBVIOUS
<1> USE DEF TypeOK, IInv
<1>1. TypeOK'
  BY TypeStep DEF Next, Search
<1>2. /\ pc = "start" /\ pc' = "found" /\ from = to /\ hops = << >>
      /\ UNCHANGED <<graph, from, to, edges, queue, depth, parent, cur, i, hops>>
  BY DEF Same, Unread
<1>3. IsShortest(hops, Read, from, to)
  BY <1>2 DEF IsShortest, IsRoute, NoneWithin
<1>4. ShortestRoute'
  BY <1>2, <1>3, MaxHopsAssumption DEF ShortestRoute, Read
<1> QED
  BY <1>1, <1>2, <1>4 DEF Unread, Tree, Frontier, Expanded, Rebuilding, Searching
LEMMA VisitInv == IInv /\ Visit => IInv'
<1> SUFFICES ASSUME IInv, Visit PROVE IInv'
  OBVIOUS
<1> USE DEF TypeOK, IInv
<1>1. TypeOK'
  BY TypeStep DEF Next, Search
<1> DEFINE p == edges[i]
           t == Neighbour(edges[i])
<1>2. /\ pc = "scan" /\ pc' = "scan" /\ Searching /\ Searching' /\ i \in 1..Len(edges)
      /\ depth[t] = Unvisited /\ Incident(p) /\ i' = i + 1
      /\ UNCHANGED <<graph, from, to, edges, cur, hops>>
  BY DEF Visit, Searching
<1>3. p \in Pool /\ p \in Read
  BY <1>2 DEF Read
<1>4. t \in Token /\ t # cur /\ Joins(p, cur, t) /\ \A v \in Token : Joins(p, cur, v) => v = t
  BY <1>2, <1>3, NeighbourType
<1>5. /\ depth' = [depth EXCEPT ![t] = depth[cur] + 1]
      /\ parent' = [parent EXCEPT ![t] = [pool |-> p, tokenIn |-> cur, tokenOut |-> t]]
      /\ queue' = Append(queue, t)
  BY DEF Visit
<1> HIDE DEF p, t
<1>6. depth \in [Token -> Nat \cup {-1}] /\ MaxHops \in Nat
  BY MaxHopsAssumption DEF Unvisited
<1>7. cur \in Visited /\ depth[cur] \in Nat /\ depth[cur] < MaxHops /\ cur # to
  BY <1>2, <1>6 DEF Frontier, Visited, Unvisited
<1>8. /\ depth'[t] = depth[cur] + 1 /\ \A u \in Token : u # t => depth'[u] = depth[u]
      /\ t \notin Visited /\ Visited' = Visited \cup {t} /\ Read' = Read
  BY <1>2, <1>4, <1>5, <1>6, <1>7 DEF Visited, Unvisited, Read
<1>9. /\ Len(queue') = Len(queue) + 1 /\ Len(queue) \in Nat /\ queue'[Len(queue) + 1] = t
      /\ \A j \in 1..Len(queue) : queue'[j] = queue[j] /\ queue[j] \in Visited /\ queue[j] # t
      /\ Queued' = Queued \cup {t}
  <2>1. /\ Len(queue') = Len(queue) + 1 /\ Len(queue) \in Nat /\ queue'[Len(queue) + 1] = t
        /\ \A j \in 1..Len(queue) : queue'[j] = queue[j]
    BY <1>4, <1>5
  <2>2. \A j \in 1..Len(queue) : queue[j] \in Visited /\ queue[j] # t
    BY <1>2, <1>8 DEF Frontier, Queued
  <2>3. \A k \in 1..Len(queue') : k \in 1..Len(queue) \/ k = Len(queue) + 1
    BY <2>1
  <2>4. Queued' = Queued \cup {t}
    <3>1. Queued' \subseteq Queued \cup {t}
      BY <2>1, <2>3 DEF Queued
    <3>2. Queued \subseteq Queued' /\ t \in Queued'
      BY <2>1 DEF Queued
    <3> QED
      BY <3>1, <3>2
  <2> QED
    BY <2>1, <2>2, <2>4
<1>10. \A u \in Visited : depth'[u] = depth[u] /\ u # t
  BY <1>8 DEF Visited
<1>11. ASSUME NEW u \in Visited, NEW v \in Token, Near(u, v)
       PROVE  Near(u, v)'
  BY <1>8, <1>10, <1>11 DEF Near, Visited
<1>12. Tree'
  <2>1. from # to /\ depth'[from] = 0 /\ from # t
    BY <1>2, <1>8 DEF Tree, Unvisited
  <2>2. \A u \in Visited' : depth'[u] <= MaxHops
    BY <1>2, <1>6, <1>7, <1>8, <1>10 DEF Tree
  <2>3. /\ parent'[t].tokenOut = t /\ parent'[t].pool = p /\ parent'[t].tokenIn = cur
    BY <1>4, <1>5
  <2>4. ASSUME NEW u \in Visited' \ {from}
        PROVE  /\ parent'[u].tokenOut = u /\ parent'[u].pool \in Read
               /\ Joins(parent'[u].pool, parent'[u].tokenIn, u)
               /\ parent'[u].tokenIn \in Visited'
               /\ depth'[u] = depth'[parent'[u].tokenIn] + 1
    <3>1. CASE u = t
      BY <1>3, <1>4, <1>7, <1>8, <1>10, <2>3, <3>1
    <3>2. CASE u # t
      <4>1. u \in Visited \ {from} /\ parent'[u] = parent[u]
        BY <1>5, <1>8, <2>4, <3>2 DEF Visited
      <4> QED
        BY <1>2, <1>8, <1>10, <4>1 DEF Tree
    <3> QED
      BY <3>1, <3>2
  <2> QED
    BY <1>2, <1>8, <2>1, <2>2, <2>4 DEF Tree
<1>13. Frontier'
  <2>1. Queued' \subseteq Visited'
    BY <1>2, <1>8, <1>9 DEF Frontier
  <2>2. \A q \in Queued' : q \in Visited' /\ depth'[q] \in Nat /\ depth'[cur] <= depth'[q]
    <3>1. \A q \in Queued : q \in Visited /\ depth[cur] <= depth[q]
      BY <1>2 DEF Frontier
    <3> QED
      BY <1>6, <1>7, <1>8, <1>9, <1>10, <3>1 DEF Visited
  <2>3. \A u \in Visited' : depth'[u] \in Nat /\ depth'[u] <= depth'[cur] + 1
    <3>1. \A u \in Visited : depth[u] <= depth[cur] + 1
      BY <1>2 DEF Frontier
    <3> QED
      BY <1>6, <1>7, <1>8, <1>10, <3>1 DEF Visited
  <2>4. depth'[cur] = depth[cur]
    BY <1>7, <1>10
  <2>6. \A u \in Visited', q \in Queued' : depth'[u] <= depth'[q] + 1
    BY <1>7, <2>2, <2>3, <2>4
  <2>7. ASSUME NEW j \in 1..Len(queue'), NEW k \in 1..Len(queue'), j < k
        PROVE  depth'[queue'[j]] <= depth'[queue'[k]]
    <3>1. j \in 1..Len(queue)
      BY <1>9, <2>7
    <3>2. CASE k = Len(queue) + 1
      <4>1. queue'[j] \in Visited'
        BY <1>8, <1>9, <3>1
      <4> QED
        BY <1>7, <1>8, <1>9, <2>3, <2>4, <3>2, <4>1
    <3>3. CASE k # Len(queue) + 1
      <4>1. k \in 1..Len(queue)
        BY <1>9, <3>3
      <4> QED
        BY <1>2, <1>9, <1>10, <2>7, <3>1, <4>1 DEF Frontier
    <3> QED
      BY <3>2, <3>3
  <2>5. to \in Visited' => to \in Queued'
    BY <1>2, <1>8, <1>9 DEF Frontier
  <2> QED
    BY <1>2, <1>7, <1>8, <1>10, <2>1, <2>2, <2>3, <2>5, <2>6, <2>7 DEF Frontier
<1>14. Expanded'
  <2>1. ASSUME NEW u \in Visited'
        PROVE  \/ u \in Queued' \/ u = cur \/ depth'[u] >= MaxHops
               \/ \A q \in Read, v \in Token : Joins(q, u, v) => Near(u, v)'
    <3>1. CASE u = t
      BY <1>9, <3>1
    <3>2. CASE u \in Visited
      BY <1>2, <1>9, <1>10, <1>11, <3>2 DEF Expanded
    <3> QED
      BY <1>8, <3>1, <3>2
  <2>2. ASSUME NEW j \in 1..Len(edges), j < i + 1, NEW v \in Token, Joins(edges[j], cur, v)
        PROVE  Near(cur, v)'
    <3>1. CASE j < i
      BY <1>2, <1>7, <1>11, <2>2, <3>1 DEF Expanded
    <3>2. CASE j = i
      <4>1. v = t
        BY <1>4, <2>2, <3>2 DEF p
      <4> QED
        <5>1. cur' = cur /\ depth'[cur] = depth[cur] /\ depth'[v] = depth[cur] + 1
          BY <1>2, <1>7, <1>8, <1>10, <4>1
        <5>2. depth'[v] # Unvisited
          BY <1>7, <5>1 DEF Unvisited
        <5> QED
          BY <1>7, <5>1, <5>2 DEF Near
    <3> QED
      BY <1>2, <2>2, <3>1, <3>2
  <2> QED
    BY <1>2, <1>8, <2>1, <2>2 DEF Expanded
<1>15. Unread' /\ Rebuilding' /\ ShortestRoute'
  BY <1>2, <1>8 DEF Unread, Rebuilding, ShortestRoute
<1> QED
  BY <1>1, <1>12, <1>13, <1>14, <1>15
LEMMA PassInv == IInv /\ Pass => IInv'
<1> SUFFICES ASSUME IInv, Pass PROVE IInv'
  OBVIOUS
<1> USE DEF TypeOK, IInv
<1>1. TypeOK'
  BY TypeStep DEF Next, Search
<1>2. /\ pc = "scan" /\ pc' = "scan" /\ Searching /\ Searching' /\ i \in 1..Len(edges)
      /\ i' = i + 1
      /\ UNCHANGED <<graph, from, to, edges, queue, depth, parent, cur, hops>>
  BY DEF Pass, Searching
<1>3. Visited' = Visited /\ Queued' = Queued /\ Read' = Read
  BY <1>2 DEF Visited, Queued, Read
<1>4. ASSUME NEW v \in Token, Joins(edges[i], cur, v)
      PROVE  Near(cur, v)
  <2>1. Incident(edges[i]) /\ v = Neighbour(edges[i])
    BY <1>2, <1>4, NeighbourType, NotIncident
  <2>2. v \in Visited
    BY <2>1 DEF Pass, Visited
  <2> QED
    BY <1>2, <2>2 DEF Near, Visited, Frontier
<1>5. ASSUME NEW j \in 1..Len(edges), j < i + 1, NEW v \in Token, Joins(edges[j], cur, v)
      PROVE  Near(cur, v)
  <2>1. j < i \/ j = i
    BY <1>5
  <2> QED
    BY <1>2, <1>4, <1>5, <2>1 DEF Expanded
<1>6. Expanded'
  BY <1>2, <1>3, <1>5 DEF Expanded, Near
<1>7. Unread' /\ Tree' /\ Frontier' /\ Rebuilding' /\ ShortestRoute'
  BY <1>2, <1>3 DEF Unread, Tree, Frontier, Rebuilding, ShortestRoute
<1> QED
  BY <1>1, <1>6, <1>7

LEMMA ScannedInv == IInv /\ Scanned => IInv'
<1> SUFFICES ASSUME IInv, Scanned PROVE IInv'
  OBVIOUS
<1> USE DEF TypeOK, IInv
<1>1. TypeOK'
  BY TypeStep DEF Next, Search
<1>2. /\ pc = "scan" /\ pc' = "search" /\ Searching /\ Searching' /\ i > Len(edges)
      /\ UNCHANGED <<graph, from, to, edges, queue, depth, parent, cur, i, hops>>
  BY DEF Scanned, Searching
<1>3. Visited' = Visited /\ Queued' = Queued /\ Read' = Read
  BY <1>2 DEF Visited, Queued, Read
<1>4. ASSUME NEW q \in Read, NEW v \in Token, Joins(q, cur, v)
      PROVE  Near(cur, v)
  <2>1. PICK j \in 1..Len(edges) : q = edges[j]
    BY DEF Read
  <2>2. j < i
    BY <1>2
  <2> QED
    BY <1>2, <1>4, <2>1, <2>2 DEF Expanded
<1>5. Expanded'
  BY <1>2, <1>3, <1>4 DEF Expanded, Near
<1>6. Unread' /\ Tree' /\ Frontier' /\ Rebuilding' /\ ShortestRoute'
  BY <1>2, <1>3 DEF Unread, Tree, Frontier, Rebuilding, ShortestRoute
<1> QED
  BY <1>1, <1>5, <1>6

LEMMA IndexInv == ASSUME NEW p \in Pool, IInv, Index(p) PROVE IInv'
<1> USE DEF TypeOK, IInv
<1>1. TypeOK'
  BY TypeStep DEF Next
<1>2. graph \subseteq graph' /\ UNCHANGED <<from, to, pc, edges, queue, depth, parent, cur, i, hops>>
  BY DEF Index, search
<1>3. Visited' = Visited /\ Queued' = Queued /\ Read' = Read /\ (Searching' <=> Searching)
  BY <1>2 DEF Visited, Queued, Read, Searching
<1>4. Unread' /\ Tree' /\ Frontier'
  BY <1>2, <1>3 DEF Unread, Tree, Frontier
<1>5. Expanded' /\ Rebuilding'
  BY <1>2, <1>3 DEF Expanded, Rebuilding, Near
<1>6. ShortestRoute'
  BY <1>2, <1>3 DEF ShortestRoute
<1> QED
  BY <1>1, <1>4, <1>5, <1>6
\* A hop in front of a route.
LEMMA Prepended ==
  ASSUME NEW r, NEW G, NEW a, NEW b, IsRoute(r, G, a, b),
         NEW h \in Hop, h.tokenOut = a, h.pool \in G, Joins(h.pool, h.tokenIn, a)
  PROVE  IsRoute(<< h >> \o r, G, h.tokenIn, b) /\ Len(<< h >> \o r) = Len(r) + 1
<1> DEFINE R == << h >> \o r
<1>1. /\ r \in Seq(Hop) /\ Len(r) \in Nat /\ R \in Seq(Hop) /\ Len(R) = Len(r) + 1 /\ R[1] = h
      /\ \A k \in 1..Len(r) : R[k + 1] = r[k]
  BY DEF IsRoute
<1> HIDE DEF R
<1>2. R # << >>
  BY <1>1
<1>3. ASSUME NEW k \in 1..Len(R)
      PROVE  /\ R[k].pool \in G /\ Joins(R[k].pool, R[k].tokenIn, R[k].tokenOut)
             /\ R[k].tokenIn = IF k = 1 THEN h.tokenIn ELSE R[k - 1].tokenOut
  <2>1. CASE k = 1
    BY <1>1, <2>1
  <2>2. CASE k # 1
    <3>1. k - 1 \in 1..Len(r) /\ R[k] = r[k - 1] /\ (k - 1) + 1 = k
      <4>1. k \in Nat /\ k - 1 \in 1..Len(r) /\ (k - 1) + 1 = k
        BY <1>1, <2>2
      <4> QED
        BY <1>1, <4>1
    <3>2. CASE k = 2
      <4>1. r[1].tokenIn = a /\ R[2] = r[1] /\ 1 \in 1..Len(r)
        BY <3>1, <3>2 DEF IsRoute
      <4> QED
        BY <1>1, <3>2, <4>1 DEF IsRoute
    <3>3. CASE k # 2
      <4>1. k - 2 \in 1..Len(r) /\ R[k - 1] = r[k - 2]
        <5>1. k - 2 \in 1..Len(r) /\ (k - 2) + 1 = k - 1
          BY <1>1, <2>2, <3>3
        <5> QED
          BY <1>1, <5>1
      <4>2. r[k - 1].tokenIn = r[(k - 1) - 1].tokenOut
        BY <3>1, <3>3 DEF IsRoute
      <4> QED
        BY <2>2, <3>1, <4>1, <4>2 DEF IsRoute
    <3> QED
      BY <3>2, <3>3
  <2> QED
    BY <2>1, <2>2
<1>4. b = R[Len(R)].tokenOut
  <2>1. CASE r = << >>
    BY <1>1, <2>1 DEF IsRoute
  <2>2. CASE r # << >>
    <3>1. Len(r) \in 1..Len(r) /\ b = r[Len(r)].tokenOut
      BY <1>1, <2>2 DEF IsRoute
    <3> QED
      BY <1>1, <3>1
  <2> QED
    BY <2>1, <2>2
<1>5. IsRoute(R, G, h.tokenIn, b)
  BY <1>1, <1>2, <1>3, <1>4 DEF IsRoute
<1> QED
  BY <1>1, <1>5 DEF R

LEMMA RebuildInv == IInv /\ Rebuild => IInv'
<1> SUFFICES ASSUME IInv, Rebuild PROVE IInv'
  OBVIOUS
<1> USE DEF TypeOK, IInv
<1>1. TypeOK'
  BY TypeStep DEF Next, Search
<1> DEFINE h == parent[cur]
<1>2. /\ pc = "rebuild" /\ pc' = "rebuild" /\ cur # from
      /\ hops' = << h >> \o hops /\ cur' = h.tokenIn
      /\ UNCHANGED <<graph, from, to, edges, queue, depth, parent, i>>
  BY DEF Rebuild
<1>3. Visited' = Visited /\ Read' = Read /\ ~Searching'
  BY <1>2 DEF Visited, Read, Searching
<1>4. /\ h \in Hop /\ h.tokenOut = cur /\ h.pool \in Read /\ Joins(h.pool, h.tokenIn, cur)
      /\ h.tokenIn \in Visited /\ depth[cur] = depth[h.tokenIn] + 1
  BY <1>2 DEF Tree, Rebuilding
<1>5. IsRoute(hops, Read, cur, to) /\ Len(hops) + depth[cur] = depth[to] /\ Len(hops) \in Nat
  BY <1>2 DEF Rebuilding
<1> HIDE DEF h
<1>6. IsRoute(hops', Read, cur', to) /\ Len(hops') = Len(hops) + 1
  <2>1. /\ IsRoute(<< h >> \o hops, Read, h.tokenIn, to)
        /\ Len(<< h >> \o hops) = Len(hops) + 1
    BY <1>4, <1>5, Prepended
  <2> QED
    BY <1>2, <2>1
<1>7. Len(hops') + depth[cur'] = depth[to]
  <2>1. cur' = h.tokenIn /\ cur' \in Token /\ depth[cur'] \in Int
    BY <1>1, <1>2 DEF Unvisited
  <2>2. depth[cur] = depth[cur'] + 1
    BY <1>4, <2>1
  <2>3. /\ Len(hops') = Len(hops) + 1 /\ Len(hops) \in Nat
        /\ depth[to] = Len(hops) + (depth[cur'] + 1)
    BY <1>5, <1>6, <2>2
  <2>4. \A a \in Nat, d \in Int : (a + 1) + d = a + (d + 1)
    OBVIOUS
  <2> QED
    BY <2>1, <2>3, <2>4, Zenon
<1>8. Rebuilding'
  BY <1>2, <1>3, <1>4, <1>6, <1>7 DEF Rebuilding, Near
<1>9. Tree'
  BY <1>2, <1>3 DEF Tree
<1>10. Unread' /\ Frontier' /\ Expanded' /\ ShortestRoute'
  BY <1>2, <1>3 DEF Unread, Frontier, Expanded, ShortestRoute
<1> QED
  BY <1>1, <1>8, <1>9, <1>10

LEMMA RebuiltInv == IInv /\ Rebuilt => IInv'
<1> SUFFICES ASSUME IInv, Rebuilt PROVE IInv'
  OBVIOUS
<1> USE DEF TypeOK, IInv
<1>1. TypeOK'
  BY TypeStep DEF Next, Search
<1>2. /\ pc = "rebuild" /\ pc' = "found" /\ cur = from
      /\ UNCHANGED <<graph, from, to, edges, queue, depth, parent, cur, i, hops>>
  BY DEF Rebuilt
<1>3. depth \in [Token -> Nat \cup {-1}] /\ MaxHops \in Nat
  BY MaxHopsAssumption DEF Unvisited
<1>4. /\ to \in Visited /\ IsRoute(hops, Read, from, to) /\ Len(hops) \in Nat
      /\ depth[from] = 0 /\ Len(hops) = depth[to] /\ depth[to] <= MaxHops
  BY <1>2, <1>3 DEF Rebuilding, Tree
<1>5. \A u \in Visited, q \in Read, v \in Token :
         depth[u] < depth[to] /\ Joins(q, u, v) => Near(u, v)
  BY <1>2 DEF Rebuilding
<1> DEFINE Lower(t) == t \in Visited /\ depth[t] < depth[to]
           D == [t \in Token |-> IF Lower(t) THEN depth[t] ELSE depth[to]]
<1>6. D \in [Token -> Nat] /\ D[to] = depth[to] /\ D[from] = 0
  BY <1>3, <1>4 DEF Visited, Unvisited
<1>7. ASSUME NEW q \in Read, NEW u \in Token, NEW v \in Token, Joins(q, u, v)
      PROVE  D[v] <= D[u] + 1
  <2>1. D[v] <= depth[to] /\ D[u] \in Nat /\ D[v] \in Nat /\ depth[to] \in Nat
    BY <1>3, <1>4 DEF Visited, Unvisited
  <2>2. CASE ~Lower(u)
    BY <2>1, <2>2
  <2>3. CASE Lower(u)
    <3>1. Near(u, v) /\ v \in Visited
      BY <1>5, <1>7, <2>3 DEF Near, Visited
    <3>2. D[u] = depth[u] /\ depth[v] <= depth[u] + 1
      BY <2>3, <3>1 DEF Near
    <3>3. D[v] <= depth[v]
      BY <1>3, <2>1, <3>1
    <3> QED
      BY <1>3, <2>1, <3>2, <3>3
  <2> QED
    BY <2>2, <2>3
<1>8. NoneWithin(Len(hops) - 1, Read, from, to)
  <2>1. Len(hops) - 1 \in Int /\ D[to] > Len(hops) - 1
    BY <1>4, <1>6
  <2> HIDE DEF D
  <2> QED
    BY <1>6, <1>7, <2>1, NoneWithinBound
<1>9. ShortestRoute'
  BY <1>2, <1>4, <1>8 DEF ShortestRoute, IsShortest, Read
<1> QED
  BY <1>1, <1>2, <1>9 DEF Unread, Tree, Frontier, Expanded, Rebuilding, Searching

LEMMA StutterInv == IInv /\ UNCHANGED vars => IInv'
<1> SUFFICES ASSUME IInv, UNCHANGED vars PROVE IInv'
  OBVIOUS
<1>1. UNCHANGED <<graph, from, to, pc, edges, queue, depth, parent, cur, i, hops>>
  BY DEF vars, search
<1> QED
  BY <1>1 DEF IInv, TypeOK, Unread, Tree, Frontier, Expanded, Rebuilding, ShortestRoute,
     Searching, Visited, Queued, Read, Near

LEMMA InvStep == IInv /\ [Next]_vars => IInv'
BY SameInv, ReadEdgesInv, DequeueInv, NotFoundInv, VisitInv, PassInv, ScannedInv, RebuildInv,
   RebuiltInv, IndexInv, StutterInv DEF Next, Search

LEMMA Invariance == Spec => []IInv
BY InvInit, InvStep, PTL DEF Spec

(***************************************************************************)
(* For every graph, order of rows, pair of tokens and MaxHops: the route   *)
(* that findShortestRoute finds is a route, and none has fewer hops; it    *)
(* finds none only when no route is within MaxHops.                        *)
(***************************************************************************)
THEOREM RoutesShortest == Spec => []ShortestRoute
<1>1. IInv => ShortestRoute
  BY DEF IInv
<1> QED
  BY <1>1, Invariance, PTL
-----------------------------------------------------------------------------
LEMMA MapInit == Init => Answers!Init
BY DEF Init, Answers!Init, Read

\* The notions of PoolGraph are the same in both.
LEMMA SameNotions ==
  /\ \A n, G, a, b : NoneWithin(n, G, a, b) => Answers!NoneWithin(n, G, a, b)
  /\ \A r, G, a, b : IsShortest(r, G, a, b) => Answers!IsShortest(r, G, a, b)
<1>1. \A p, a, b : Joins(p, a, b) <=> Answers!Joins(p, a, b)
  BY Zenon DEF Joins, Answers!Joins
<1>2. \A t, m, G, a, b : IsPath(t, m, G, a, b) <=> Answers!IsPath(t, m, G, a, b)
  BY Zenon DEF IsPath, Answers!IsPath, Joins, Answers!Joins
<1>3. \A n, G, a, b : NoneWithin(n, G, a, b) <=> Answers!NoneWithin(n, G, a, b)
  BY <1>2, Zenon DEF NoneWithin, Answers!NoneWithin
<1>4. \A r, G, a, b : IsRoute(r, G, a, b) <=> Answers!IsRoute(r, G, a, b)
  BY Zenon DEF IsRoute, Answers!IsRoute, Hop, Answers!Hop, Joins, Answers!Joins
<1> QED
  BY <1>3, <1>4, Zenon DEF IsShortest, Answers!IsShortest

LEMMA MapStep == IInv /\ IInv' /\ [Next]_vars => [Answers!Next]_(Answers!vars)
<1> SUFFICES ASSUME IInv, IInv', [Next]_vars PROVE [Answers!Next]_(Answers!vars)
  OBVIOUS
<1> USE DEF IInv
<1>1. ASSUME NEW p \in Pool, Index(p) PROVE Answers!Grow
  BY <1>1 DEF Index, search, Answers!Grow, Read
<1>2. CASE Same
  <2>1. /\ pc = "start" /\ pc' = "found" /\ from = to
        /\ UNCHANGED <<graph, from, to, edges, hops>>
    BY <1>2 DEF Same
  <2>2. IsShortest(hops', Read', from', to') /\ Len(hops') <= MaxHops
    BY <2>1 DEF ShortestRoute
  <2>3. Answers!IsShortest(hops', Read, from, to)
    <3>1. IsShortest(hops', Read, from, to)
      BY <2>1, <2>2 DEF Read
    <3> QED
      BY <3>1, SameNotions, Zenon
  <2>4. Answers!Find
    BY <2>1, <2>2, <2>3 DEF Answers!Find, Read
  <2> QED
    BY <2>4 DEF Answers!Next
<1>3. CASE ReadEdges
  <2>1. /\ pc = "start" /\ from # to /\ UNCHANGED <<graph, from, to, hops>>
        /\ pc' = IF edges' = << >> THEN "notFound" ELSE "search"
    BY <1>3 DEF ReadEdges
  <2>2. Read' = graph
    <3>1. PICK s \in [1..Cardinality(graph) -> graph] : IsOrder(s, graph) /\ edges' = s
      BY <1>3 DEF ReadEdges
    <3> QED
      BY <3>1 DEF Read, IsOrder
  <2>3. Read = {}
    BY <2>1 DEF Unread, Read
  <2>4. CASE edges' = << >>
    <3>1. graph = {}
      BY <2>2, <2>4 DEF Read
    <3>2. Answers!LookAndMiss
      BY <2>1, <2>2, <2>3, <2>4, <3>1 DEF Answers!LookAndMiss
    <3> QED
      BY <3>2 DEF Answers!Next
  <2>5. CASE edges' # << >>
    <3>1. Answers!Look
      BY <2>1, <2>2, <2>5 DEF Answers!Look
    <3> QED
      BY <3>1 DEF Answers!Next
  <2> QED
    BY <2>4, <2>5
<1>4. ASSUME pc \in {"search", "scan", "rebuild"}, pc' \in {"search", "scan", "rebuild"},
             UNCHANGED <<graph, from, to, edges>>
      PROVE  UNCHANGED Answers!vars
  BY <1>4 DEF Answers!vars, Read
<1>5. CASE Dequeue \/ Visit \/ Pass \/ Scanned \/ Rebuild
  BY <1>4, <1>5 DEF Dequeue, Visit, Pass, Scanned, Rebuild
<1>6. CASE NotFound
  <2>1. /\ pc = "search" /\ pc' = "notFound" /\ from # to
        /\ UNCHANGED <<graph, from, to, edges, hops>>
    BY <1>6 DEF NotFound, Tree
  <2>2. Answers!NoneWithin(MaxHops, Read, from, to)
    <3>1. NoneWithin(MaxHops, Read, from, to)
      BY <2>1 DEF ShortestRoute, Read
    <3> QED
      BY <3>1, SameNotions, Zenon
  <2>3. Answers!Miss
    BY <2>1, <2>2 DEF Answers!Miss, Read
  <2> QED
    BY <2>3 DEF Answers!Next
<1>7. CASE Rebuilt
  <2>1. /\ pc = "rebuild" /\ pc' = "found" /\ from # to
        /\ UNCHANGED <<graph, from, to, edges, hops>>
    BY <1>7 DEF Rebuilt, Tree
  <2>2. IsShortest(hops', Read', from', to') /\ Len(hops') <= MaxHops
    BY <2>1 DEF ShortestRoute
  <2>3. Answers!IsShortest(hops', Read, from, to)
    <3>1. IsShortest(hops', Read, from, to)
      BY <2>1, <2>2 DEF Read
    <3> QED
      BY <3>1, SameNotions, Zenon
  <2>4. Answers!Find
    BY <2>1, <2>2, <2>3 DEF Answers!Find, Read
  <2> QED
    BY <2>4 DEF Answers!Next
<1>8. CASE UNCHANGED vars
  BY <1>8 DEF vars, search, Answers!vars, Read
<1> QED
  BY <1>1, <1>2, <1>3, <1>5, <1>6, <1>7, <1>8 DEF Next, Search, Answers!Next

(***************************************************************************)
(* findShortestRoute implements RouteAnswers: each of its steps is a step  *)
(* there or changes nothing there.                                         *)
(***************************************************************************)
THEOREM Refinement == Spec => Answers!Init /\ [][Answers!Next]_(Answers!vars)
BY MapInit, MapStep, Invariance, PTL DEF Spec

-----------------------------------------------------------------------------
(***************************************************************************)
(* Fees.  had[p] is what the fee of p has been since the request began:    *)
(* what the request has read of a pool that is not torn is among it, at    *)
(* each stage, and so is what it has shown and quoted.                     *)
(***************************************************************************)
CurrentFee(p) == HopFeeBps(p, Bps(pairs, p), tiers)
ReadFee(p) == HopFeeBps(p, Bps(loaded, p), tiers)

\* Fees f of hops that their pools had, or may have torn.
Sound(f) ==
  /\ DOMAIN f \subseteq 1..Len(hops)
  /\ \A h \in DOMAIN f : f[h] \in had[hops[h].pool] \/ hops[h].pool \in torn

FeesKept ==
  /\ stage \in 0..6 /\ DOMAIN had = Pool
  /\ \A p \in Pool : CurrentFee(p) \in had[p]
  /\ stage > 0 => pc = "found"
  /\ stage \in {1, 3, 5} => \A p \in Seen : ReadFee(p) \in had[p] \/ p \in torn
  /\ Sound(shown) /\ Sound(quoted)
  /\ stage < 2 => shown = << >>
  /\ stage < 6 => quoted = << >>
  /\ stage >= 2 => DOMAIN shown = 1..Len(hops)

QInv == IInv /\ FeesKept

-----------------------------------------------------------------------------
(* The search beside the consumer's statements is the search of SwapRoutes. *)

LEMMA QuotesStep ==
  [QuotesNext]_allVars => [Next]_vars /\ (stage > 0 /\ pc = "found" => UNCHANGED search)
<1>1. CASE Search /\ UNCHANGED feeVars
  <2>1. pc # "found"
    BY <1>1 DEF Search, Same, ReadEdges, Dequeue, NotFound, Visit, Pass, Scanned, Rebuild, Rebuilt
  <2> QED
    BY <1>1, <2>1 DEF Next
<1>2. CASE StoreEdge
  BY <1>2 DEF StoreEdge, Index, Next
<1>3. CASE Take \/ StorePair \/ ApplyTier \/ StoreTier \/ StoreTierPairs \/ StoreOwn
  BY <1>3 DEF Take, StorePair, ApplyTier, StoreTier, StoreTierPairs, StoreOwn, vars
<1>4. CASE ReadPairs \/ Hydrate \/ Enrich \/ Quote
  BY <1>4 DEF ReadPairs, Hydrate, Enrich, Quote, vars
<1>5. CASE UNCHANGED allVars
  BY <1>5 DEF allVars, vars
<1> QED
  BY <1>1, <1>2, <1>3, <1>4, <1>5 DEF QuotesNext, Consumer, vars

LEMMA FeesInit == QuotesInit => FeesKept
<1> SUFFICES ASSUME QuotesInit PROVE FeesKept
  OBVIOUS
<1>1. \A p \in Pool : CurrentFee(p) \in had[p]
  BY DEF QuotesInit, CurrentFee, Fees
<1> QED
  BY <1>1 DEF QuotesInit, FeesKept, Sound

LEMMA HopPools ==
  ASSUME TypeOK PROVE \A h \in 1..Len(hops) : hops[h].pool \in Pool
<1>1. ASSUME NEW h \in 1..Len(hops) PROVE hops[h] \in Hop
  BY DEF TypeOK
<1> QED
  BY <1>1 DEF Hop

\* A statement of the consumer: the fee that the defaults read make of the pairs
\* read before is one the pool had, or is torn.
LEMMA CommitKeeps ==
  ASSUME TypeOK, FeesKept, NEW rows, NEW defaults, Commit(rows, defaults),
         UNCHANGED <<pc, hops>>
  PROVE  FeesKept'
<1>1. /\ pairs' = rows /\ tiers' = defaults
      /\ UNCHANGED <<pc, hops, stage, loaded, shown, quoted>>
      /\ had' = [p \in Pool |-> had[p] \cup {Fees(rows, defaults)[p]}]
      /\ torn' = IF defaults # tiers /\ stage \in {1, 3, 5}
                   THEN torn \cup {p \in Seen : Bps(loaded, p) = Null /\ Bps(rows, p) # Null}
                 ELSE torn
  BY DEF Commit
<1>2. \A p \in Pool : /\ had[p] \subseteq had'[p]
                      /\ HopFeeBps(p, Bps(rows, p), defaults) \in had'[p]
  BY <1>1 DEF Fees
<1>3. torn \subseteq torn'
  BY <1>1
<1>4. \A p \in Pool : CurrentFee(p)' \in had'[p]
  BY <1>1, <1>2 DEF CurrentFee, HopFeeBps, Bps
<1>5. ASSUME stage \in {1, 3, 5}, NEW p \in Seen
      PROVE  ReadFee(p)' \in had'[p] \/ p \in torn'
  <2>1. p \in Pool
    BY HopPools DEF Seen
  <2>2. ReadFee(p)' = HopFeeBps(p, Bps(loaded, p), defaults)
    BY <1>1 DEF ReadFee, HopFeeBps, Bps
  <2>3. ReadFee(p) \in had[p] \/ p \in torn
    BY <1>5 DEF FeesKept
  <2>4. CASE defaults = tiers \/ Bps(loaded, p) # Null
    <3>1. ReadFee(p)' = ReadFee(p)
      BY <2>2, <2>4 DEF ReadFee, HopFeeBps
    <3> QED
      BY <1>2, <1>3, <2>1, <2>3, <3>1
  <2>5. CASE defaults # tiers /\ Bps(loaded, p) = Null
    <3>1. CASE Bps(rows, p) # Null
      BY <1>1, <1>5, <2>5, <3>1
    <3>2. CASE Bps(rows, p) = Null
      BY <1>2, <2>1, <2>2, <2>5, <3>2
    <3> QED
      BY <3>1, <3>2
  <2> QED
    BY <2>4, <2>5
<1>6. Sound(shown)' /\ Sound(quoted)'
  <2>1. ASSUME NEW f, Sound(f)
        PROVE  /\ DOMAIN f \subseteq 1..Len(hops')
               /\ \A h \in DOMAIN f : f[h] \in had'[hops'[h].pool] \/ hops'[h].pool \in torn'
    BY <1>1, <1>2, <1>3, <2>1, HopPools DEF Sound
  <2>2. Sound(shown) /\ Sound(quoted)
    BY DEF FeesKept
  <2> QED
    BY <1>1, <2>1, <2>2 DEF Sound
<1>7. Seen' = Seen
  BY <1>1 DEF Seen
<1> QED
  BY <1>1, <1>4, <1>5, <1>6, <1>7 DEF FeesKept

\* Between the reads of the defaults and of the pairs nothing is changed.
LEMMA FeesReadSound ==
  ASSUME TypeOK, FeesKept, stage \in {1, 3, 5}
  PROVE  Sound(FeesRead) /\ DOMAIN FeesRead = 1..Len(hops)
<1>1. ASSUME NEW h \in 1..Len(hops)
      PROVE  FeesRead[h] \in had[hops[h].pool] \/ hops[h].pool \in torn
  <2>1. hops[h].pool \in Seen
    BY DEF Seen
  <2> QED
    BY <2>1 DEF FeesKept, FeesRead, ReadFee
<1> QED
  BY <1>1 DEF Sound, FeesRead

LEMMA RequestKeeps ==
  ASSUME TypeOK, FeesKept, ReadPairs \/ Hydrate \/ Enrich \/ Quote PROVE FeesKept'
<1>1. UNCHANGED <<pc, hops, pairs, tiers, had, torn>>
  BY DEF ReadPairs, Hydrate, Enrich, Quote, vars, search
<1>2. \A f : Sound(f)' <=> Sound(f')
  BY <1>1 DEF Sound
<1>3. /\ \A p \in Pool : CurrentFee(p)' \in had'[p]
      /\ Seen' = Seen /\ Len(hops') = Len(hops)
  BY <1>1 DEF CurrentFee, FeesKept, Bps, HopFeeBps, Seen
<1>4. CASE ReadPairs
  <2>1. /\ pc = "found" /\ stage \in {0, 2, 4} /\ stage' = stage + 1
        /\ loaded' = [p \in Seen \cap DOMAIN pairs |-> pairs[p]]
        /\ UNCHANGED <<shown, quoted>>
    BY <1>4 DEF ReadPairs, Reading
  <2>2. ASSUME NEW p \in Seen PROVE ReadFee(p)' \in had'[p]
    <3>1. p \in Pool
      BY HopPools DEF Seen
    <3>2. Bps(loaded, p)' = Bps(pairs, p)
      BY <2>1, <2>2 DEF Bps
    <3>3. ReadFee(p)' = CurrentFee(p)
      BY <1>1, <3>2 DEF ReadFee, CurrentFee, HopFeeBps
    <3> QED
      BY <1>1, <3>1, <3>3 DEF FeesKept
  <2>3. Sound(shown)' /\ Sound(quoted)'
    BY <1>1, <2>1 DEF FeesKept, Sound
  <2> QED
    BY <1>1, <1>3, <2>1, <2>2, <2>3 DEF FeesKept
<1>5. CASE Hydrate
  <2>1. /\ stage = 1 /\ stage' \in {2, 6} /\ shown' = FeesRead /\ UNCHANGED quoted
    BY <1>5 DEF Hydrate
  <2>2. Sound(FeesRead) /\ DOMAIN FeesRead = 1..Len(hops)
    BY <2>1, FeesReadSound
  <2>3. Sound(shown)' /\ Sound(quoted)'
    BY <1>1, <2>1, <2>2 DEF FeesKept, Sound
  <2> QED
    BY <1>1, <1>3, <2>1, <2>2, <2>3 DEF FeesKept
<1>6. CASE Enrich
  <2>1. PICK last \in 1..Len(hops) :
          shown' = [h \in 1..Len(hops) |-> IF h <= last THEN FeesRead[h] ELSE shown[h]]
    BY <1>6 DEF Enrich
  <2>2. stage = 3 /\ stage' = 4 /\ UNCHANGED quoted
    BY <1>6 DEF Enrich
  <2>3. Sound(FeesRead) /\ DOMAIN FeesRead = 1..Len(hops)
    BY <2>2, FeesReadSound
  <2>4. Sound(shown) /\ DOMAIN shown = 1..Len(hops)
    BY <2>2 DEF FeesKept
  <2>5. Sound(shown)'
    BY <1>1, <2>1, <2>3, <2>4 DEF Sound
  <2>6. Sound(quoted)'
    BY <1>1, <2>2 DEF FeesKept, Sound
  <2> QED
    BY <1>1, <1>3, <2>1, <2>2, <2>5, <2>6 DEF FeesKept
<1>7. CASE Quote
  <2>1. /\ stage = 5 /\ stage' = 6 /\ UNCHANGED shown
        /\ quoted' = << >> \/ quoted' = FeesRead
    BY <1>7 DEF Quote
  <2>2. Sound(FeesRead)
    BY <2>1, FeesReadSound
  <2>3. Sound(shown)' /\ Sound(quoted)'
    BY <1>1, <2>1, <2>2 DEF FeesKept, Sound
  <2> QED
    BY <1>1, <1>3, <2>1, <2>3 DEF FeesKept
<1> QED
  BY <1>4, <1>5, <1>6, <1>7

LEMMA FeesStep == TypeOK /\ FeesKept /\ [QuotesNext]_allVars => FeesKept'
<1> SUFFICES ASSUME TypeOK, FeesKept, [QuotesNext]_allVars PROVE FeesKept'
  OBVIOUS
<1>1. ASSUME UNCHANGED <<stage, pairs, tiers, loaded, shown, quoted, had, torn>>,
             stage > 0 => UNCHANGED <<pc, hops>>
      PROVE  FeesKept'
  <2>1. CASE stage > 0
    BY <1>1, <2>1 DEF FeesKept, CurrentFee, ReadFee, Seen, Sound, Bps, HopFeeBps
  <2>2. CASE ~(stage > 0)
    <3>1. stage = 0 /\ shown = << >> /\ quoted = << >>
      BY <2>2 DEF FeesKept
    <3>2. Sound(shown)' /\ Sound(quoted)'
      BY <1>1, <3>1 DEF Sound
    <3>3. \A p \in Pool : CurrentFee(p)' \in had'[p]
      BY <1>1 DEF FeesKept, CurrentFee, Bps, HopFeeBps
    <3> QED
      BY <1>1, <3>1, <3>2, <3>3 DEF FeesKept
  <2> QED
    BY <2>1, <2>2
<1>2. stage > 0 => UNCHANGED <<pc, hops>>
  BY QuotesStep DEF FeesKept, search
<1>3. CASE (Search /\ UNCHANGED feeVars) \/ UNCHANGED allVars
  BY <1>1, <1>2, <1>3 DEF feeVars, allVars
<1>4. CASE Take
  BY <1>1, <1>2, <1>4 DEF Take
<1>5. CASE StoreEdge
  BY <1>5, CommitKeeps DEF StoreEdge, Index, search
<1>6. CASE StorePair
  BY <1>6, CommitKeeps DEF StorePair, vars, search
<1>7. CASE ApplyTier
  BY <1>7, CommitKeeps DEF ApplyTier, vars, search
<1>8. CASE StoreTier
  BY <1>8, CommitKeeps DEF StoreTier, vars, search
<1>9. CASE StoreTierPairs
  BY <1>9, CommitKeeps DEF StoreTierPairs, vars, search
<1>10. CASE StoreOwn
  BY <1>10, CommitKeeps DEF StoreOwn, vars, search
<1>11. CASE ReadPairs \/ Hydrate \/ Enrich \/ Quote
  BY <1>11, RequestKeeps
<1> QED
  BY <1>3, <1>4, <1>5, <1>6, <1>7, <1>8, <1>9, <1>10, <1>11 DEF QuotesNext, Consumer

(***************************************************************************)
(* Beside a consumer that changes pools and fees between any two of its    *)
(* statements, the search is as correct as alone, and implements           *)
(* RouteAnswers.                                                           *)
(***************************************************************************)
THEOREM QuotedRoute ==
  QuotesSpec => [](TypeOK /\ ShortestRoute) /\ Answers!Init /\ [][Answers!Next]_(Answers!vars)
<1>1. QuotesInit => Init
  BY DEF QuotesInit
<1>2. [QuotesNext]_allVars => [Next]_vars
  BY QuotesStep
<1>3. IInv => TypeOK /\ ShortestRoute
  BY DEF IInv
<1> QED
  BY <1>1, <1>2, <1>3, InvInit, InvStep, MapInit, MapStep, PTL DEF QuotesSpec

(***************************************************************************)
(* Each fee of an answer is one its pool had during the request, unless    *)
(* the pool is torn: whatever the pools, the fees and their changes are.   *)
(***************************************************************************)
THEOREM FeesOfRequest == QuotesSpec => []FeeOfRequest
<1>1. FeesKept => FeeOfRequest
  BY DEF FeesKept, FeeOfRequest, Sound
<1> QED
  BY <1>1, FeesInit, FeesStep, QuotedRoute, PTL DEF QuotesSpec

-----------------------------------------------------------------------------
(***************************************************************************)
(* The swap page is correct for every set of tokens and amounts and every  *)
(* number of swaps: types, TradesWhatWasShown, OneSwapAtATime and          *)
(* ReportedOnce.                                                           *)
(*                                                                         *)
(* Shown: the calldata on the page is that of the way and the debounced    *)
(* amount, and the click under way satisfies already what is claimed of    *)
(* the swaps sent.  Watched: a swap that waits, unless its hash is hidden, *)
(* is the batch or the active hash, so that the button sees it.  Reported: *)
(* the active swap, if it succeeded, is the one toasted; a render can only *)
(* announce it again after another was toasted, which is a later batch.    *)
(***************************************************************************)

Typed == Amount \cup {0}
AnswerSeen == {"none", "rate", "amount"}
Statuses == {"success", "confirming", "pending", "error", "idle"}
Panel == [mode : {"info", "pending", "completed", "failed"}, tx : 0..MaxSends]
Deal == [broker : BOOLEAN, batch : BOOLEAN, way : Way, amount : Amount, min : Typed,
         shown : [way : Way, typed : Amount, answer : AnswerSeen, rest : BOOLEAN]]
Sent == [swap : Deal, seen : {"waiting", "ok", "failed", "unlisted"}]
Clicked == [on : {TRUE}, approvals : 0..2, asked : BOOLEAN, swap : Deal]

FormTypes ==
  /\ way \in Way /\ typed \in Typed /\ debounced \in Typed
  /\ answer \in AnswerSeen /\ path \in Way \cup {NoWay}
  /\ calldata = NoData \/ calldata \in [way : Way, amount : Amount]

ButtonTypes ==
  /\ batching \in BOOLEAN /\ left \in [edits : Nat, sends : Nat, batching : BOOLEAN]
  /\ click = Idle \/ click \in Clicked
  /\ sent \in Seq(Sent)
  /\ raw \in 0..Len(sent) /\ hash \in 0..Len(sent) /\ batch \in 0..Len(sent)
  /\ left.sends + Len(sent) + (IF click.on THEN 1 ELSE 0) <= MaxSends

ShownTypes ==
  /\ panel \in Panel /\ toasted \in 0..Len(sent)
  /\ resets \in Nat /\ notified \in [Swap -> Nat]

\* What TradesWhatWasShown claims of a swap.
AsShown(s) ==
  /\ s.broker => s.way = s.shown.way /\ s.min = s.amount
  /\ ~s.broker => s.amount = s.shown.typed
  /\ s.shown.rest =>
       /\ s.way = s.shown.way /\ s.amount = s.shown.typed
       /\ s.shown.answer # "none" => s.min = s.amount

Shown ==
  /\ calldata # NoData => calldata.way = way /\ calldata.amount = debounced
  /\ click.on => AsShown(click.swap)
  /\ \A n \in DOMAIN sent : AsShown(sent[n].swap)

Watched ==
  /\ raw # 0 => sent[raw].swap.broker /\ ~sent[raw].swap.batch
  /\ hash # 0 => ~sent[hash].swap.batch
  /\ batch # 0 =>
       batch = Len(sent) /\ sent[batch].swap.batch /\ sent[batch].seen = "waiting" /\ ~click.on
  /\ \A n \in DOMAIN sent :
       sent[n].seen = "waiting" /\ ~Unwatched(n) =>
         n = Len(sent) /\ ~click.on /\ n \in {batch, activeSwapHash}

Succeeded(n) == n \in DOMAIN sent /\ sent[n].seen = "ok"
BatchAfter(n) == \E m \in DOMAIN sent : m > n /\ sent[m].swap.batch

Reported ==
  /\ toasted # 0 => Succeeded(toasted)
  /\ isSwapSuccess => toasted = activeSwapHash
  /\ \A n \in Swap :
       IF Succeeded(n) THEN notified[n] >= 1 /\ (notified[n] > 1 => BatchAfter(n))
       ELSE notified[n] = 0
  /\ panel.mode = "completed" => Succeeded(panel.tx)

ScreenInv == FormTypes /\ ButtonTypes /\ ShownTypes /\ Shown /\ Watched /\ Reported

-----------------------------------------------------------------------------
(* The render.                                                             *)

\* The status is one the card knows, and "success" is that of the active hash.
LEMMA StatusIn ==
  /\ status' \in Statuses
  /\ status' = "success" => isSwapSuccess'
BY DEF status, Statuses

\* What the card shows after a status: completed only by a success.
LEMMA ToldIn ==
  ASSUME NEW view \in Panel, NEW s \in Statuses, NEW tx \in 0..MaxSends
  PROVE  /\ Told(view, s, tx) \in Panel
         /\ Told(view, s, tx).mode = "completed" =>
              \/ s = "idle" /\ Told(view, s, tx) = view
              \/ s = "success" /\ (tx # 0 => Told(view, s, tx).tx = tx)
<1>1. CASE s = "idle"
  BY <1>1 DEF Told
<1>2. CASE s # "idle"
  <2>1. /\ Mode[s] \in {"pending", "completed", "failed"}
        /\ Mode[s] = "completed" => s = "success"
    BY <1>2 DEF Mode, Statuses
  <2>2. Told(view, s, tx) = [mode |-> Mode[s], tx |-> IF tx = 0 THEN view.tx ELSE tx]
    BY <1>2 DEF Told
  <2>3. view.tx \in 0..MaxSends
    BY DEF Panel
  <2> QED
    BY <2>1, <2>2, <2>3 DEF Panel
<1> QED
  BY <1>1, <1>2

\* A swap that is known to have succeeded after the step.
SucceededNext(n) == n \in DOMAIN sent' /\ sent'[n].seen = "ok"

\* What a render makes of a panel and a memory that were right.
LEMMA RenderedRight ==
  ASSUME NEW view \in Panel, NEW announced \in 0..MaxSends, NEW timers \in Nat,
         Rendered(view, announced, timers),
         activeSwapHash' \in 0..MaxSends, toasted \in 0..MaxSends,
         view.mode = "completed" => SucceededNext(view.tx),
         announced # 0 => SucceededNext(announced),
         toasted # 0 => SucceededNext(toasted),
         isSwapSuccess' => activeSwapHash' # 0 /\ SucceededNext(activeSwapHash')
  PROVE  /\ panel' \in Panel
         /\ panel'.mode = "completed" => SucceededNext(panel'.tx)
         /\ toasted' \in {announced, toasted, activeSwapHash'}
         /\ toasted' # 0 => SucceededNext(toasted')
         /\ isSwapSuccess' => toasted' = activeSwapHash'
<1> DEFINE after == CASE announced # 0 -> Told(view, "success", announced)
                      [] announced = 0 /\ batch # 0 /\ batch' # 0 -> Told(view, "pending", 0)
                      [] OTHER -> view
           tx == IF status' \in {"success", "confirming"} THEN activeSwapHash' ELSE 0
<1>1. after \in Panel /\ (after.mode = "completed" => SucceededNext(after.tx))
  <2>1. "success" \in Statuses /\ "pending" \in Statuses /\ 0 \in 0..MaxSends
    BY ScreenAssumption DEF Statuses
  <2>2. CASE announced # 0
    BY <2>1, <2>2, ToldIn
  <2>3. CASE announced = 0 /\ batch # 0 /\ batch' # 0
    BY <2>1, <2>3, ToldIn
  <2>4. CASE announced = 0 /\ ~(batch # 0 /\ batch' # 0)
    BY <2>4
  <2> QED
    BY <2>2, <2>3, <2>4
<1>2. panel' = IF statusDeps' = statusDeps THEN after ELSE Told(after, status', tx)
  BY DEF Rendered
<1>3. /\ panel' \in Panel
      /\ panel'.mode = "completed" => SucceededNext(panel'.tx)
  <2>1. tx \in 0..MaxSends
    BY ScreenAssumption
  <2>2. /\ Told(after, status', tx) \in Panel
        /\ Told(after, status', tx).mode = "completed" =>
             \/ status' = "idle" /\ Told(after, status', tx) = after
             \/ status' = "success" /\ (tx # 0 => Told(after, status', tx).tx = tx)
    <3> HIDE DEF after, tx
    <3> QED
      BY <1>1, <2>1, StatusIn, ToldIn
  <2>3. status' = "success" => tx = activeSwapHash' /\ tx # 0 /\ SucceededNext(tx)
    BY StatusIn
  <2> HIDE DEF after, tx
  <2> QED
    BY <1>1, <1>2, <2>2, <2>3
<1>4. LET last == IF announced # 0 THEN announced ELSE toasted
      IN toasted' = IF isSwapSuccess' /\ activeSwapHash' # last THEN activeSwapHash' ELSE last
  BY DEF Rendered, Toasts
<1> QED
  BY <1>3, <1>4

\* The counters a render raises.
LEMMA RenderedCounts ==
  ASSUME NEW view, NEW announced \in 0..MaxSends, NEW timers \in Nat,
         Rendered(view, announced, timers), notified \in [Swap -> Nat],
         NEW last, last = IF announced # 0 THEN announced ELSE toasted
  PROVE  /\ resets' \in Nat /\ notified' \in [Swap -> Nat]
         /\ \A n \in Swap :
              notified'[n] = IF n = announced
                                  \/ (isSwapSuccess' /\ activeSwapHash' # last /\ n = activeSwapHash')
                             THEN notified[n] + 1 ELSE notified[n]
<1> DEFINE swaps == {n \in Swap : n = announced \/ (Toasts(last) /\ n = activeSwapHash')}
<1>1. /\ notified' = [n \in Swap |-> IF n \in swaps THEN notified[n] + 1 ELSE notified[n]]
      /\ resets' = timers + Cardinality(swaps)
  BY DEF Rendered
<1>2. Cardinality(swaps) \in Nat
  <2>1. IsFiniteSet(Swap)
    BY FS_Interval, ScreenAssumption DEF Swap
  <2>2. IsFiniteSet(swaps)
    BY <2>1, FS_Subset
  <2> QED
    BY <2>2, FS_CardinalityType
<1>3. \A n \in Swap : n \in swaps <=>
        n = announced \/ (isSwapSuccess' /\ activeSwapHash' # last /\ n = activeSwapHash')
  BY DEF Toasts
<1> HIDE DEF swaps
<1> QED
  BY <1>1, <1>2, <1>3

-----------------------------------------------------------------------------
(* Steps that settle nothing.                                              *)

LEMMA LenOfSent ==
  ASSUME ButtonTypes
  PROVE  Len(sent) \in 0..MaxSends /\ DOMAIN sent = 1..Len(sent)
<1>1. Len(sent) \in Nat /\ DOMAIN sent = 1..Len(sent)
  BY DEF ButtonTypes
<1> QED
  BY <1>1, ScreenAssumption DEF ButtonTypes

\* A render after a step that lets no swap succeed announces nothing.
LEMMA Quiet ==
  ASSUME ScreenInv, ButtonTypes', NEW view \in Panel, NEW timers \in Nat, Rendered(view, 0, timers),
         view.mode = "completed" => Succeeded(view.tx),
         \A n \in Swap : Succeeded(n) <=> SucceededNext(n),
         \A n \in DOMAIN sent : n \in DOMAIN sent' /\ sent'[n].swap = sent[n].swap,
         isSwapSuccess' => isSwapSuccess /\ activeSwapHash' = activeSwapHash
  PROVE  ShownTypes' /\ Reported'
<1>1. /\ Len(sent) \in 0..MaxSends /\ DOMAIN sent = 1..Len(sent)
      /\ Len(sent') \in 0..MaxSends /\ DOMAIN sent' = 1..Len(sent')
  <2>1. Len(sent') \in Nat /\ DOMAIN sent' = 1..Len(sent')
    BY DEF ButtonTypes
  <2>2. Len(sent') \in 0..MaxSends
    BY <2>1, ScreenAssumption DEF ButtonTypes
  <2> QED
    BY <2>1, <2>2, LenOfSent DEF ScreenInv
<1>2. /\ activeSwapHash \in 0..Len(sent)
      /\ activeSwapHash' \in 0..Len(sent') /\ activeSwapHash' \in 0..MaxSends
  BY <1>1, ScreenAssumption DEF ScreenInv, ButtonTypes, activeSwapHash
<1>3. DOMAIN sent \subseteq Swap /\ DOMAIN sent' \subseteq Swap
  BY <1>1, ScreenAssumption DEF Swap
<1>4. \A n : Succeeded(n) <=> SucceededNext(n)
  BY <1>3 DEF Succeeded, SucceededNext
<1>5. isSwapSuccess => activeSwapHash # 0 /\ Succeeded(activeSwapHash)
  BY <1>1, <1>2 DEF isSwapSuccess, Receipt, Succeeded
<1>6. toasted \in 0..MaxSends /\ (toasted # 0 => SucceededNext(toasted))
  BY <1>1, <1>4, ScreenAssumption DEF ScreenInv, ShownTypes, Reported
<1>7. 0 \in 0..MaxSends
  BY ScreenAssumption
<1>8. /\ panel' \in Panel
      /\ panel'.mode = "completed" => SucceededNext(panel'.tx)
      /\ toasted' \in {0, toasted, activeSwapHash'}
      /\ toasted' # 0 => SucceededNext(toasted')
      /\ isSwapSuccess' => toasted' = activeSwapHash'
  BY <1>2, <1>4, <1>5, <1>6, <1>7, RenderedRight
<1>9. resets' \in Nat /\ notified' = notified
  <2>1. isSwapSuccess' => activeSwapHash' = toasted
    BY DEF ScreenInv, Reported
  <2>2. /\ resets' \in Nat /\ notified' \in [Swap -> Nat]
        /\ \A n \in Swap :
             notified'[n] = IF n = 0
                                 \/ (isSwapSuccess' /\ activeSwapHash' # toasted /\ n = activeSwapHash')
                            THEN notified[n] + 1 ELSE notified[n]
    BY <1>7, RenderedCounts DEF ScreenInv, ShownTypes
  <2>3. \A n \in Swap : notified'[n] = notified[n]
    BY <2>1, <2>2 DEF Swap
  <2> QED
    BY <2>2, <2>3 DEF ScreenInv, ShownTypes
<1>10. ShownTypes'
  BY <1>1, <1>2, <1>6, <1>8, <1>9 DEF ScreenInv, ShownTypes, SucceededNext
<1>11. \A n : BatchAfter(n) => \E m \in DOMAIN sent' : m > n /\ sent'[m].swap.batch
  BY DEF BatchAfter
<1>12. Reported'
  BY <1>4, <1>8, <1>9, <1>11 DEF ScreenInv, Reported, Succeeded, SucceededNext, BatchAfter
<1> QED
  BY <1>10, <1>12

\* Steps that leave the hashes and the swaps as they are.
LEMMA SameHashes ==
  ASSUME ScreenInv, UNCHANGED <<raw, hash, sent>>, ButtonTypes',
         NEW view \in Panel, NEW timers \in Nat, Rendered(view, 0, timers),
         view.mode = "completed" => Succeeded(view.tx)
  PROVE  ShownTypes' /\ Reported' /\ activeSwapHash' = activeSwapHash
<1>1. activeSwapHash' = activeSwapHash /\ isSwapSuccess' = isSwapSuccess
  BY DEF activeSwapHash, isSwapSuccess, Receipt
<1>2. \A n : Succeeded(n) <=> SucceededNext(n)
  BY DEF Succeeded, SucceededNext
<1>3. ShownTypes' /\ Reported'
  BY <1>1, <1>2, Quiet
<1> QED
  BY <1>1, <1>3

\* Of these, the steps outside a call of handleSwap.
LEMMA SameButton ==
  ASSUME ScreenInv, UNCHANGED <<click, raw, hash, batch, sent>>, ButtonTypes',
         NEW view \in Panel, NEW timers \in Nat, Rendered(view, 0, timers),
         view.mode = "completed" => Succeeded(view.tx)
  PROVE  ShownTypes' /\ Reported' /\ Watched'
<1>1. ShownTypes' /\ Reported' /\ activeSwapHash' = activeSwapHash
  BY SameHashes
<1>2. Watched'
  BY <1>1 DEF ScreenInv, Watched, Unwatched
<1> QED
  BY <1>1, <1>2

LEMMA InfoIn == ASSUME ScreenInv PROVE Info \in Panel /\ Info.mode # "completed"
BY DEF ScreenInv, ShownTypes, Panel, Info

LEMMA PanelIn == ASSUME ScreenInv
                 PROVE  panel \in Panel /\ (panel.mode = "completed" => Succeeded(panel.tx)) /\ resets \in Nat
BY DEF ScreenInv, ShownTypes, Reported

LEMMA FormKeeps == ASSUME ScreenInv, Form PROVE ScreenInv'
<1>1. UNCHANGED button /\ left' \in [edits : Nat, sends : Nat, batching : BOOLEAN]
        /\ left'.sends = left.sends
  <2>1. left \in [edits : Nat, sends : Nat, batching : BOOLEAN]
    BY DEF ScreenInv, ButtonTypes
  <2>2. ASSUME left.edits > 0, left' = [left EXCEPT !.edits = @ - 1]
        PROVE  left' \in [edits : Nat, sends : Nat, batching : BOOLEAN] /\ left'.sends = left.sends
    BY <2>1, <2>2
  <2> QED
    BY <2>1, <2>2 DEF Form, Enter, Select, Debounce, ClearForm, Answered, Back
<1>2. ButtonTypes'
  BY <1>1 DEF ScreenInv, ButtonTypes, button
<1>3. ShownTypes' /\ Reported' /\ Watched'
  <2>1. \E view \in Panel, timers \in Nat :
          Rendered(view, 0, timers) /\ (view.mode = "completed" => Succeeded(view.tx))
    <3>1. CASE ClearForm
      <4>1. resets - 1 \in Nat
        BY <3>1, PanelIn DEF ClearForm
      <4> QED
        BY <3>1, <4>1, PanelIn DEF ClearForm
    <3>2. CASE Enter \/ Back
      BY <3>2, PanelIn, InfoIn DEF Enter, Back
    <3>3. CASE Select \/ Debounce \/ Answered
      BY <3>3, PanelIn DEF Select, Debounce, Answered
    <3> QED
      BY <3>1, <3>2, <3>3 DEF Form
  <2> QED
    BY <1>1, <1>2, <2>1, SameButton DEF button
<1>4. FormTypes' /\ Shown'
  <2> USE DEF ScreenInv, FormTypes, Shown
  <2>1. \A s : AsShown(s)' <=> AsShown(s)
    BY DEF AsShown
  <2>2. click' = click /\ sent' = sent
    BY <1>1 DEF button
  <2>3. CASE Enter \/ Back \/ ClearForm
    BY <2>2, <2>3, <2>1 DEF Enter, Back, ClearForm, queries, form, Typed
  <2>4. CASE Select \/ Debounce
    BY <2>2, <2>4, <2>1 DEF Select, Debounce, Typed, AnswerSeen
  <2>5. CASE Answered
    <3>1. debounced \in Amount /\ UNCHANGED <<way, typed, debounced>>
      BY <2>5 DEF Answered, Typed, form
    <3>2. CASE RouteAnswered
      BY <2>2, <3>1, <3>2 DEF RouteAnswered, AnswerSeen
    <3>3. CASE CalldataAnswered
      <4>1. CASE calldata' = [way |-> way, amount |-> debounced]
        BY <2>2, <3>1, <3>3, <4>1 DEF CalldataAnswered
      <4>2. CASE calldata' = NoData
        BY <2>2, <3>1, <3>3, <4>2 DEF CalldataAnswered
      <4> QED
        BY <3>3, <4>1, <4>2 DEF CalldataAnswered
    <3>4. CASE PathAnswered
      BY <2>2, <3>1, <3>4 DEF PathAnswered
    <3> QED
      BY <2>5, <3>2, <3>3, <3>4 DEF Answered
  <2> QED
    BY <2>3, <2>4, <2>5 DEF Form
<1> QED
  BY <1>2, <1>3, <1>4 DEF ScreenInv

-----------------------------------------------------------------------------
(* The call of handleSwap.                                                 *)

\* A step that leaves the form and its queries as they are.
LEMMA SameForm ==
  ASSUME ScreenInv, UNCHANGED <<form, queries>>
  PROVE  /\ FormTypes'
         /\ (calldata # NoData => calldata.way = way /\ calldata.amount = debounced)'
BY DEF ScreenInv, FormTypes, Shown, form, queries

LEMMA CapabilitiesKeeps == ASSUME ScreenInv, Capabilities PROVE ScreenInv'
<1>1. UNCHANGED <<click, raw, hash, batch, sent, left>> /\ batching' = TRUE /\ Rendered(panel, 0, resets)
  BY DEF Capabilities
<1>2. ButtonTypes'
  BY <1>1 DEF ScreenInv, ButtonTypes
<1>3. ShownTypes' /\ Reported' /\ Watched'
  BY <1>1, <1>2, PanelIn, SameButton
<1>4. FormTypes' /\ Shown'
  BY <1>1, SameForm DEF Capabilities, ScreenInv, Shown, AsShown
<1> QED
  BY <1>2, <1>3, <1>4 DEF ScreenInv

\* What a click may send is what is shown.
LEMMA SwapsShown ==
  ASSUME ScreenInv, typed # 0, NEW s \in Swaps
  PROVE  s \in Deal /\ AsShown(s)
<1> DEFINE read == [way |-> way, typed |-> typed, answer |-> answer,
                    rest |-> debounced = typed /\ path \in {way, NoWay}]
<1>1. /\ way \in Way /\ typed \in Amount /\ debounced \in Typed /\ answer \in AnswerSeen
      /\ path \in Way \cup {NoWay} /\ batching \in BOOLEAN
  BY DEF ScreenInv, FormTypes, ButtonTypes, Typed
<1>2. read \in [way : Way, typed : Amount, answer : AnswerSeen, rest : BOOLEAN]
  BY <1>1
<1>3. CASE calldata # NoData
  <2>1. /\ calldata.way = way /\ calldata.amount = debounced
        /\ calldata \in [way : Way, amount : Amount]
    BY <1>3 DEF ScreenInv, Shown, FormTypes
  <2>2. s = [broker |-> TRUE, batch |-> batching, way |-> calldata.way,
             amount |-> calldata.amount, min |-> calldata.amount, shown |-> read]
    BY <1>3 DEF Swaps
  <2>3. calldata.way \in Way /\ calldata.amount \in Amount /\ calldata.amount \in Typed
    BY <2>1 DEF Typed
  <2>4. s \in Deal
    <3> HIDE DEF read
    <3> QED
      BY <1>1, <1>2, <2>2, <2>3 DEF Deal
  <2>5. AsShown(s)
    BY <2>1, <2>2 DEF AsShown
  <2> QED
    BY <2>4, <2>5
<1>4. CASE calldata = NoData
  <2>1. PICK w \in {way, path} \ {NoWay} :
          s = [broker |-> FALSE, batch |-> batching, way |-> w, amount |-> typed,
               min |-> minimumOf, shown |-> read]
    BY <1>4 DEF Swaps
  <2>2. w \in Way
    BY <1>1, <2>1
  <2>3. minimumOf \in Typed
    BY <1>1 DEF minimumOf, Typed
  <2>4. s \in Deal
    <3> HIDE DEF read
    <3> QED
      BY <1>1, <1>2, <2>1, <2>2, <2>3 DEF Deal
  <2>5. answer # "none" /\ debounced = typed => minimumOf = typed
    BY <1>1 DEF minimumOf, AnswerSeen
  <2>6. AsShown(s)
    BY <2>1, <2>5 DEF AsShown
  <2> QED
    BY <2>4, <2>6
<1> QED
  BY <1>3, <1>4

LEMMA ClickKeeps == ASSUME ScreenInv, Click PROVE ScreenInv'
<1>1. PICK s \in Swaps, k \in 0..2 :
        click' = [on |-> TRUE, approvals |-> IF s.batch THEN 0 ELSE k, asked |-> s.batch, swap |-> s]
  BY DEF Click
<1>2. /\ typed # 0 /\ ~isBusy /\ left.sends > 0 /\ left' = [left EXCEPT !.sends = @ - 1]
      /\ UNCHANGED <<form, queries, batching, raw, hash, batch, sent>>
      /\ Rendered(panel, 0, resets)
  BY DEF Click
<1>3. s \in Deal /\ AsShown(s)
  BY <1>2, SwapsShown
<1>4. click' \in Clicked /\ click'.on /\ click'.swap = s /\ ~click.on
  <2>1. s.batch \in BOOLEAN
    BY <1>3 DEF Deal
  <2> QED
    BY <1>1, <1>2, <1>3, <2>1 DEF Clicked, isBusy
<1>5. ButtonTypes'
  <2>1. left' \in [edits : Nat, sends : Nat, batching : BOOLEAN] /\ left'.sends = left.sends - 1
    BY <1>2 DEF ScreenInv, ButtonTypes
  <2>2. left'.sends + Len(sent') + 1 <= MaxSends
    BY <1>2, <1>4, <2>1, LenOfSent, ScreenAssumption DEF ScreenInv, ButtonTypes
  <2> QED
    BY <1>2, <1>4, <2>1, <2>2 DEF ScreenInv, ButtonTypes
<1>6. ShownTypes' /\ Reported' /\ activeSwapHash' = activeSwapHash
  BY <1>2, <1>5, PanelIn, SameHashes
<1>7. Watched'
  <2>1. batch = 0 /\ \A n \in DOMAIN sent : n = activeSwapHash => sent[n].seen # "waiting"
    <3>1. \A n \in DOMAIN sent : n # 0
      BY LenOfSent DEF ScreenInv
    <3> QED
      BY <1>2, <3>1 DEF isBusy, Receipt
  <2>2. 0 \notin DOMAIN sent
    BY LenOfSent DEF ScreenInv
  <2>3. \A n \in DOMAIN sent : sent[n].seen = "waiting" => Unwatched(n)
    BY <2>1, <2>2 DEF ScreenInv, Watched
  <2>4. \A n \in DOMAIN sent : Unwatched(n)' <=> Unwatched(n)
    BY <1>2 DEF Unwatched
  <2> QED
    BY <1>2, <2>1, <2>3, <2>4 DEF ScreenInv, Watched
<1>8. FormTypes' /\ Shown'
  BY <1>2, <1>3, <1>4, SameForm DEF ScreenInv, Shown, AsShown
<1> QED
  BY <1>5, <1>6, <1>7, <1>8 DEF ScreenInv

\* While handleSwap runs no swap is waiting, but for one whose hash is hidden.
LEMMA WhileClicked ==
  ASSUME ScreenInv, click.on
  PROVE  /\ click \in Clicked /\ click.swap \in Deal /\ AsShown(click.swap) /\ batch = 0
         /\ \A n \in DOMAIN sent : sent[n].seen = "waiting" => Unwatched(n)
<1>1. click \in Clicked
  BY DEF ScreenInv, ButtonTypes, Idle
<1>2. click.swap \in Deal
  BY <1>1 DEF Clicked
<1> QED
  BY <1>1, <1>2 DEF ScreenInv, Shown, Watched

LEMMA ApproveKeeps == ASSUME ScreenInv, Approve PROVE ScreenInv'
<1>1. /\ click.on /\ click.approvals > 0 /\ click' = [click EXCEPT !.approvals = @ - 1]
      /\ UNCHANGED <<form, queries, left, batching, raw, hash, batch, sent>>
      /\ Rendered(panel, 0, resets)
  BY DEF Approve
<1>2. click' \in Clicked /\ click'.on /\ click'.swap = click.swap
  <2>1. click \in Clicked
    BY <1>1, WhileClicked
  <2>2. click.approvals - 1 \in 0..2
    BY <1>1, <2>1 DEF Clicked
  <2> QED
    BY <1>1, <2>1, <2>2 DEF Clicked
<1>3. ButtonTypes'
  BY <1>1, <1>2 DEF ScreenInv, ButtonTypes
<1>4. ShownTypes' /\ Reported' /\ activeSwapHash' = activeSwapHash
  BY <1>1, <1>3, PanelIn, SameHashes
<1>5. Watched'
  BY <1>1, <1>2, <1>4 DEF ScreenInv, Watched, Unwatched
<1>6. FormTypes' /\ Shown'
  BY <1>1, <1>2, SameForm DEF ScreenInv, Shown, AsShown
<1> QED
  BY <1>3, <1>4, <1>5, <1>6 DEF ScreenInv

LEMMA RefuseKeeps == ASSUME ScreenInv, Refuse PROVE ScreenInv'
<1>1. /\ click.on /\ click' = Idle /\ ~click'.on
      /\ UNCHANGED <<form, queries, left, batching, raw, hash, batch, sent>>
      /\ Rendered(panel, 0, resets)
  BY DEF Refuse, Idle
<1>2. ButtonTypes'
  BY <1>1, LenOfSent, ScreenAssumption DEF ScreenInv, ButtonTypes
<1>3. ShownTypes' /\ Reported' /\ activeSwapHash' = activeSwapHash
  BY <1>1, <1>2, PanelIn, SameHashes
<1>4. Watched'
  BY <1>1, <1>3 DEF ScreenInv, Watched, Unwatched
<1>5. FormTypes' /\ Shown'
  BY <1>1, SameForm DEF ScreenInv, Shown, AsShown
<1> QED
  BY <1>2, <1>3, <1>4, <1>5 DEF ScreenInv

LEMMA AskKeeps == ASSUME ScreenInv, Ask PROVE ScreenInv'
<1>1. /\ click.on /\ click' = [click EXCEPT !.asked = TRUE] /\ hash' \in {0, hash}
      /\ UNCHANGED <<form, queries, left, batching, raw, batch, sent>>
      /\ Rendered(panel, 0, resets)
  BY DEF Ask
<1>2. click' \in Clicked /\ click'.on /\ click'.swap = click.swap
  BY <1>1, WhileClicked DEF Clicked
<1>3. ButtonTypes'
  BY <1>1, <1>2, LenOfSent DEF ScreenInv, ButtonTypes
<1>4. isSwapSuccess' => isSwapSuccess /\ activeSwapHash' = activeSwapHash
  BY <1>1 DEF isSwapSuccess, Receipt, activeSwapHash
<1>5. ShownTypes' /\ Reported'
  <2>1. \A n : Succeeded(n) <=> SucceededNext(n)
    BY <1>1 DEF Succeeded, SucceededNext
  <2> QED
    BY <1>1, <1>3, <1>4, <2>1, PanelIn, Quiet
<1>6. Watched'
  <2>1. \A n \in DOMAIN sent : Unwatched(n)' <=> Unwatched(n)
    BY <1>1 DEF Unwatched
  <2> QED
    BY <1>1, <1>2, <2>1, WhileClicked DEF ScreenInv, Watched
<1>7. FormTypes' /\ Shown'
  BY <1>1, <1>2, SameForm DEF ScreenInv, Shown, AsShown
<1> QED
  BY <1>3, <1>5, <1>6, <1>7 DEF ScreenInv

LEMMA SendKeeps == ASSUME ScreenInv, Send PROVE ScreenInv'
<1>0. PICK n : n = Len(sent) + 1
  OBVIOUS
<1>1. /\ click.on /\ click' = Idle /\ ~click'.on
      /\ sent' = Append(sent, [swap |-> click.swap, seen |-> "waiting"])
      /\ UNCHANGED <<form, queries, left, batching>> /\ Rendered(panel, 0, resets)
  BY DEF Send, Idle
<1>2. \/ click.swap.batch /\ batch' = n /\ UNCHANGED <<raw, hash>>
      \/ ~click.swap.batch /\ click.swap.broker /\ raw' = n /\ UNCHANGED <<batch, hash>>
      \/ ~click.swap.batch /\ ~click.swap.broker /\ hash' = n /\ UNCHANGED <<batch, raw>>
  BY <1>0 DEF Send
<1>3. Len(sent) \in Nat /\ n \in Nat /\ Len(sent) < n /\ DOMAIN sent = 1..Len(sent)
  BY <1>0, LenOfSent DEF ScreenInv
<1>4. /\ sent' \in Seq(Sent) /\ Len(sent') = n /\ DOMAIN sent' = 1..n
      /\ sent'[n] = [swap |-> click.swap, seen |-> "waiting"]
      /\ \A k \in DOMAIN sent : k \in DOMAIN sent' /\ sent'[k] = sent[k]
  <2>1. [swap |-> click.swap, seen |-> "waiting"] \in Sent /\ sent \in Seq(Sent)
    BY <1>1, WhileClicked DEF Sent, ScreenInv, ButtonTypes
  <2> QED
    BY <1>0, <1>1, <1>3, <2>1
<1>5. raw \in 0..Len(sent) /\ hash \in 0..Len(sent) /\ batch = 0
  BY <1>1, WhileClicked DEF ScreenInv, ButtonTypes
<1>6. ButtonTypes'
  <2>1. left'.sends + Len(sent') + 0 <= MaxSends
    BY <1>0, <1>1, <1>3, <1>4, ScreenAssumption DEF ScreenInv, ButtonTypes
  <2> QED
    BY <1>1, <1>2, <1>3, <1>4, <1>5, <2>1 DEF ScreenInv, ButtonTypes
<1>7. ShownTypes' /\ Reported'
  <2>1. \A k : Succeeded(k) <=> SucceededNext(k)
    <3>1. \A k : k \in DOMAIN sent' <=> k = n \/ k \in DOMAIN sent
      BY <1>0, <1>3, <1>4
    <3>2. sent'[n].seen # "ok" /\ n \notin DOMAIN sent
      BY <1>0, <1>3, <1>4
    <3> QED
      BY <1>4, <3>1, <3>2 DEF Succeeded, SucceededNext
  <2>2. isSwapSuccess' => isSwapSuccess /\ activeSwapHash' = activeSwapHash
    <3>1. activeSwapHash' \in {n, activeSwapHash}
      BY <1>2, <1>3, <1>5 DEF activeSwapHash
    <3>2. activeSwapHash \in 0..Len(sent)
      BY <1>5 DEF activeSwapHash
    <3> QED
      BY <1>3, <1>4, <3>1, <3>2 DEF isSwapSuccess, Receipt
  <2> QED
    BY <1>1, <1>4, <1>6, <2>1, <2>2, PanelIn, Quiet
<1>8. Watched'
  <2>1. \A k \in DOMAIN sent : Unwatched(k) => Unwatched(k)'
    <3> SUFFICES ASSUME NEW k \in DOMAIN sent, Unwatched(k) PROVE Unwatched(k)'
      OBVIOUS
    <3>1. PICK m \in 1..(k - 1) : sent[m].swap.broker /\ ~sent[m].swap.batch
      BY DEF Unwatched
    <3>2. m \in DOMAIN sent
      BY <1>3
    <3> QED
      BY <1>4, <3>1, <3>2 DEF Unwatched
  <2>2. \A k \in DOMAIN sent : sent[k].seen = "waiting" => Unwatched(k)'
    BY <1>1, <2>1, WhileClicked
  <2>3. /\ raw' # 0 => sent'[raw'].swap.broker /\ ~sent'[raw'].swap.batch
        /\ hash' # 0 => ~sent'[hash'].swap.batch
        /\ batch' # 0 => batch' = n /\ sent'[n].swap.batch
    BY <1>2, <1>3, <1>4, <1>5 DEF ScreenInv, Watched
  <2>4. sent'[n].seen = "waiting" /\ (~Unwatched(n)' => n \in {batch', activeSwapHash'})
    <3>1. CASE ~click.swap.batch /\ ~click.swap.broker /\ raw # 0
      <4>1. raw \in 1..(n - 1) /\ sent'[raw].swap.broker /\ ~sent'[raw].swap.batch
        BY <1>0, <1>3, <1>4, <1>5, <3>1 DEF ScreenInv, Watched
      <4>2. Unwatched(n)'
        BY <1>4, <3>1, <4>1 DEF Unwatched
      <4> QED
        BY <1>4, <4>2
    <3>2. CASE ~(~click.swap.batch /\ ~click.swap.broker /\ raw # 0)
      BY <1>2, <1>3, <1>4, <3>2 DEF activeSwapHash
    <3> QED
      BY <3>1, <3>2
  <2>5. \A k \in DOMAIN sent' : k = n \/ (k \in DOMAIN sent /\ sent'[k] = sent[k])
    BY <1>0, <1>3, <1>4
  <2>6. \A k \in DOMAIN sent' :
          sent'[k].seen = "waiting" /\ ~Unwatched(k)' =>
            k = n /\ k \in {batch', activeSwapHash'}
    BY <2>2, <2>4, <2>5
  <2> QED
    BY <1>1, <1>4, <2>3, <2>4, <2>6 DEF Watched
<1>9. FormTypes' /\ Shown'
  <2>1. \A k \in DOMAIN sent' : AsShown(sent'[k].swap)
    <3> SUFFICES ASSUME NEW k \in DOMAIN sent' PROVE AsShown(sent'[k].swap)
      OBVIOUS
    <3>1. CASE k = n
      BY <1>1, <1>4, <3>1, WhileClicked
    <3>2. CASE k \in DOMAIN sent
      BY <1>4, <3>2 DEF ScreenInv, Shown
    <3> QED
      BY <1>0, <1>3, <1>4, <3>1, <3>2
  <2>2. \A k \in DOMAIN sent' : AsShown(sent[k].swap)'
    BY <2>1 DEF AsShown
  <2> QED
    BY <1>1, <2>2, SameForm DEF Shown
<1> QED
  BY <1>6, <1>7, <1>8, <1>9 DEF ScreenInv

-----------------------------------------------------------------------------
(* What the chain says.                                                    *)

\* Only what is known of swap k changes.
LEMMA SeenOnly ==
  ASSUME ScreenInv, NEW k \in DOMAIN sent, NEW seen \in {"ok", "failed", "unlisted"},
         sent' = [sent EXCEPT ![k].seen = seen]
  PROVE  /\ sent' \in Seq(Sent) /\ Len(sent') = Len(sent) /\ DOMAIN sent' = DOMAIN sent
         /\ sent'[k].seen = seen
         /\ \A n \in DOMAIN sent : sent'[n].swap = sent[n].swap
         /\ \A n \in DOMAIN sent \ {k} : sent'[n] = sent[n]
         /\ \A n \in DOMAIN sent : Unwatched(n)' <=> Unwatched(n)
         /\ (\A n \in DOMAIN sent : AsShown(sent[n].swap))'
<1>1. sent \in Seq(Sent) /\ DOMAIN sent = 1..Len(sent) /\ Len(sent) \in Nat
  BY LenOfSent DEF ScreenInv, ButtonTypes
<1>2. sent[k] \in Sent
  BY <1>1
<1>3. [sent[k] EXCEPT !.seen = seen] \in Sent
  BY <1>2 DEF Sent
<1>4. sent' = [sent EXCEPT ![k] = [sent[k] EXCEPT !.seen = seen]]
  OBVIOUS
<1>5. sent' \in Seq(Sent) /\ Len(sent') = Len(sent) /\ DOMAIN sent' = DOMAIN sent
  BY <1>1, <1>3, <1>4
<1>6. /\ sent'[k].seen = seen
      /\ \A n \in DOMAIN sent : sent'[n].swap = sent[n].swap
      /\ \A n \in DOMAIN sent \ {k} : sent'[n] = sent[n]
  BY <1>1, <1>2, <1>4 DEF Sent
<1>7. \A n \in DOMAIN sent : Unwatched(n)' <=> Unwatched(n)
  <2>1. \A n \in DOMAIN sent : \A m \in 1..(n - 1) : m \in DOMAIN sent
    BY <1>1
  <2> QED
    BY <1>6, <2>1 DEF Unwatched
<1>8. (\A n \in DOMAIN sent : AsShown(sent[n].swap))'
  BY <1>5, <1>6 DEF ScreenInv, Shown, AsShown
<1> QED
  BY <1>5, <1>6, <1>7, <1>8

LEMMA SettleKeeps == ASSUME ScreenInv, Settle PROVE ScreenInv'
<1>0. PICK k : k = activeSwapHash
  OBVIOUS
<1>1. PICK seen \in {"ok", "failed"} : sent' = [sent EXCEPT ![k].seen = seen]
  BY <1>0 DEF Settle
<1>2. /\ k # 0 /\ sent[k].seen = "waiting"
      /\ UNCHANGED <<form, queries, left, batching, click, raw, hash, batch>>
      /\ Rendered(panel, 0, resets)
  BY <1>0 DEF Settle, Receipt
<1>3. k \in DOMAIN sent /\ DOMAIN sent = 1..Len(sent) /\ Len(sent) \in 0..MaxSends
  BY <1>0, <1>2, LenOfSent DEF ScreenInv, ButtonTypes, activeSwapHash
<1>4. /\ sent' \in Seq(Sent) /\ Len(sent') = Len(sent) /\ DOMAIN sent' = DOMAIN sent
      /\ sent'[k].seen = seen
      /\ \A n \in DOMAIN sent : sent'[n].swap = sent[n].swap
      /\ \A n \in DOMAIN sent \ {k} : sent'[n] = sent[n]
      /\ \A n \in DOMAIN sent : Unwatched(n)' <=> Unwatched(n)
      /\ (\A n \in DOMAIN sent : AsShown(sent[n].swap))'
  BY <1>1, <1>3, SeenOnly
<1>5. ButtonTypes'
  BY <1>2, <1>4 DEF ScreenInv, ButtonTypes
<1>6. activeSwapHash' = k /\ (isSwapSuccess' <=> seen = "ok")
  BY <1>0, <1>2, <1>4 DEF activeSwapHash, isSwapSuccess, Receipt
<1>7. k # batch
  BY <1>0, <1>2 DEF ScreenInv, Watched, activeSwapHash
<1>8. Watched'
  <2>1. sent'[k].seen # "waiting"
    BY <1>4
  <2>2. \A n \in DOMAIN sent : sent'[n].seen = "waiting" => n # k /\ sent'[n] = sent[n]
    BY <1>4, <2>1
  <2>3. batch # 0 => batch \in DOMAIN sent
    BY <1>3 DEF ScreenInv, Watched
  <2>4. (raw # 0 => raw \in DOMAIN sent) /\ (hash # 0 => hash \in DOMAIN sent)
    BY <1>3 DEF ScreenInv, ButtonTypes
  <2> QED
    BY <1>0, <1>2, <1>4, <1>6, <1>7, <2>2, <2>3, <2>4 DEF ScreenInv, Watched
<1>9. ShownTypes' /\ Reported'
  <2>1. \A n : SucceededNext(n) <=> Succeeded(n) \/ (n = k /\ seen = "ok")
    BY <1>2, <1>3, <1>4 DEF Succeeded, SucceededNext
  <2>2. toasted \in 0..MaxSends /\ k \in 0..MaxSends /\ k \in Swap /\ 0 \in 0..MaxSends
    BY <1>3, ScreenAssumption DEF ScreenInv, ShownTypes, Swap
  <2>3. /\ panel' \in Panel
        /\ panel'.mode = "completed" => SucceededNext(panel'.tx)
        /\ toasted' \in {0, toasted, k}
        /\ toasted' # 0 => SucceededNext(toasted')
        /\ isSwapSuccess' => toasted' = k
    <3>1. toasted # 0 => SucceededNext(toasted)
      BY <2>1 DEF ScreenInv, Reported
    <3> QED
      BY <1>2, <1>6, <2>1, <2>2, <3>1, PanelIn, RenderedRight
  <2>4. toasted # k
    BY <1>2 DEF ScreenInv, Reported, Succeeded
  <2>5. /\ resets' \in Nat /\ notified' \in [Swap -> Nat]
        /\ \A n \in Swap :
             notified'[n] = IF n = 0 \/ (isSwapSuccess' /\ k # toasted /\ n = k)
                            THEN notified[n] + 1 ELSE notified[n]
    BY <1>2, <1>6, <2>2, PanelIn, RenderedCounts DEF ScreenInv, ShownTypes
  <2>6. notified[k] = 0 /\ notified \in [Swap -> Nat]
    BY <1>2, <2>2 DEF ScreenInv, ShownTypes, Reported, Succeeded
  <2>7. \A n \in Swap :
          IF SucceededNext(n) THEN notified'[n] >= 1 /\ (notified'[n] > 1 => BatchAfter(n))
          ELSE notified'[n] = 0
    <3> SUFFICES ASSUME NEW n \in Swap
                 PROVE  IF SucceededNext(n)
                          THEN notified'[n] >= 1 /\ (notified'[n] > 1 => BatchAfter(n))
                        ELSE notified'[n] = 0
      OBVIOUS
    <3>1. CASE n = k /\ seen = "ok"
      BY <1>6, <2>1, <2>4, <2>5, <2>6, <3>1
    <3>2. CASE ~(n = k /\ seen = "ok")
      <4>1. notified'[n] = notified[n]
        BY <1>6, <2>5, <3>2 DEF Swap
      <4> QED
        BY <2>1, <3>2, <4>1 DEF ScreenInv, Reported
    <3> QED
      BY <3>1, <3>2
  <2>8. \A n : BatchAfter(n)' <=> BatchAfter(n)
    BY <1>4 DEF BatchAfter
  <2>9. ShownTypes'
    BY <1>3, <1>4, <2>3, <2>5 DEF ScreenInv, ShownTypes
  <2>10. Reported'
    BY <1>6, <2>3, <2>7, <2>8 DEF Reported, Succeeded, SucceededNext
  <2> QED
    BY <2>9, <2>10
<1>10. FormTypes' /\ Shown'
  BY <1>2, <1>4, SameForm DEF ScreenInv, Shown, AsShown
<1> QED
  BY <1>5, <1>8, <1>9, <1>10 DEF ScreenInv

LEMMA SettleBatchKeeps == ASSUME ScreenInv, SettleBatch PROVE ScreenInv'
<1>0. PICK k : k = batch
  OBVIOUS
<1>1. PICK seen \in {"ok", "failed", "unlisted"} :
        /\ sent' = [sent EXCEPT ![k].seen = seen]
        /\ Rendered(IF seen = "failed" THEN Told(panel, "error", 0) ELSE panel,
                    IF seen = "ok" THEN k ELSE 0, resets)
  BY <1>0 DEF SettleBatch
<1>2. /\ k # 0 /\ batch' = 0
      /\ UNCHANGED <<form, queries, left, batching, click, raw, hash>>
  BY <1>0 DEF SettleBatch
<1>3. /\ k = Len(sent) /\ k \in DOMAIN sent /\ sent[k].swap.batch /\ sent[k].seen = "waiting"
      /\ DOMAIN sent = 1..Len(sent) /\ Len(sent) \in 0..MaxSends
  BY <1>0, <1>2, LenOfSent DEF ScreenInv, ButtonTypes, Watched
<1>4. /\ sent' \in Seq(Sent) /\ Len(sent') = Len(sent) /\ DOMAIN sent' = DOMAIN sent
      /\ sent'[k].seen = seen
      /\ \A n \in DOMAIN sent : sent'[n].swap = sent[n].swap
      /\ \A n \in DOMAIN sent \ {k} : sent'[n] = sent[n]
      /\ \A n \in DOMAIN sent : Unwatched(n)' <=> Unwatched(n)
      /\ (\A n \in DOMAIN sent : AsShown(sent[n].swap))'
  BY <1>1, <1>3, SeenOnly
<1>5. ButtonTypes'
  BY <1>2, <1>4 DEF ScreenInv, ButtonTypes
<1>6. PICK a : /\ a = activeSwapHash /\ activeSwapHash' = a /\ a # k /\ a \in 0..Len(sent)
               /\ (isSwapSuccess' <=> isSwapSuccess)
  <2>1. activeSwapHash' = activeSwapHash /\ activeSwapHash \in 0..Len(sent)
    BY <1>2 DEF ScreenInv, ButtonTypes, activeSwapHash
  <2>2. activeSwapHash # k
    BY <1>2, <1>3 DEF ScreenInv, Watched, activeSwapHash
  <2>3. activeSwapHash # 0 => sent'[activeSwapHash] = sent[activeSwapHash]
    BY <1>3, <1>4, <2>1, <2>2
  <2> QED
    BY <2>1, <2>2, <2>3 DEF isSwapSuccess, Receipt
<1>7. Watched'
  <2>1. sent'[k].seen # "waiting"
    BY <1>4
  <2>2. \A n \in DOMAIN sent : sent'[n].seen = "waiting" => n # k /\ sent'[n] = sent[n]
    BY <1>4, <2>1
  <2>3. (raw # 0 => raw \in DOMAIN sent) /\ (hash # 0 => hash \in DOMAIN sent)
    BY <1>3 DEF ScreenInv, ButtonTypes
  <2> QED
    BY <1>0, <1>2, <1>4, <1>6, <2>2, <2>3 DEF ScreenInv, Watched
<1>8. ShownTypes' /\ Reported'
  <2> DEFINE view == IF seen = "failed" THEN Told(panel, "error", 0) ELSE panel
             announced == IF seen = "ok" THEN k ELSE 0
  <2>1. \A n : SucceededNext(n) <=> Succeeded(n) \/ (n = k /\ seen = "ok")
    BY <1>3, <1>4 DEF Succeeded, SucceededNext
  <2>2. /\ toasted \in 0..MaxSends /\ k \in 0..MaxSends /\ k \in Swap /\ 0 \in 0..MaxSends
        /\ a \in 0..MaxSends
    BY <1>2, <1>3, <1>6, ScreenAssumption DEF ScreenInv, ShownTypes, Swap
  <2>3. view \in Panel /\ (view.mode = "completed" => SucceededNext(view.tx))
    <3>1. "error" \in Statuses
      BY DEF Statuses
    <3> QED
      BY <2>1, <2>2, <3>1, PanelIn, ToldIn
  <2>4. Rendered(view, announced, resets) /\ announced \in 0..MaxSends
          /\ (announced # 0 => announced = k /\ seen = "ok" /\ SucceededNext(announced))
    BY <1>1, <2>1, <2>2
  <2> HIDE DEF view
  <2>5. isSwapSuccess => a # 0 /\ Succeeded(a) /\ toasted = a
    BY <1>3, <1>6 DEF ScreenInv, Reported, isSwapSuccess, Receipt, Succeeded
  <2>6. /\ panel' \in Panel
        /\ panel'.mode = "completed" => SucceededNext(panel'.tx)
        /\ toasted' \in {announced, toasted, a}
        /\ toasted' # 0 => SucceededNext(toasted')
        /\ isSwapSuccess' => toasted' = a
    <3>1. toasted # 0 => SucceededNext(toasted)
      BY <2>1 DEF ScreenInv, Reported
    <3>2. resets \in Nat
      BY PanelIn
    <3> HIDE DEF announced
    <3> QED
      BY <1>6, <2>1, <2>2, <2>3, <2>4, <2>5, <3>1, <3>2, RenderedRight
  <2>7. PICK last : last = IF announced # 0 THEN announced ELSE toasted
    OBVIOUS
  <2>8. /\ resets' \in Nat /\ notified' \in [Swap -> Nat]
        /\ \A n \in Swap :
             notified'[n] = IF n = announced \/ (isSwapSuccess' /\ a # last /\ n = a)
                            THEN notified[n] + 1 ELSE notified[n]
    <3>1. resets \in Nat /\ notified \in [Swap -> Nat]
      BY PanelIn DEF ScreenInv, ShownTypes
    <3> HIDE DEF announced
    <3> QED
      BY <1>6, <2>4, <2>7, <3>1, RenderedCounts
  <2>9. notified[k] = 0 /\ notified \in [Swap -> Nat]
    BY <1>3, <2>2 DEF ScreenInv, ShownTypes, Reported, Succeeded
  <2>10. \A n \in Swap :
           IF SucceededNext(n) THEN notified'[n] >= 1 /\ (notified'[n] > 1 => BatchAfter(n))
           ELSE notified'[n] = 0
    <3> SUFFICES ASSUME NEW n \in Swap
                 PROVE  IF SucceededNext(n)
                          THEN notified'[n] >= 1 /\ (notified'[n] > 1 => BatchAfter(n))
                        ELSE notified'[n] = 0
      OBVIOUS
    <3>1. CASE n = k /\ seen = "ok"
      BY <2>1, <2>8, <2>9, <3>1
    <3>2. CASE ~(n = k /\ seen = "ok") /\ isSwapSuccess' /\ a # last /\ n = a
      <4>1. notified'[n] = notified[n] + 1 /\ Succeeded(n)
        BY <1>6, <2>5, <2>8, <3>2
      <4>2. BatchAfter(n)
        BY <1>3, <1>6, <3>2 DEF BatchAfter, Swap
      <4>3. notified[n] \in Nat
        BY <2>9
      <4> QED
        BY <2>1, <4>1, <4>2, <4>3
    <3>3. CASE ~(n = k /\ seen = "ok") /\ ~(isSwapSuccess' /\ a # last /\ n = a)
      <4>1. n # announced
        BY <3>3 DEF Swap
      <4>2. notified'[n] = notified[n]
        BY <2>8, <3>3, <4>1
      <4> QED
        BY <2>1, <3>3, <4>2 DEF ScreenInv, Reported
    <3> QED
      BY <3>1, <3>2, <3>3
  <2>11. \A n : BatchAfter(n)' <=> BatchAfter(n)
    BY <1>4 DEF BatchAfter
  <2>12. ShownTypes'
    <3>1. toasted \in 0..Len(sent') /\ a \in 0..Len(sent') /\ announced \in 0..Len(sent')
      BY <1>3, <1>4, <1>6 DEF ScreenInv, ShownTypes
    <3> QED
      BY <2>6, <2>8, <3>1 DEF ShownTypes
  <2>13. Reported'
    BY <1>6, <2>6, <2>10, <2>11 DEF Reported, Succeeded, SucceededNext
  <2> QED
    BY <2>12, <2>13
<1>9. FormTypes' /\ Shown'
  BY <1>2, <1>4, SameForm DEF ScreenInv, Shown, AsShown
<1> QED
  BY <1>5, <1>7, <1>8, <1>9 DEF ScreenInv
-----------------------------------------------------------------------------
(* The theorems.                                                           *)

LEMMA InitInv == ScreenInit => ScreenInv
<1> SUFFICES ASSUME ScreenInit PROVE ScreenInv
  OBVIOUS
<1> USE DEF ScreenInit
<1>1. FormTypes
  BY DEF FormTypes, Typed, AnswerSeen
<1>2. ButtonTypes
  <2>1. left \in [edits : Nat, sends : 0..MaxSends, batching : BOOLEAN]
    BY ScreenAssumption
  <2>2. left.sends \in Nat /\ left.sends <= MaxSends /\ MaxSends \in Nat
    BY <2>1, ScreenAssumption
  <2>3. left \in [edits : Nat, sends : Nat, batching : BOOLEAN]
    BY <2>1, <2>2
  <2>4. sent \in Seq(Sent) /\ Len(sent) = 0 /\ ~click.on
    BY DEF Idle
  <2>5. left.sends + Len(sent) + (IF click.on THEN 1 ELSE 0) <= MaxSends
    BY <2>2, <2>4
  <2>6. /\ batching \in BOOLEAN /\ click = Idle
        /\ raw \in 0..Len(sent) /\ hash \in 0..Len(sent) /\ batch \in 0..Len(sent)
    <3>1. raw = 0 /\ hash = 0 /\ batch = 0 /\ batching = FALSE /\ click = Idle
      OBVIOUS
    <3>2. 0 \in 0..Len(sent)
      <4> HIDE DEF ScreenInit
      <4> QED
        BY <2>4
    <3> HIDE DEF ScreenInit
    <3> QED
      BY <3>1, <3>2
  <2> HIDE DEF ScreenInit
  <2> QED
    BY <2>3, <2>4, <2>5, <2>6 DEF ButtonTypes
<1>3. ShownTypes
  BY ScreenAssumption DEF ShownTypes, Panel
<1>4. Shown /\ Watched
  BY DEF Shown, Watched, Idle
<1>5. Reported
  BY DEF Reported, Succeeded, isSwapSuccess, Receipt, activeSwapHash
<1> QED
  BY <1>1, <1>2, <1>3, <1>4, <1>5 DEF ScreenInv

LEMMA NextInv == ScreenInv /\ [ScreenNext]_screenVars => ScreenInv'
<1> SUFFICES ASSUME ScreenInv, [ScreenNext]_screenVars PROVE ScreenInv'
  OBVIOUS
<1>1. CASE Form
  BY <1>1, FormKeeps
<1>2. CASE Button
  BY <1>2, CapabilitiesKeeps, ClickKeeps, ApproveKeeps, AskKeeps, RefuseKeeps, SendKeeps,
     SettleKeeps, SettleBatchKeeps DEF Button
<1>3. CASE UNCHANGED screenVars
  <2>1. UNCHANGED <<way, typed, debounced, answer, calldata, path, batching, click, raw, hash,
                    batch, sent, panel, toasted, resets, notified, left>>
    BY <1>3 DEF screenVars, form, queries, button, shownVars
  <2>2. FormTypes' /\ ButtonTypes' /\ ShownTypes'
    BY <2>1 DEF ScreenInv, FormTypes, ButtonTypes, ShownTypes
  <2>3. Shown' /\ Watched' /\ Reported'
    BY <2>1 DEF ScreenInv, Shown, AsShown, Watched, Unwatched, activeSwapHash, Reported, Succeeded,
                BatchAfter, isSwapSuccess, Receipt
  <2> QED
    BY <2>2, <2>3 DEF ScreenInv
<1> QED
  BY <1>1, <1>2, <1>3 DEF ScreenNext

LEMMA ScreenInvariance == ScreenSpec => []ScreenInv
BY InitInv, NextInv, PTL DEF ScreenSpec

(***************************************************************************)
(* The page's state has its types, and the number of swaps its bound.      *)
(***************************************************************************)
THEOREM ScreenTypeCorrect == ScreenSpec => []ScreenTypeOK
<1>1. ScreenInv => ScreenTypeOK
  <2> SUFFICES ASSUME ScreenInv PROVE ScreenTypeOK
    OBVIOUS
  <2> USE DEF ScreenInv
  <2>1. Len(sent) \in Nat /\ Len(sent) <= MaxSends
    BY LenOfSent, ScreenAssumption
  <2> QED
    BY <2>1 DEF FormTypes, ButtonTypes, ShownTypes, ScreenTypeOK, Typed, AnswerSeen, Panel
<1> QED
  BY <1>1, ScreenInvariance, PTL

(***************************************************************************)
(* Each swap sent is the one shown at its click: SwapCard, SwapButton.     *)
(***************************************************************************)
THEOREM ShownIsTraded == ScreenSpec => []TradesWhatWasShown
<1>1. ScreenInv => TradesWhatWasShown
  BY DEF ScreenInv, Shown, AsShown, TradesWhatWasShown
<1> QED
  BY <1>1, ScreenInvariance, PTL

(***************************************************************************)
(* One swap at a time, but for those whose hash is hidden: isBusy.         *)
(***************************************************************************)
THEOREM OneAtATime == ScreenSpec => []OneSwapAtATime
<1>1. ScreenInv => OneSwapAtATime
  BY DEF ScreenInv, Watched, OneSwapAtATime
<1> QED
  BY <1>1, ScreenInvariance, PTL

(***************************************************************************)
(* Each success is reported, once but for later batches: the effects of    *)
(* SwapButton.                                                             *)
(***************************************************************************)
THEOREM SuccessReported == ScreenSpec => []ReportedOnce
<1>1. ScreenInv => ReportedOnce
  BY DEF ScreenInv, Reported, Succeeded, BatchAfter, ReportedOnce
<1> QED
  BY <1>1, ScreenInvariance, PTL
=============================================================================
