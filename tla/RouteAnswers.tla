---------------------------- MODULE RouteAnswers ----------------------------
(***************************************************************************)
(* What a request for a route promises while pools are being added: it     *)
(* looks at the graph once and answers with a shortest route in what it    *)
(* saw; it finds none exactly when every route there has too many hops.    *)
(***************************************************************************)
EXTENDS PoolGraph

CONSTANT MaxHops

VARIABLES
  graph,          \* the pools known
  from, to,       \* the request
  read, seen,     \* whether the graph has been looked at, and what was seen
  status, route   \* "pending", "found" or "notFound"; the hops

vars == <<graph, from, to, read, seen, status, route>>

Init ==
  /\ graph \subseteq Pool /\ from \in Token /\ to \in Token
  /\ read = FALSE /\ seen = {}
  /\ status = "pending" /\ route = << >>

Grow ==
  /\ \E p \in Pool \ graph : graph' = graph \cup {p}
  /\ UNCHANGED <<from, to, read, seen, status, route>>

Look ==
  /\ ~read /\ status = "pending"
  /\ read' = TRUE /\ seen' = graph
  /\ UNCHANGED <<graph, from, to, status, route>>

\* A token is reached from itself whatever the graph.
Find ==
  /\ status = "pending" /\ (read \/ from = to)
  /\ status' = "found"
  /\ IsShortest(route', seen, from, to) /\ Len(route') <= MaxHops
  /\ UNCHANGED <<graph, from, to, read, seen>>

Miss ==
  /\ status = "pending" /\ read
  /\ NoneWithin(MaxHops, seen, from, to)
  /\ status' = "notFound"
  /\ UNCHANGED <<graph, from, to, read, seen, route>>

\* An empty graph is looked at and answered at once.
LookAndMiss ==
  /\ ~read /\ status = "pending" /\ graph = {} /\ from # to
  /\ read' = TRUE /\ status' = "notFound"
  /\ UNCHANGED <<graph, from, to, seen, route>>

Next == Grow \/ Look \/ Find \/ Miss \/ LookAndMiss

\* Every request is answered.
Answered == <>(status # "pending")

Spec == Init /\ [][Next]_vars /\ Answered
=============================================================================
