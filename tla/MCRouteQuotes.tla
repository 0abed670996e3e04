--------------------------- MODULE MCRouteQuotes ---------------------------
(***************************************************************************)
(* RouteQuotes for TLC: a path of four tokens with a second pool at its    *)
(* start and a chord, any part of it known when the request comes in; and  *)
(* a part of it whose fees change.  MaxHops = 2 leaves the end of the path *)
(* out of reach when the chord is not there.                               *)
(*                                                                         *)
(* With a single pool the swap page is open beside it: the broker answers  *)
(* the page when it is done with the request.                              *)
(***************************************************************************)
EXTENDS RouteQuotes, SwapScreen

MCEnds == <<<<"a", "b">>, <<"c", "b">>, <<"c", "d">>, <<"b", "a">>, <<"b", "d">>>>
MCClass == <<"volatile", "cl", "stable", "stable", "volatile">>

Page(m, n, b) == [edits |-> m, sends |-> n, batching |-> b]
Closed == Page(0, 0, FALSE)
MCBudget == {Closed, Page(2, 1, TRUE), Page(1, 2, TRUE), Page(1, 3, FALSE)}

Bound(G, t, growth, n, page) ==
  [graph |-> G, from |-> t, growth |-> growth, changes |-> n, page |-> page]

MCStart ==
  {Bound(G, t, 1, 0, Closed) : G \in SUBSET (1..5), t \in {"a", "c"}}
    \cup {Bound({1, 2}, "a", 0, 2, Closed), Bound({3, 4}, "b", 0, 2, Closed),
          Bound({1}, "a", 1, 1, Closed)}
    \cup {Bound({1}, "a", 0, 0, b) : b \in MCBudget \ {Closed}}

MCInit ==
  /\ QuotesInit /\ ScreenInit
  /\ left = bounds.page /\ way = "ab"
  /\ bounds.page # Closed => to = "b"

Served == stage = 6 \/ pc = "notFound"

MCNext ==
  \/ QuotesNext /\ UNCHANGED screenVars
  \/ /\ bounds.page # Closed
     /\ ScreenNext /\ (answer' \notin {answer, "none"} => Served)
     /\ UNCHANGED allVars

MCSpec ==
  /\ MCInit /\ [][MCNext]_<<allVars, screenVars>>
  /\ WF_allVars(Search /\ UNCHANGED feeVars)
=============================================================================
