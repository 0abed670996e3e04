----------------------- MODULE SettingsFollow_proofs ------------------------
(***************************************************************************)
(* The settings shown follow the chain, for any log, any scenario and any  *)
(* number of pools.  The events that set a cell (a column of a settings    *)
(* row, or what a column of a pair depends on) are due while they are to   *)
(* be handled, for the first time or again, and their statement has yet to *)
(* run.  A cell always is as some event has set it, or as none has, and    *)
(* all later ones that set it are due: so once nothing is, it is as the    *)
(* last has set it.  A repeated delivery or a replay makes old values due  *)
(* again together with all that came after them.                           *)
(***************************************************************************)
EXTENDS ReadModels_proofs

(***************************************************************************)
(* The settings, cell by cell: a column of a settings row, or what the     *)
(* fee and the gauge column of a pair depend on.                           *)
(***************************************************************************)
Handlers == {"consumer", "replay"}
IsSetting(k) == k[1] \in {"curve", "tiers", "whitelisted", "defaults", "discount"}

\* What a settings row holds when there is none.
Blank(k) ==
  CASE k[1] = "curve" -> NoCurve
    [] k[1] = "tiers" -> NoTiers
    [] k[1] = "whitelisted" -> [on |-> FALSE]
    [] OTHER -> [value |-> Unset]

Seen(k) == Shown(k, Blank(k))

\* The events that set a cell.
SetBy(k, c) ==
  CASE k[1] = "defaults" -> Typed({"default"})
    [] k[1] = "discount" -> Typed({"discount", "undiscount"})
    [] k[1] = "tiers" -> {n \in Typed({"setFee"}) : log[n].class = c}
    [] k[1] = "whitelisted" -> {n \in Typed({"whitelist"}) : log[n].side = k[2]}
    [] k[1] = "curve" -> IF c = "base" THEN Of("moduleFee", k[2], log)
                         ELSE Of("capSet", k[2], log) \cup Of("feeReset", k[2], log)
    [] k[1] = "pair" /\ c = "own" ->
         IF CL(k[2]) THEN Of("created", k[2], log) \cup Of("moduleFee", k[2], log)
                            \cup Of("feeReset", k[2], log)
         ELSE Of("customFee", k[2], log)
    [] k[1] = "pair" /\ c = "tier" -> {n \in Typed({"setFee"}) : log[n].class = Class[k[2]]}
    [] k[1] = "pair" /\ c = "created" -> Of("created", k[2], log)
    [] k[1] = "pair" /\ c = "gauge" -> Typed({"whitelist"})
    [] OTHER -> {}

\* The statements that do it.
Sets(s, k, c) ==
  IF IsSetting(k)
    THEN s.op \in {"upsert", "delete"} /\ s.key = k /\ (s.op = "upsert" => c \in DOMAIN s.patch)
  ELSE IF c = "gauge" THEN s.op = "compute" /\ k \in s.keys
  ELSE \/ s.op \in {"save", "write"} /\ s.key = k
       \/ s.op = "update" /\ k \in s.keys
       \/ s.op = "query" /\ s.of \in {"tier", "custom"} /\ Pair(s.pool) = k

YetIn(p, k, c) == \E i \in 1..Len(p) : Sets(p[i], k, c)
Yet(a, k, c) == YetIn(todo[a], k, c)

\* The events that are still to set it.
Due(k, c) ==
  {n \in SetBy(k, c) :
     \/ n >= next /\ (n = at["consumer"] => Yet("consumer", k, c))
     \/ n \in selected
     \/ n = at["replay"] /\ Yet("replay", k, c)}

Given(n) ==
  CASE log[n].type \in {"feeReset", "undiscount"} -> Unset
    [] log[n].type = "whitelist" -> log[n].on
    [] OTHER -> log[n].bps

\* A cell is as event n has set it, or as none has: a later one is to come again.
LastTo(n, k, c) == n \in SetBy(k, c) /\ \A m \in SetBy(k, c) : m > n => m \in Due(k, c)
NoneTo(k, c) == SetBy(k, c) \subseteq Due(k, c)

CellHolds(k, c) ==
  \/ Seen(k)[c] = Blank(k)[c] /\ NoneTo(k, c)
  \/ \E n \in DOMAIN log : LastTo(n, k, c) /\ Seen(k)[c] = Given(n)

Cells ==
  {<<Defaults, "value">>, <<Discount, "value">>}
    \cup {<<Curve(p), c>> : p \in Pool, c \in {"base", "cap"}}
    \cup {<<Whitelisted(side), "on">> : side \in Side}
    \cup {<<Tiers, c>> : c \in {"volatile", "stable"}}

SettingFits(k, r) ==
  /\ DOMAIN r = DOMAIN Blank(k) /\ r = [c \in DOMAIN r |-> r[c]]
  /\ \A c \in DOMAIN r : r[c] \in IF k[1] = "whitelisted" THEN BOOLEAN ELSE FeeBps \cup {Unset}

SettingRows ==
  \A x \in Cells :
    /\ Row(x[1]) # NoRow => SettingFits(x[1], Row(x[1]))
    /\ CellHolds(x[1], x[2])
-----------------------------------------------------------------------------
(* The pairs.                                                              *)

FeeOf(r) == [c \in DOMAIN NoFee |-> r[c]]
Charged(n) ==
  IF log[n].type = "moduleFee" THEN Fee(FALSE, log[n].bps, "cl_module_fixed") ELSE DynamicFee

FeeHolds(p, f) ==
  LET k == Pair(p) IN
  IF CL(p)
    THEN \/ f = NoFee /\ NoneTo(k, "own")
         \/ \E n \in DOMAIN log : LastTo(n, k, "own") /\ f = Charged(n)
  ELSE \/ \E n \in DOMAIN log :
            LastTo(n, k, "own") /\ f = Fee(FALSE, log[n].bps, "factory_custom")
       \/ /\ NoneTo(k, "own")
          /\ \/ \E n \in DOMAIN log :
                  LastTo(n, k, "tier") /\ f = Fee(FALSE, log[n].bps, "factory_tier")
             \/ f = NoFee /\ (NoneTo(k, "created") \/ NoneTo(k, "tier"))

GaugeHolds(p, g) ==
  \/ g = BothWhitelisted
  \/ Due(Pair(p), "gauge") # {}
  \/ ~g /\ \A n \in SetBy(Pair(p), "gauge"), m \in Of("created", p, log) : n < m

\* Its row is written when it is created, before anything later is taken up.
CreatedFirst(p) ==
  Row(Pair(p)) = NoRow =>
    \A n \in Of("created", p, log) :
      /\ next <= n /\ \A m \in Stored : m <= n
      /\ at["consumer"] = n =>
           \E i \in 1..Len(todo["consumer"]) :
             todo["consumer"][i].op \in {"save", "write"} /\ todo["consumer"][i].key = Pair(p)

PairHolds(p) ==
  Row(Pair(p)) # NoRow /\ Pair(p) \notin raced =>
    /\ ~CL(p) => ~rows[Pair(p)].cl
    /\ FeeHolds(p, FeeOf(rows[Pair(p)]))
    /\ GaugeHolds(p, rows[Pair(p)].gauge)
-----------------------------------------------------------------------------
(* What an actor has yet to run, of the event it handles.                  *)

Kind(n) == IF n = 0 THEN "none" ELSE log[n].type
SettingTypes ==
  {"setFee", "customFee", "moduleFee", "capSet", "feeReset", "default", "discount", "undiscount",
   "whitelist"}

\* A statement that sets nothing.
Innocent(s) ==
  /\ s.op \in {"candle", "raise", "find", "save", "set", "write", "query", "upsert", "compute", "update"}
  /\ s.op = "save" => s.edit.of # "minimal"
  /\ s.op = "query" => s.of \notin {"tier", "custom"}
  /\ s.op \in {"save", "write", "upsert"} => ~IsSetting(s.key)
  /\ s.op = "compute" => s.keys = {Account}
  /\ s.op = "update" => DOMAIN s.patch = {"listed"}

Sows(n, s) ==
  LET e == log[n] IN
  /\ s.op \in {"upsert", "delete", "update", "compute", "query"}
  /\ s.op = "upsert" =>
       /\ IsSetting(s.key) /\ s.new = Over(s.patch, Blank(s.key))
       /\ DOMAIN s.patch \subseteq DOMAIN Blank(s.key)
       /\ \A c \in DOMAIN s.patch : n \in SetBy(s.key, c) /\ s.patch[c] = Given(n)
  /\ s.op = "delete" => s.key = Discount /\ e.type = "undiscount"
  /\ s.op = "compute" =>
       e.type = "whitelist" /\ s.keys = {Pair(p) : p \in Pool} /\ s.expr = [of |-> "gauge"]
  /\ s.op = "query" => e.type = "customFee" /\ s.of = "custom" /\ s.pool = e.pool /\ s.bps = e.bps
  /\ s.op = "update" =>
       \/ /\ e.type = "setFee" /\ s.keys = {Pair(p) : p \in {q \in Pool : Class[q] = e.class}}
          /\ s.where = {"", "factory_tier"} /\ s.patch = Fee(FALSE, e.bps, "factory_tier")
       \/ /\ e.type = "customFee" /\ s.keys = {Pair(e.pool)} /\ s.where = AnySource
          /\ s.patch = Fee(FALSE, e.bps, "factory_custom")
       \/ /\ e.type \in {"moduleFee", "feeReset"} /\ s.keys = {Pair(e.pool)} /\ s.where = AnySource
          /\ s.patch = Over([cl |-> TRUE], Charged(n))

Creates(n, s) ==
  LET p == log[n].pool IN
  /\ s.op \in {"upsert", "find", "save", "write", "query", "update"}
  /\ s.op \in {"save", "write", "upsert"} => ~IsSetting(s.key)
  /\ s.op = "find" => s.skip \in {0, 1} /\ (s.skip = 1 => s.key = Totals)
  /\ s.op \in {"save", "write"} /\ s.key[1] = "pair" => s.key = Pair(p)
  /\ s.op = "save" /\ s.key = Pair(p) => s.edit.of = "minimal" /\ s.edit.pool = p
  /\ s.op = "query" => s.of = "tier" /\ s.pool = p /\ ~CL(p)
  /\ s.op = "update" =>
       /\ ~CL(p) /\ s.keys = {Pair(p)} /\ s.where = AnySource
       /\ Row(Tiers) # NoRow /\ rows[Tiers][Class[p]] # Unset
       /\ s.patch = [bps |-> rows[Tiers][Class[p]], src |-> "factory_tier"]

Means(n, s) ==
  IF Kind(n) \in SettingTypes THEN Sows(n, s)
  ELSE IF Kind(n) = "created" THEN Creates(n, s)
  ELSE Innocent(s)

\* A token's entry is followed by the update of its pairs, and a basic pair's by the
\* question for its tier.
Followed(n, p) ==
  \A i \in 1..Len(p) :
    /\ p[i].op = "upsert" /\ p[i].key[1] = "whitelisted" =>
         \E j \in (i + 1)..Len(p) : p[j].op = "compute"
    /\ p[i].op \in {"save", "write"} /\ p[i].key[1] = "pair"
           /\ Kind(n) = "created" /\ ~CL(log[n].pool) =>
         \E j \in (i + 1)..Len(p) : p[j].op = "query"

Ahead(n, p) == Followed(n, p) /\ \A i \in 1..Len(p) : Means(n, p[i])

PairSteps(a) ==
  \A p \in Pool :
    At(a, {"write"}) /\ S(a).key = Pair(p) /\ Pair(p) \notin raced =>
      LET old == IF Row(Pair(p)) = NoRow THEN NewPair ELSE Row(Pair(p)) IN
      /\ FeeOf(Result(a)) =
           IF Kind(at[a]) = "created" /\ CL(p) THEN DynamicFee
           ELSE IF Kind(at[a]) = "created" THEN [FeeOf(old) EXCEPT !.dyn = FALSE] ELSE FeeOf(old)
      /\ Result(a).gauge = old.gauge
      /\ Result(a).cl = IF Kind(at[a]) = "created" THEN CL(p) ELSE old.cl

Ordered ==
  /\ \A a \in Handlers : at[a] = 0 => todo[a] = << >>
  /\ \A a \in Actor \ Handlers : at[a] = 0
  /\ at["consumer"] = 0 \/ at["replay"] = 0
  /\ at["replay"] = 0 => selected = {}
  /\ at["replay"] # 0 =>
       /\ \A n \in selected : n > at["replay"]
       /\ \A n \in DOMAIN log : n > at["replay"] => n \in selected \/ n >= next
  /\ \A n \in DOMAIN log : n < next => n \in Stored

Follows ==
  /\ Ordered /\ SettingRows
  /\ \A p \in Pool : CreatedFirst(p) /\ PairHolds(p)
  /\ \A a \in Actor : Ahead(at[a], todo[a]) /\ PairSteps(a)

Calm == ~dropped /\ ~unordered
FollowInv == log \in Logs(scenario) /\ (Calm => Follows)
-----------------------------------------------------------------------------
(* The cells and the events that set them.                                 *)

LEMMA SetByCells ==
  /\ SetBy(Defaults, "value") = Typed({"default"})
  /\ SetBy(Discount, "value") = Typed({"discount", "undiscount"})
  /\ \A c : SetBy(Tiers, c) = {n \in Typed({"setFee"}) : log[n].class = c}
  /\ \A side : SetBy(Whitelisted(side), "on") = {n \in Typed({"whitelist"}) : log[n].side = side}
  /\ \A p : /\ SetBy(Curve(p), "base") = Of("moduleFee", p, log)
            /\ SetBy(Curve(p), "cap") = Of("capSet", p, log) \cup Of("feeReset", p, log)
BY DEF SetBy, Defaults, Discount, Tiers, Whitelisted, Curve

LEMMA SetByPairs ==
  ASSUME NEW p
  PROVE  /\ ~IsSetting(Pair(p)) /\ Pair(p)[2] = p
         /\ SetBy(Pair(p), "own") =
              IF CL(p) THEN Of("created", p, log) \cup Of("moduleFee", p, log) \cup Of("feeReset", p, log)
              ELSE Of("customFee", p, log)
         /\ SetBy(Pair(p), "tier") = {n \in Typed({"setFee"}) : log[n].class = Class[p]}
         /\ SetBy(Pair(p), "created") = Of("created", p, log)
         /\ SetBy(Pair(p), "gauge") = Typed({"whitelist"})
BY DEF SetBy, Pair, IsSetting

LEMMA SetByKept ==
  ASSUME log' = log
  PROVE  \A k, c : SetBy(k, c)' = SetBy(k, c)
<1> TAKE k, c
<1>1. /\ \A T : Typed(T)' = Typed(T)
      /\ \A t, p : Of(t, p, log)' = Of(t, p, log)
  BY DEF Typed, Of
<1> QED
  BY <1>1 DEF SetBy

LEMMA SetByEvents ==
  ASSUME NEW k, NEW c
  PROVE  SetBy(k, c) \subseteq DOMAIN log
<1>1. /\ \A T : Typed(T) \subseteq DOMAIN log
      /\ \A t, p : Of(t, p, log) \subseteq DOMAIN log
  BY DEF Typed, Of
<1> QED
  BY <1>1 DEF SetBy
-----------------------------------------------------------------------------
(* What is due, when a step sets nothing.                                  *)

LEMMA DueGrows ==
  ASSUME UNCHANGED <<log, next, at, selected>>, NEW k, NEW c,
         \A b \in Handlers : at[b] \in SetBy(k, c) /\ Yet(b, k, c) => Yet(b, k, c)'
  PROVE  Due(k, c) \subseteq Due(k, c)'
<1>1. SetBy(k, c)' = SetBy(k, c)
  BY SetByKept
<1>2. \A n \in SetBy(k, c) : n = at["consumer"] /\ Yet("consumer", k, c) => Yet("consumer", k, c)'
  BY DEF Handlers
<1>3. \A n \in SetBy(k, c) : n = at["replay"] /\ Yet("replay", k, c) => Yet("replay", k, c)'
  BY DEF Handlers
<1> QED
  BY <1>1, <1>2, <1>3 DEF Due

LEMMA HoldsKept ==
  ASSUME log' = log, NEW k, NEW c, Due(k, c) \subseteq Due(k, c)'
  PROVE  /\ \A n : LastTo(n, k, c) => LastTo(n, k, c)'
         /\ NoneTo(k, c) => NoneTo(k, c)'
<1>1. SetBy(k, c)' = SetBy(k, c)
  BY SetByKept
<1> QED
  BY <1>1 DEF LastTo, NoneTo

LEMMA CellKept ==
  ASSUME log' = log, NEW k, NEW c, Due(k, c) \subseteq Due(k, c)', Seen(k)'[c] = Seen(k)[c],
         CellHolds(k, c)
  PROVE  CellHolds(k, c)'
<1>1. /\ \A n : LastTo(n, k, c) => LastTo(n, k, c)'
      /\ NoneTo(k, c) => NoneTo(k, c)'
  BY HoldsKept
<1>2. \A n : Given(n)' = Given(n)
  BY DEF Given
<1>3. Blank(k)' = Blank(k)
  BY DEF Blank, NoCurve, NoTiers
<1> QED
  BY <1>1, <1>2, <1>3 DEF CellHolds

LEMMA FeeKept ==
  ASSUME log' = log, NEW p, NEW f, \A c \in {"own", "tier", "created"} : Due(Pair(p), c) \subseteq Due(Pair(p), c)',
         FeeHolds(p, f)
  PROVE  FeeHolds(p, f)'
<1>1. \A c \in {"own", "tier", "created"} :
        /\ \A n : LastTo(n, Pair(p), c) => LastTo(n, Pair(p), c)'
        /\ NoneTo(Pair(p), c) => NoneTo(Pair(p), c)'
  <2> TAKE c \in {"own", "tier", "created"}
  <2> DEFINE k == Pair(p)
  <2>1. Due(k, c) \subseteq Due(k, c)'
    OBVIOUS
  <2> HIDE DEF k
  <2>2. /\ \A n : LastTo(n, k, c) => LastTo(n, k, c)'
        /\ NoneTo(k, c) => NoneTo(k, c)'
    BY <2>1, HoldsKept
  <2> QED
    BY <2>2 DEF k
<1>2. \A n : Charged(n)' = Charged(n)
  BY DEF Charged, Fee, DynamicFee
<1> DEFINE Own1(n) == LastTo(n, Pair(p), "own")
           Tier1(n) == LastTo(n, Pair(p), "tier")
<1>3. CASE CL(p)
  <2>1. CASE f = NoFee /\ NoneTo(Pair(p), "own")
    BY <1>1, <1>3, <2>1 DEF FeeHolds
  <2>2. ASSUME NEW n \in DOMAIN log, LastTo(n, Pair(p), "own"), f = Charged(n)
        PROVE  FeeHolds(p, f)'
    BY <1>1, <1>2, <1>3, <2>2 DEF FeeHolds
  <2> QED
    BY <1>3, <2>1, <2>2 DEF FeeHolds
<1>4. CASE ~CL(p)
  BY <1>1, <1>4 DEF FeeHolds
<1> QED
  BY <1>3, <1>4

\* An event in hand, all later ones of which are to come.
LEMMA LaterDue ==
  ASSUME IInv, Ordered, NEW a \in Handlers, at[a] # 0, UNCHANGED <<log, next, at, selected>>,
         NEW k, NEW c
  PROVE  /\ at[a] \in SetBy(k, c) => LastTo(at[a], k, c)'
         /\ \A m \in SetBy(k, c) : m > at[a] => m \in Due(k, c)'
<1>1. SetBy(k, c)' = SetBy(k, c) /\ SetBy(k, c) \subseteq DOMAIN log
  BY SetByKept, SetByEvents
<1>2. DOMAIN log \subseteq Nat \ {0} /\ next \in Nat /\ at["consumer"] \in {0, next}
  <2>1. scenario \in Scenarios /\ DOMAIN log = DOMAIN scenario.shape
    BY DEF IInv, Actors
  <2>2. DOMAIN log = 1..Len(scenario.shape) /\ Len(scenario.shape) \in Nat
    BY <2>1, ScenariosAssumption
  <2> QED
    BY <2>2 DEF IInv, Actors
<1>3. \A m \in SetBy(k, c) : m > at[a] => m \in Due(k, c)'
  <2> SUFFICES ASSUME NEW m \in SetBy(k, c), m > at[a] PROVE m \in Due(k, c)'
    OBVIOUS
  <2>1. m \in DOMAIN log /\ m \in Nat \ {0} /\ at[a] \in Nat
    <3>1. at[a] \in {0} \cup Stored /\ Stored \subseteq DOMAIN log
      BY DEF IInv, Actors, Actor, Handlers, Stored
    <3> QED
      BY <1>1, <1>2, <3>1
  <2>2. CASE a = "consumer"
    <3>1. at["consumer"] = next /\ m > next
      BY <1>2, <2>2
    <3> QED
      BY <1>1, <1>2, <2>1, <3>1 DEF Due
  <2>3. CASE a = "replay"
    <3>1. at["consumer"] = 0 /\ (m \in selected \/ m >= next)
      BY <2>1, <2>3 DEF Ordered
    <3> QED
      BY <1>1, <2>1, <3>1 DEF Due
  <2> QED
    BY <2>2, <2>3 DEF Handlers
<1> QED
  BY <1>1, <1>3 DEF LastTo

\* What is left of a program.
LEMMA YetRest ==
  ASSUME NEW a, Program(a, todo[a]), todo[a] # << >>, NEW k, NEW c, Yet(a, k, c), ~Sets(S(a), k, c)
  PROVE  YetIn(Rest(a), k, c)
<1>1. /\ S(a) = todo[a][1] /\ Len(Rest(a)) = Len(todo[a]) - 1 /\ Len(todo[a]) \in Nat
      /\ \A i \in 1..Len(Rest(a)) : Rest(a)[i] = todo[a][1 + i]
  BY RestStep DEF Program, Sequence
<1>2. PICK i \in 1..Len(todo[a]) : Sets(todo[a][i], k, c)
  BY DEF Yet, YetIn
<1>3. i # 1
  BY <1>1, <1>2
<1>4. i - 1 \in 1..Len(Rest(a)) /\ 1 + (i - 1) = i
  BY <1>1, <1>3
<1>5. Rest(a)[i - 1] = todo[a][i]
  BY <1>1, <1>4
<1> QED
  BY <1>2, <1>4, <1>5 DEF YetIn
-----------------------------------------------------------------------------
(* What the programs consist of.                                           *)

\* Statements of the creation n, or (0) such as set nothing.
Meanwhile(n, s) == IF n = 0 THEN Innocent(s) ELSE Creates(n, s)
All(n, p) == Sequence(p) /\ \A i \in 1..Len(p) : Meanwhile(n, p[i])

\* Of either kind.
Harmless(s) ==
  /\ s.op \in {"find", "save", "upsert"}
  /\ s.op = "find" => s.skip \in {0, 1} /\ (s.skip = 1 => s.key = Totals)
  /\ s.op = "save" => s.edit.of # "minimal" /\ s.key[1] # "pair"
  /\ s.op \in {"save", "upsert"} => ~IsSetting(s.key)

LEMMA HarmlessMeans ==
  ASSUME NEW n, NEW s, Harmless(s)
  PROVE  Meanwhile(n, s)
<1>1. \A p : Pair(p)[1] = "pair"
  BY DEF Pair
<1>2. Innocent(s)
  BY DEF Harmless, Innocent
<1>3. Creates(n, s)
  BY <1>1 DEF Harmless, Creates
<1> QED
  BY <1>2, <1>3 DEF Meanwhile

LEMMA AllJoined ==
  ASSUME NEW n, NEW p, NEW r, All(n, p), All(n, r)
  PROVE  All(n, p \o r)
<1>1. PICK u : u = p \o r
  OBVIOUS
<1>2. /\ Sequence(u) /\ Len(u) = Len(p) + Len(r)
      /\ \A i \in 1..Len(p) : u[i] = p[i]
      /\ \A i \in 1..Len(r) : u[Len(p) + i] = r[i]
  BY <1>1, Joined DEF All
<1>3. Len(p) \in Nat /\ Len(r) \in Nat
  BY DEF All, Sequence
<1>4. ASSUME NEW i \in 1..Len(u) PROVE Meanwhile(n, u[i])
  <2>1. CASE i <= Len(p)
    BY <1>2, <1>3, <2>1 DEF All
  <2>2. CASE i > Len(p)
    <3>1. PICK j : j = i - Len(p)
      OBVIOUS
    <3>2. j \in 1..Len(r) /\ Len(p) + j = i
      BY <1>2, <1>3, <2>2, <3>1
    <3> QED
      BY <1>2, <3>2 DEF All
  <2> QED
    BY <1>2, <1>3, <2>1, <2>2
<1> QED
  BY <1>1, <1>2, <1>4 DEF All

LEMMA AllEmpty == ASSUME NEW n PROVE All(n, << >>)
BY EmptyIsSequence DEF All

LEMMA AllOne ==
  ASSUME NEW n, NEW s, Meanwhile(n, s)
  PROVE  All(n, << s >>)
<1>1. Sequence(<< s >>) /\ Len(<< s >>) = 1 /\ << s >>[1] = s
  BY OneSequence
<1>2. PICK p : p = << s >>
  OBVIOUS
<1>3. \A i \in 1..Len(p) : p[i] = s
  BY <1>1, <1>2
<1> QED
  BY <1>1, <1>2, <1>3 DEF All

LEMMA NoSettings ==
  /\ ~IsSetting(SpotToken) /\ ~IsSetting(Totals)
  /\ \A p : ~IsSetting(Pair(p)) /\ \A i : ~IsSetting(Tick(p, i)) /\ ~IsSetting(Bar(p, i))
BY DEF IsSetting, SpotToken, Totals, Pair, Tick, Bar

LEMMA AllUpsert ==
  ASSUME NEW n, NEW k, NEW f, NEW r, ~IsSetting(k)
  PROVE  Harmless(Upsert(k, f, r)) /\ All(n, << Upsert(k, f, r) >>)
<1>1. Harmless(Upsert(k, f, r))
  BY DEF Upsert, Harmless
<1> QED
  BY <1>1, HarmlessMeans, AllOne

LEMMA AllFind ==
  ASSUME NEW n, NEW k
  PROVE  Harmless(Find(k)) /\ All(n, << Find(k) >>)
<1>1. Harmless(Find(k))
  BY DEF Find, Harmless
<1> QED
  BY <1>1, HarmlessMeans, AllOne

LEMMA AllChange ==
  ASSUME NEW n, NEW k, NEW e, Meanwhile(n, Save(k, e))
  PROVE  All(n, Change(k, e))
<1>1. Change(k, e) = << Find(k) >> \o << Save(k, e) >>
  BY TwoJoined DEF Change
<1> QED
  BY <1>1, AllFind, AllOne, AllJoined

LEMMA InnocentSave ==
  ASSUME NEW k, NEW e, e.of # "minimal", ~IsSetting(k)
  PROVE  Meanwhile(0, Save(k, e))
BY DEF Save, Meanwhile, Innocent

LEMMA InnocentNeeding ==
  ASSUME NEW k, NEW r, All(0, r)
  PROVE  All(0, Needing(k, r))
<1>1. PICK f : f = [Find(k) EXCEPT !.skip = Len(r)]
  OBVIOUS
<1>2. Innocent(f)
  BY <1>1 DEF Find, Innocent
<1>3. Needing(k, r) = << f >> \o r
  BY <1>1 DEF Needing
<1> QED
  BY <1>2, <1>3, AllOne, AllJoined DEF Meanwhile

LEMMA InnocentSavePlain ==
  ASSUME NEW k, NEW e, e.of # "minimal", ~IsSetting(k), NEW r, All(0, r)
  PROVE  All(0, Needing(k, << Save(k, e) >> \o r)) /\ All(0, Needing(k, << Save(k, e) >>))
<1>1. All(0, << Save(k, e) >>)
  BY InnocentSave, AllOne
<1> QED
  BY <1>1, AllJoined, InnocentNeeding

\* The rollup.
LEMMA HarmlessTagged ==
  ASSUME NEW s, Harmless(s), {"op", "key"} \subseteq DOMAIN s, s.op = "find" => "skip" \in DOMAIN s,
         s.op = "save" => "edit" \in DOMAIN s
  PROVE  Harmless(InRollup(s))
<1>1. \A c \in DOMAIN s \ {"rollup"} : InRollup(s)[c] = s[c]
  BY DEF InRollup, Over
<1>2. InRollup(s)["op"] = s["op"] /\ InRollup(s)["key"] = s["key"]
  BY <1>1
<1>3. s.op = "find" => InRollup(s)["skip"] = s["skip"]
  BY <1>1
<1>4. s.op = "save" => InRollup(s)["edit"] = s["edit"]
  BY <1>1
<1> QED
  BY <1>2, <1>3, <1>4 DEF Harmless

LEMMA AllRollup ==
  ASSUME NEW n, NEW d, NEW delta
  PROVE  All(n, Rollup(d, delta)) /\ \A i \in 1..Len(Rollup(d, delta)) : Harmless(Rollup(d, delta)[i])
<1> DEFINE m == Len(Resolutions)
           turns == ChangeEach(m, LAMBDA j : Bucket(Resolutions[j], d),
                               LAMBDA j : bumpBucket(Resolutions[j], delta))
           all == << EnsureTotals >> \o turns
           p == Rollup(d, delta)
<1>1. m \in Nat /\ 2 * m \in Nat /\ \A j \in 1..m : j \in DOMAIN Resolutions
  BY SpotRowsAssumption
<1>2. turns = [i \in 1..(2 * m) |-> LET j == (i + 1) \div 2 IN
                 IF i % 2 = 1 THEN Find(Bucket(Resolutions[j], d))
                 ELSE Save(Bucket(Resolutions[j], d), bumpBucket(Resolutions[j], delta))]
  BY DEF ChangeEach
<1>3. p = [i \in DOMAIN all |-> InRollup(all[i])]
  BY DEF Rollup
<1> HIDE DEF m, turns, p
<1>4. Sequence(turns) /\ Len(turns) = 2 * m
  <2>1. turns = [i \in 1..(2 * m) |-> turns[i]]
    BY <1>2
  <2> QED
    BY <1>1, <2>1, MadeSequence
<1>5. /\ Sequence(all) /\ Len(all) = 1 + 2 * m /\ all[1] = EnsureTotals
      /\ \A i \in 1..(2 * m) : all[1 + i] = turns[i]
  <2>1. /\ Sequence(<< EnsureTotals >>) /\ Len(<< EnsureTotals >>) = 1
        /\ << EnsureTotals >>[1] = EnsureTotals
    BY OneSequence
  <2> QED
    BY <1>4, <2>1, Joined
<1> HIDE DEF all
<1>6. DOMAIN all = 1..(1 + 2 * m)
  BY <1>1, <1>5 DEF Sequence
<1>7. Sequence(p) /\ Len(p) = 1 + 2 * m
  <2>1. p = [i \in 1..(1 + 2 * m) |-> p[i]]
    BY <1>3, <1>6
  <2> QED
    BY <1>1, <2>1, MadeSequence
<1>8. Harmless(InRollup(EnsureTotals))
  BY DEF InRollup, Over, EnsureTotals, Upsert, Harmless, IsSetting, Totals
<1>9. ASSUME NEW j \in 1..m
      PROVE  /\ Harmless(InRollup(Find(Bucket(Resolutions[j], d))))
             /\ Harmless(InRollup(Save(Bucket(Resolutions[j], d), bumpBucket(Resolutions[j], delta))))
  <2>1. PICK k, e : k = Bucket(Resolutions[j], d) /\ e = bumpBucket(Resolutions[j], delta)
    OBVIOUS
  <2>2. k[1] # "pair" /\ e.of = "bump" /\ ~IsSetting(k)
    BY <1>1, <2>1, SpotRowsAssumption DEF Bucket, bumpBucket, IsSetting
  <2>3. Harmless(InRollup(Find(k)))
    BY DEF InRollup, Over, Find, Harmless
  <2>4. Harmless(InRollup(Save(k, e)))
    BY <2>2 DEF InRollup, Over, Save, Harmless
  <2> QED
    BY <2>1, <2>3, <2>4
<1>10. ASSUME NEW i \in 1..(1 + 2 * m) PROVE Harmless(p[i])
  <2>1. p[i] = InRollup(all[i])
    BY <1>3, <1>6
  <2>2. CASE i = 1
    BY <1>5, <1>8, <2>1, <2>2
  <2>3. CASE i # 1
    <3>1. PICK h : h = i - 1
      OBVIOUS
    <3>2. h \in 1..(2 * m) /\ 1 + h = i /\ (h + 1) \div 2 \in 1..m
      BY <1>1, <2>3, <3>1
    <3>3. all[i] = turns[h]
      BY <1>5, <3>2
    <3> QED
      BY <1>2, <1>9, <2>1, <3>2, <3>3
  <2> QED
    BY <2>2, <2>3
<1>11. All(n, p)
  BY <1>7, <1>10, HarmlessMeans DEF All
<1> QED
  BY <1>7, <1>10, <1>11 DEF p

LEMMA AllRecords ==
  ASSUME NEW n, NEW d
  PROVE  /\ All(n, recordNewPair(d)) /\ All(n, recordSwapVolumeAndTrade(d))
         /\ All(n, recordLiquidityTvlUsd(d))
BY AllRollup DEF recordNewPair, recordSwapVolumeAndTrade, recordLiquidityTvlUsd

LEMMA AllCount ==
  ASSUME NEW n, NEW s, NEW res
  PROVE  /\ All(n, Following(s, CountBucket(res)))
         /\ \A q : q = Following(s, CountBucket(res)) => \A i \in 1..Len(q) : Harmless(q[i])
<1>1. PICK e : e = [of |-> "count", res |-> res]
  OBVIOUS
<1>2. PICK f : f = [Find(Totals) EXCEPT !.skip = Len(<< Save(Totals, e) >>)]
  OBVIOUS
<1>3. /\ Harmless(f) /\ Harmless(InRollup(f))
      /\ Harmless(EnsureTotals) /\ Harmless(InRollup(EnsureTotals))
      /\ Harmless(Save(Totals, e)) /\ Harmless(InRollup(Save(Totals, e)))
  <2>1. Len(<< Save(Totals, e) >>) = 1
    BY OneSequence
  <2>2. f = [op |-> "find", key |-> Totals, skip |-> 1]
    BY <1>2, <2>1 DEF Find
  <2>3. Harmless(f) /\ Harmless(InRollup(f))
    BY <2>2 DEF Harmless, InRollup, Over
  <2>4. Harmless(EnsureTotals) /\ Harmless(InRollup(EnsureTotals))
    BY DEF InRollup, Over, EnsureTotals, Upsert, Harmless, IsSetting, Totals
  <2>5. Harmless(Save(Totals, e)) /\ Harmless(InRollup(Save(Totals, e)))
    BY <1>1 DEF InRollup, Over, Save, Harmless, Totals, IsSetting
  <2> QED
    BY <2>3, <2>4, <2>5
<1>4. PICK c : c = CountBucket(res)
  OBVIOUS
<1>5. c = << EnsureTotals >> \o (<< f >> \o << Save(Totals, e) >>)
  BY <1>1, <1>2, <1>4 DEF CountBucket, Needing
<1>6. PICK w : w = << f >> \o << Save(Totals, e) >>
  OBVIOUS
<1>7. /\ Sequence(w) /\ Len(w) = 2 /\ w[1] = f /\ w[2] = Save(Totals, e)
  <2>1. PICK t : t = Save(Totals, e)
    OBVIOUS
  <2>2. << f, t >> = << f >> \o << t >>
    BY TwoJoined
  <2>3. Sequence(<< f, t >>) /\ Len(<< f, t >>) = 2 /\ << f, t >>[1] = f /\ << f, t >>[2] = t
    BY TwoSequence
  <2>4. w = << f, t >>
    BY <1>6, <2>1, <2>2
  <2> QED
    BY <2>1, <2>3, <2>4
<1>8. /\ Sequence(c) /\ Len(c) = 3 /\ c[1] = EnsureTotals /\ c[2] = f /\ c[3] = Save(Totals, e)
  <2>1. PICK v : v = << EnsureTotals >>
    OBVIOUS
  <2>2. Sequence(v) /\ Len(v) = 1 /\ v[1] = EnsureTotals
    BY <2>1, OneSequence
  <2>3. /\ Sequence(c) /\ Len(c) = Len(v) + Len(w)
        /\ \A i \in 1..Len(v) : c[i] = v[i]
        /\ \A i \in 1..Len(w) : c[Len(v) + i] = w[i]
    BY <1>5, <1>6, <1>7, <2>1, <2>2, Joined
  <2>4. c[1] = v[1] /\ c[1 + 1] = w[1] /\ c[1 + 2] = w[2]
    BY <1>7, <2>2, <2>3
  <2> QED
    BY <1>7, <2>2, <2>3, <2>4
<1>9. \A i \in 1..Len(c) : Harmless(c[i]) /\ Harmless(InRollup(c[i]))
  <2> TAKE i \in 1..Len(c)
  <2>1. i = 1 \/ i = 2 \/ i = 3
    BY <1>8
  <2> QED
    BY <1>3, <1>8, <2>1
<1>10. PICK q : q = Following(s, c)
  OBVIOUS
<1>11. /\ Sequence(q) /\ Len(q) = Len(c)
       /\ \A i \in 1..Len(c) : q[i] = IF Tagged(s) THEN InRollup(c[i]) ELSE c[i]
  BY <1>8, <1>10, FollowingColumns
<1>12. \A i \in 1..Len(q) : Harmless(q[i])
  BY <1>9, <1>11
<1> QED
  BY <1>4, <1>10, <1>11, <1>12, HarmlessMeans DEF All
-----------------------------------------------------------------------------
(* The programs that set nothing.                                          *)

LEMMA AllTwo ==
  ASSUME NEW n, NEW s, NEW t, Meanwhile(n, s), Meanwhile(n, t)
  PROVE  All(n, << s, t >>)
<1>1. << s, t >> = << s >> \o << t >>
  BY TwoJoined
<1> QED
  BY <1>1, AllOne, AllJoined

LEMMA AllAccount ==
  ASSUME NEW e
  PROVE  All(0, recordSwap(e)) /\ All(0, recordLiquidityAdded(e))
<1>1. /\ ~IsSetting(Account)
      /\ \A i : ~IsSetting(Notification(i)) /\ ~IsSetting(Provision(i))
  BY DEF IsSetting, Account, Notification, Provision
<1>2. ASSUME NEW k, NEW r, ~IsSetting(k) PROVE Innocent(Insert(k, r))
  BY <1>2 DEF Insert, Upsert, Innocent
<1>3. ASSUME NEW d, NEW t PROVE All(0, TouchAccount(d, t))
  <2>1. PICK u, v : /\ u = Insert(Account, NewAccount)
                    /\ v = Compute({Account}, [of |-> "account", day |-> d, trades |-> t])
    OBVIOUS
  <2>2. Innocent(u) /\ Innocent(v)
    BY <1>1, <1>2, <2>1 DEF Compute, Innocent
  <2>3. TouchAccount(d, t) = << u, v >>
    BY <2>1 DEF TouchAccount
  <2> QED
    BY <2>2, <2>3, AllTwo DEF Meanwhile
<1>4. PICK u : u = Insert(Notification(e.id), [read |-> FALSE])
  OBVIOUS
<1>5. PICK v : v = Insert(Provision(e.id), [of |-> "mint"])
  OBVIOUS
<1>6. Innocent(u) /\ Innocent(v)
  BY <1>1, <1>2, <1>4, <1>5
<1>7. All(0, << u >>) /\ All(0, << u, v >>)
  BY <1>6, AllOne, AllTwo DEF Meanwhile
<1>8. recordSwap(e) = << u >> \o TouchAccount(e.day, 1)
  BY <1>4 DEF recordSwap
<1>9. recordLiquidityAdded(e) = << u, v >> \o TouchAccount(e.day, 0)
  BY <1>4, <1>5 DEF recordLiquidityAdded
<1> QED
  BY <1>3, <1>7, <1>8, <1>9, AllJoined

LEMMA AllMint ==
  ASSUME NEW p, NEW e
  PROVE  All(0, onLiquidityAdded(p, e))
<1>1. PICK k, mint, usd, token :
        /\ k = Pair(p) /\ mint = [of |-> "mintPair", day |-> e.day] /\ usd = [of |-> "mintUsd"]
        /\ token = [of |-> "mintToken", day |-> e.day]
  OBVIOUS
<1>2. mint.of # "minimal" /\ usd.of # "minimal" /\ token.of # "minimal"
  BY <1>1
<1>3. PICK u, v, w, x :
        /\ u = << Save(k, mint) >> /\ v = Needing(k, << Save(k, usd) >>)
        /\ w = bumpTokenLiquidityFromMint(e.day) /\ x = recordLiquidityTvlUsd(e.day)
  OBVIOUS
<1>4. All(0, u) /\ All(0, v) /\ All(0, w) /\ All(0, x)
  <2>1. All(0, u)
    BY <1>1, <1>2, <1>3, InnocentSave, AllOne, NoSettings
  <2>2. All(0, v)
    BY <1>1, <1>2, <1>3, AllEmpty, InnocentSavePlain, NoSettings
  <2>3. w = Change(SpotToken, token)
    BY <1>1, <1>3 DEF bumpTokenLiquidityFromMint
  <2>4. All(0, w)
    BY <1>2, <2>3, InnocentSave, AllChange, NoSettings
  <2>5. All(0, x)
    BY <1>3, AllRecords
  <2> QED
    BY <2>1, <2>2, <2>4, <2>5
<1>5. All(0, ((u \o v) \o w) \o x)
  BY <1>4, AllJoined
<1>6. incrementPairLiquidityFromAmounts(p, e.day) = Needing(k, ((u \o v) \o w) \o x)
  BY <1>1, <1>3 DEF incrementPairLiquidityFromAmounts
<1>7. PICK r : r = ((u \o v) \o w) \o x
  OBVIOUS
<1>8. All(0, Needing(k, r))
  BY <1>5, <1>7, InnocentNeeding
<1> QED
  BY <1>6, <1>7, <1>8, AllAccount, AllJoined DEF onLiquidityAdded

LEMMA AllTurns ==
  ASSUME NEW m \in Nat, NEW p, NEW K, NEW e, e.of # "minimal", \A j \in 1..m : ~IsSetting(K[j]),
         p = [i \in 1..(2 * m) |-> LET j == (i + 1) \div 2 IN
                IF i % 2 = 1 THEN Find(K[j]) ELSE Save(K[j], e)]
  PROVE  All(0, p)
<1>1. Sequence(p) /\ Len(p) = 2 * m
  <2>1. p = [i \in 1..(2 * m) |-> p[i]] /\ 2 * m \in Nat
    OBVIOUS
  <2> QED
    BY <2>1, MadeSequence
<1>2. \A k : Innocent(Find(k)) /\ (~IsSetting(k) => Innocent(Save(k, e)))
  BY DEF Innocent, Find, Save
<1>3. \A i \in 1..Len(p) : Innocent(p[i])
  <2> TAKE i \in 1..Len(p)
  <2>1. (i + 1) \div 2 \in 1..m
    BY <1>1
  <2> QED
    BY <1>1, <1>2, <2>1
<1> QED
  BY <1>1, <1>3 DEF All, Meanwhile

LEMMA AllConcentrated ==
  ASSUME NEW p, NEW e, e.lo \in Int, e.hi \in Int
  PROVE  All(0, onCLLiquidityAdded(p, e))
<1>1. ASSUME NEW i, NEW end PROVE All(0, bumpTickLiquidity(p, i, end))
  <2>1. PICK x : x = [of |-> "tick", end |-> end]
    OBVIOUS
  <2>2. x.of # "minimal" /\ bumpTickLiquidity(p, i, end) = Change(Tick(p, i), x)
    BY <2>1 DEF bumpTickLiquidity
  <2> QED
    BY <2>2, InnocentSave, AllChange, NoSettings
<1>2. All(0, applyClTickBoundaryLiquidity(p, e.lo, e.hi))
  BY <1>1, AllJoined DEF applyClTickBoundaryLiquidity
<1>3. All(0, applyClLiquidityHistogram(p, e.lo, e.hi))
  <2> DEFINE bars == clHistogramBucketsForRange(e.lo, e.hi)
             n == Len(bars)
             q == applyClLiquidityHistogram(p, e.lo, e.hi)
  <2>1. n \in Nat
    BY BarsCounted
  <2>2. PICK x : x = [of |-> "bar"]
    OBVIOUS
  <2>3. PICK K : K = [j \in 1..n |-> Bar(p, bars[j])]
    OBVIOUS
  <2>4. q = [i \in 1..(2 * n) |-> LET j == (i + 1) \div 2 IN
               IF i % 2 = 1 THEN Find(Bar(p, bars[j])) ELSE Save(Bar(p, bars[j]), x)]
    BY <2>2 DEF applyClLiquidityHistogram, ChangeEach
  <2> HIDE DEF bars, n, q
  <2>5. \A i \in 1..(2 * n) : K[(i + 1) \div 2] = Bar(p, bars[(i + 1) \div 2])
    <3> TAKE i \in 1..(2 * n)
    <3>1. (i + 1) \div 2 \in 1..n
      BY <2>1
    <3> QED
      BY <2>3, <3>1
  <2>6. q = [i \in 1..(2 * n) |-> LET j == (i + 1) \div 2 IN
               IF i % 2 = 1 THEN Find(K[j]) ELSE Save(K[j], x)]
    BY <2>4, <2>5
  <2>7. x.of # "minimal"
    BY <2>2
  <2>8. All(0, q)
    <3>1. \A j \in 1..n : ~IsSetting(K[j])
      BY <2>3, NoSettings
    <3> QED
      BY <2>1, <2>6, <2>7, <3>1, AllTurns
  <2> QED
    BY <2>8 DEF q
<1> QED
  BY <1>2, <1>3, AllMint, AllJoined DEF onCLLiquidityAdded

LEMMA AllTrade ==
  ASSUME NEW T, NEW e
  PROVE  All(0, onSwapCandles(T, e))
<1>1. PICK c, q : c = Candle(e.day, 1) /\ q = Query([of |-> "backfill"])
  OBVIOUS
<1>2. All(0, << c, q >>)
  <2>1. Innocent(c)
    BY <1>1 DEF Candle, Innocent
  <2>2. q.op = "query" /\ q.of = "backfill"
    BY <1>1 DEF Query, Over
  <2>3. Innocent(q)
    BY <2>2 DEF Innocent
  <2> QED
    BY <2>1, <2>3, AllTwo DEF Meanwhile
<1>3. PICK x, y : x = [of |-> "tradePair", day |-> e.day] /\ y = [of |-> "tradeToken", day |-> e.day]
  OBVIOUS
<1>4. x.of # "minimal" /\ y.of # "minimal"
  BY <1>3
<1>5. PICK u : u = IF T = {} THEN << >> ELSE Change(Pair(CHOOSE p \in T : TRUE), x)
  OBVIOUS
<1>6. PICK v : v = Change(SpotToken, y)
  OBVIOUS
<1>7. All(0, u) /\ All(0, v)
  <2>1. \A k : ~IsSetting(k) => All(0, Change(k, x)) /\ All(0, Change(k, y))
    BY <1>4, InnocentSave, AllChange
  <2> QED
    BY <1>5, <1>6, <2>1, AllEmpty, NoSettings
<1>8. refreshSpotPairAndTokenProfiles(T, e) = ((u \o v) \o recordSwapVolumeAndTrade(e.day)) \o recordSwap(e)
  BY <1>3, <1>5, <1>6 DEF refreshSpotPairAndTokenProfiles
<1>9. All(0, refreshSpotPairAndTokenProfiles(T, e))
  BY <1>7, <1>8, AllAccount, AllRecords, AllJoined
<1>10. onSwapCandles(T, e) = << c, q >> \o refreshSpotPairAndTokenProfiles(T, e)
  BY <1>1 DEF onSwapCandles
<1> QED
  BY <1>2, <1>9, <1>10, AllJoined

LEMMA AllAnswer ==
  ASSUME NEW q, QueryFits(q), q.of \notin {"tier", "custom"}
  PROVE  All(0, Answer(q))
<1>1. \A k, e : e.of # "minimal" /\ ~IsSetting(k) => All(0, Needing(k, << Save(k, e) >>))
  BY AllEmpty, InnocentSavePlain
<1>2. CASE q.of = "mint"
  <2>1. Answer(q) = Mint(q)
    BY <1>2 DEF Answer
  <2>2. CASE CL(q.pool)
    <3>1. CASE ResolveCL(q.pool) = {}
      <4>1. Answer(q) = << Raise >> /\ Innocent(Raise)
        BY <2>1, <2>2, <3>1 DEF Mint, Raise, Innocent
      <4> QED
        BY <4>1, AllOne DEF Meanwhile
    <3>2. CASE ResolveCL(q.pool) # {}
      <4>1. \E p : Answer(q) = onCLLiquidityAdded(p, q)
        BY <2>1, <2>2, <3>2 DEF Mint, ForPool
      <4>2. q.lo \in Int /\ q.hi \in Int
        BY <1>2, <2>2 DEF QueryFits
      <4> QED
        BY <4>1, <4>2, AllConcentrated
    <3> QED
      BY <3>1, <3>2
  <2>3. CASE ~CL(q.pool)
    <3>1. Answer(q) = << >> \/ \E p : Answer(q) = onLiquidityAdded(p, q)
      BY <2>1, <2>3 DEF Mint, ForPool
    <3> QED
      BY <3>1, AllEmpty, AllMint
  <2> QED
    BY <2>2, <2>3
<1>3. CASE q.of = "claim"
  <2>1. PICK s : s = Insert(Claim(q.id), [pool |-> PoolOfReward(q)])
    OBVIOUS
  <2>2. Answer(q) = << s >>
    BY <1>3, <2>1 DEF Answer
  <2>3. s.op = "upsert" /\ s.key[1] = "claim"
    BY <2>1, Keys DEF Insert, Upsert
  <2>4. Innocent(s)
    BY <2>3 DEF Innocent, IsSetting
  <2> QED
    BY <2>2, <2>4, AllOne DEF Meanwhile
<1>4. CASE q.of = "swap"
  <2>1. Answer(q) = << >> \/ \E p : Answer(q) = onSwapReserves(p)
    BY <1>4 DEF Answer, ForPool
  <2>2. ASSUME NEW p PROVE All(0, onSwapReserves(p))
    <3>1. PICK s : s = Set(Pair(p), {"liquidity", "price"}, [of |-> "swap"])
      OBVIOUS
    <3>2. Innocent(s)
      BY <3>1 DEF Set, Innocent
    <3>3. onSwapReserves(p) = Needing(Pair(p), << s >>)
      BY <3>1 DEF onSwapReserves
    <3> QED
      BY <3>2, <3>3, AllOne, InnocentNeeding DEF Meanwhile
  <2> QED
    BY <2>1, <2>2, AllEmpty
<1>5. CASE q.of = "trade"
  BY <1>5, AllTrade DEF Answer
<1>6. CASE q.of = "candles"
  <2>1. Innocent(Candle(q.day, 0))
    BY DEF Candle, Innocent
  <2>2. Answer(q) = << >> \/ Answer(q) = << Candle(q.day, 0) >>
    BY <1>6 DEF Answer
  <2> QED
    BY <2>1, <2>2, AllOne, AllEmpty DEF Meanwhile
<1>7. CASE q.of = "backfill"
  <2>1. PICK x : x = [of |-> "backfill"]
    OBVIOUS
  <2>2. x.of # "minimal" /\ flushBfFieldsForTokenChunk = Needing(SpotToken, << Save(SpotToken, x) >>)
    BY <2>1 DEF flushBfFieldsForTokenChunk
  <2>3. Answer(q) = << >> \/ Answer(q) = flushBfFieldsForTokenChunk
    BY <1>7 DEF Answer, Backfill
  <2> QED
    BY <1>1, <2>2, <2>3, AllEmpty, NoSettings
<1>8. CASE q.of = "measure"
  <2>1. PICK x : x = [of |-> "measure", day |-> q.day, volume |-> candle[q.day]]
    OBVIOUS
  <2>2. x.of # "minimal"
    BY <2>1
  <2>3. Answer(q) = << >> \/ Answer(q) = Needing(SpotToken, << Save(SpotToken, x) >>)
    BY <1>8, <2>1 DEF Answer, Measure, flushSpotTokenProfileMetricsChunk
  <2> QED
    BY <1>1, <2>2, <2>3, AllEmpty, NoSettings
<1> QED
  BY <1>2, <1>3, <1>4, <1>5, <1>6, <1>7, <1>8 DEF QueryFits

LEMMA AllCron ==
  ASSUME NEW d
  PROVE  All(0, ensureWallClockBuckets(d))
<1>1. PICK u, v, w : /\ u = Query([of |-> "candles", day |-> d]) /\ v = Query([of |-> "backfill"])
                     /\ w = Query([of |-> "measure", day |-> d])
  OBVIOUS
<1>2. /\ u.op = "query" /\ u.of = "candles" /\ v.op = "query" /\ v.of = "backfill"
      /\ w.op = "query" /\ w.of = "measure"
  BY <1>1 DEF Query, Over
<1>3. Innocent(u) /\ Innocent(v) /\ Innocent(w)
  BY <1>2 DEF Innocent
<1>4. All(0, << u >>) /\ All(0, << v, w >>)
  BY <1>3, AllOne, AllTwo DEF Meanwhile
<1>5. ensureWallClockBuckets(d) = (<< u >> \o Rollup(d, NewBucket)) \o << v, w >>
  BY <1>1 DEF ensureWallClockBuckets
<1> QED
  BY <1>4, <1>5, AllRollup, AllJoined

LEMMA AllCatalog ==
  ASSUME NEW p, NEW v
  PROVE  All(0, setTokenListed(v)) /\ All(0, setPairListed(p, v)) /\ All(0, setListed(p, v))
<1>1. ASSUME NEW w PROVE List(w).of # "minimal"
  BY DEF List
<1>2. ASSUME NEW w PROVE All(0, setTokenListed(w))
  BY <1>1, AllEmpty, InnocentSavePlain, NoSettings DEF setTokenListed
<1>3. All(0, setPairListed(p, v))
  <2>1. PICK r : r = IF v THEN setTokenListed(TRUE) ELSE << >>
    OBVIOUS
  <2>2. setPairListed(p, v) = Needing(Pair(p), << Save(Pair(p), List(v)) >> \o r)
    BY <2>1 DEF setPairListed
  <2>3. All(0, r)
    BY <1>2, <2>1, AllEmpty
  <2> QED
    BY <1>1, <2>2, <2>3, InnocentSavePlain, NoSettings
<1>4. All(0, setListed(p, v))
  <2>1. Innocent(Update({Pair(p)}, AnySource, [listed |-> v]))
    BY DEF Update, Innocent
  <2> QED
    BY <2>1, AllOne DEF setListed, Meanwhile
<1> QED
  BY <1>2, <1>3, <1>4
-----------------------------------------------------------------------------
(* What the log may be.                                                    *)

LEMMA EventTyped ==
  ASSUME NEW s, NEW t \in EventTypes, NEW d, NEW e \in Event(s, t, d)
  PROVE  e.type = t
<1>1. CASE t \in {"created", "setFee", "customFee", "moduleFee", "capSet", "feeReset"}
  BY <1>1 DEF Event
<1>2. CASE t \in {"default", "discount", "undiscount", "whitelist", "swap", "gauge", "claim", "stake"}
  BY <1>2 DEF Event
<1>3. CASE t = "mint"
  <2>1. \/ e \in [type : {t}, pool : {p \in s.pools : ~CL(p)}, day : {d}]
        \/ \E p \in s.pools, r \in s.ranges :
             e = [type |-> t, pool |-> p, day |-> d, lo |-> r.lo, hi |-> r.hi]
    BY <1>3 DEF Event
  <2> QED
    BY <2>1
<1> QED
  BY <1>1, <1>2, <1>3 DEF EventTypes

LEMMA LogFacts ==
  ASSUME scenario \in Scenarios, log \in Logs(scenario)
  PROVE  /\ DOMAIN log = 1..Len(scenario.shape) /\ Len(scenario.shape) \in Nat
         /\ \A n \in DOMAIN log :
              /\ n \in Nat \ {0} /\ EventFits(log[n]) /\ Kind(n) = log[n].type
              /\ log[n].type = "customFee" => ~CL(log[n].pool)
              /\ log[n].type \in {"moduleFee", "capSet", "feeReset"} => CL(log[n].pool)
              /\ log[n].type = "whitelist" =>
                   {"side", "on"} \subseteq DOMAIN log[n] /\ log[n].side \in Side /\ log[n].on \in BOOLEAN
<1>1. DOMAIN log = DOMAIN scenario.shape /\ \A n \in DOMAIN log : log[n] \in Events(scenario, n)
  BY DEF Logs, Drawn
<1>2. DOMAIN log = 1..Len(scenario.shape) /\ Len(scenario.shape) \in Nat
  BY <1>1, ScenariosAssumption
<1>3. ASSUME NEW n \in DOMAIN log
      PROVE  /\ log[n].type = "customFee" => ~CL(log[n].pool)
             /\ log[n].type \in {"moduleFee", "capSet", "feeReset"} => CL(log[n].pool)
             /\ log[n].type = "whitelist" =>
                  {"side", "on"} \subseteq DOMAIN log[n] /\ log[n].side \in Side /\ log[n].on \in BOOLEAN
  <2>1. PICK t \in scenario.shape[n], d \in 1..scenario.days : log[n] \in Event(scenario, t, d)
    BY <1>1 DEF Events
  <2>2. t \in EventTypes
    BY <1>1, ScenariosAssumption
  <2>3. log[n].type = t
    BY <2>1, <2>2, EventTyped
  <2>4. CASE t = "customFee"
    <3>1. log[n].pool \in {p \in scenario.pools : ~CL(p)}
      BY <2>1, <2>4 DEF Event
    <3> QED
      BY <2>3, <2>4, <3>1
  <2>5. CASE t \in {"moduleFee", "capSet", "feeReset"}
    <3>1. log[n].pool \in {p \in scenario.pools : CL(p)}
      BY <2>1, <2>5 DEF Event
    <3> QED
      BY <2>3, <2>5, <3>1
  <2>6. CASE t = "whitelist"
    BY <2>1, <2>3, <2>6 DEF Event
  <2> QED
    BY <2>3, <2>4, <2>5, <2>6
<1>4. \A n \in DOMAIN log : EventFits(log[n])
  BY <1>1, DrawnFits
<1> QED
  BY <1>2, <1>3, <1>4 DEF Kind

PoolSettings == {"customFee", "moduleFee", "capSet", "feeReset"}

\* A pool is set after its creation, which is reported once, or twice in a row.
LEMMA CreatedOnce ==
  ASSUME scenario \in Scenarios, log \in Logs(scenario), NEW p, NEW C, C = Of("created", p, log)
  PROVE  /\ \A n \in DOMAIN log :
              log[n].type \in PoolSettings /\ log[n].pool = p => C # {} /\ \A m \in C : m < n
         /\ \A l, m \in C, n \in Typed({"whitelist"}) : n < l => n < m
         /\ ~CL(p) => \A l, m \in C : l = m
<1>1. C \subseteq DOMAIN log /\ DOMAIN log \subseteq Nat
  BY LogFacts DEF Of
<1>2. \A n \in DOMAIN log :
        log[n].type \notin Anywhere /\ log[n].pool = p =>
          /\ C # {} /\ Min(C) <= n
          /\ log[n].type = "created" => n = Min(C) \/ (CL(p) /\ n = Min(C) + 1)
  BY DEF Logs, Feasible
<1>3. C # {} => Min(C) \in C
  BY <1>1, LeastOf
<1>4. \A m \in C : log[m].type = "created" /\ log[m].pool = p /\ m \in Nat
  BY <1>1 DEF Of
<1>5. PICK o : o = Min(C)
  OBVIOUS
<1>6. \A m \in C : o \in C /\ o \in Nat /\ (m = o \/ (CL(p) /\ m = o + 1))
  BY <1>1, <1>2, <1>3, <1>4, <1>5 DEF Anywhere
<1>7. ASSUME NEW n \in DOMAIN log, log[n].type \in PoolSettings, log[n].pool = p
      PROVE  C # {} /\ \A m \in C : m < n
  <2>1. C # {} /\ o <= n /\ o \in C
    BY <1>2, <1>3, <1>5, <1>7 DEF Anywhere, PoolSettings
  <2>2. n \notin C /\ n \in Nat
    BY <1>1, <1>4, <1>7 DEF PoolSettings
  <2> QED
    BY <1>6, <2>1, <2>2
<1>8. ASSUME NEW l \in C, NEW m \in C, NEW n \in Typed({"whitelist"}), n < l
      PROVE  n < m
  <2>1. n \notin C /\ n \in Nat
    BY <1>1, <1>4 DEF Typed
  <2> QED
    BY <1>6, <1>8, <2>1
<1> QED
  BY <1>6, <1>7, <1>8

-----------------------------------------------------------------------------
(* The programs of the settings.                                           *)

Column(k, c) ==
  <<k, c>> \in Cells \/ \E p \in Pool : k = Pair(p) /\ c \in {"own", "tier", "created", "gauge"}

\* Which event sets what.
LEMMA SetOf ==
  ASSUME NEW k, NEW c, Column(k, c), NEW n \in SetBy(k, c), NEW e, e = log[n]
  PROVE  /\ n \in DOMAIN log
         /\ \/ e.type = "default" /\ k = Defaults /\ c = "value"
            \/ e.type \in {"discount", "undiscount"} /\ k = Discount /\ c = "value"
            \/ e.type = "setFee" /\ k = Tiers /\ c = e.class
            \/ e.type = "setFee" /\ c = "tier" /\ \E p \in Pool : k = Pair(p) /\ Class[p] = e.class
            \/ e.type = "whitelist" /\ k = Whitelisted(e.side) /\ c = "on"
            \/ e.type = "whitelist" /\ c = "gauge" /\ \E p \in Pool : k = Pair(p)
            \/ e.type = "moduleFee" /\ k = Curve(e.pool) /\ c = "base"
            \/ e.type \in {"capSet", "feeReset"} /\ k = Curve(e.pool) /\ c = "cap"
            \/ e.type \in {"moduleFee", "feeReset"} /\ CL(e.pool) /\ k = Pair(e.pool) /\ c = "own"
            \/ e.type = "customFee" /\ ~CL(e.pool) /\ k = Pair(e.pool) /\ c = "own"
            \/ e.type = "created" /\ k = Pair(e.pool) /\ (c = "created" \/ (c = "own" /\ CL(e.pool)))
<1>1. n \in DOMAIN log
  BY SetByEvents
<1>2. CASE <<k, c>> \in {<<Defaults, "value">>, <<Discount, "value">>}
  <2>1. (k = Defaults \/ k = Discount) /\ c = "value"
    BY <1>2
  <2> QED
    BY <1>1, <2>1, SetByCells DEF Typed
<1>3. ASSUME NEW p \in Pool, k = Curve(p), c \in {"base", "cap"}
      PROVE  \/ e.type = "moduleFee" /\ k = Curve(e.pool) /\ c = "base"
             \/ e.type \in {"capSet", "feeReset"} /\ k = Curve(e.pool) /\ c = "cap"
  BY <1>3, SetByCells DEF Of
<1>4. ASSUME NEW side \in Side, k = Whitelisted(side), c = "on"
      PROVE  e.type = "whitelist" /\ k = Whitelisted(e.side)
  BY <1>4, SetByCells DEF Typed
<1>5. CASE k = Tiers
  BY <1>1, <1>5, SetByCells DEF Typed
<1>6. ASSUME NEW p \in Pool, k = Pair(p), c \in {"own", "tier", "created", "gauge"}
      PROVE  \/ e.type = "setFee" /\ c = "tier" /\ Class[p] = e.class
             \/ e.type = "whitelist" /\ c = "gauge"
             \/ e.type \in {"moduleFee", "feeReset"} /\ CL(e.pool) /\ e.pool = p /\ c = "own"
             \/ e.type = "customFee" /\ ~CL(e.pool) /\ e.pool = p /\ c = "own"
             \/ e.type = "created" /\ e.pool = p /\ (c = "created" \/ (c = "own" /\ CL(e.pool)))
  BY <1>6, SetByPairs DEF Typed, Of
<1>7. \/ <<k, c>> \in {<<Defaults, "value">>, <<Discount, "value">>}
      \/ \E p \in Pool : k = Curve(p) /\ c \in {"base", "cap"}
      \/ \E side \in Side : k = Whitelisted(side) /\ c = "on"
      \/ k = Tiers
      \/ \E p \in Pool : k = Pair(p) /\ c \in {"own", "tier", "created", "gauge"}
  BY DEF Column, Cells
<1> QED
  BY <1>1, <1>2, <1>3, <1>4, <1>5, <1>6, <1>7

\* One or two statements of an event.
LEMMA SownBy ==
  ASSUME NEW n, Kind(n) \in SettingTypes, NEW p, Sequence(p), NEW s, NEW t,
         \A i \in 1..Len(p) : p[i] = s \/ p[i] = t, Sows(n, s), Sows(n, t),
         s.op = "upsert" => s.key[1] # "whitelisted", t.op = "upsert" => t.key[1] # "whitelisted"
  PROVE  Ahead(n, p)
<1>1. "created" \notin SettingTypes
  BY DEF SettingTypes
<1>2. Followed(n, p)
  BY <1>1 DEF Followed
<1> QED
  BY <1>2 DEF Ahead, Means

LEMMA BesideParts ==
  ASSUME NEW u, NEW v, NEW p, p = Beside(<< u >>, << v >>) \/ p = Reverse(Beside(<< u >>, << v >>)),
         NEW s, s = Over([beside |-> TRUE], u), NEW t, t = Over([beside |-> TRUE], v)
  PROVE  /\ Sequence(p) /\ Len(p) = 2 /\ \A i \in 1..Len(p) : p[i] = s \/ p[i] = t
         /\ \E i \in 1..Len(p) : p[i] = s
         /\ \E i \in 1..Len(p) : p[i] = t
<1> DEFINE both == << u >> \o << v >>
           b == Beside(<< u >>, << v >>)
<1>1. both = << u, v >>
  BY TwoJoined
<1>2. b = [i \in DOMAIN both |-> Over([beside |-> TRUE], both[i])]
  BY DEF Beside
<1> HIDE DEF both, b
<1>3. Sequence(both) /\ Len(both) = 2 /\ both[1] = u /\ both[2] = v
  BY <1>1, TwoSequence
<1>4. DOMAIN both = 1..2
  BY <1>3 DEF Sequence
<1>5. b = [i \in 1..2 |-> b[i]] /\ b[1] = s /\ b[2] = t
  BY <1>2, <1>3, <1>4
<1>6. Sequence(b) /\ Len(b) = 2
  BY <1>5, MadeSequence
<1>7. CASE p = b
  BY <1>5, <1>6, <1>7
<1>8. CASE p = Reverse(b)
  <2>1. p = [i \in 1..2 |-> b[(2 - i) + 1]]
    BY <1>6, <1>8 DEF Reverse
  <2>2. Sequence(p) /\ Len(p) = 2
    <3>1. p = [i \in 1..2 |-> p[i]]
      BY <2>1
    <3> QED
      BY <3>1, MadeSequence
  <2>3. p[1] = t /\ p[2] = s
    BY <1>5, <2>1
  <2> QED
    BY <2>2, <2>3
<1> QED
  BY <1>7, <1>8 DEF b

\* Of a curve's columns.
LEMMA CurveSown ==
  ASSUME NEW n, NEW e, e = log[n], NEW c \in {"base", "cap"},
         n \in SetBy(Curve(e.pool), c), NEW f, DOMAIN f = {c}, f[c] = Given(n), NEW s, s.op = "upsert",
         s.key = Curve(e.pool), s.patch = f, s.new = Over(f, NoCurve)
  PROVE  Sows(n, s) /\ s.key[1] # "whitelisted" /\ Sets(s, Curve(e.pool), c)
<1>1. Curve(e.pool)[1] = "curve" /\ IsSetting(Curve(e.pool)) /\ Blank(Curve(e.pool)) = NoCurve
  BY DEF Curve, IsSetting, Blank
<1>2. {c} \subseteq DOMAIN NoCurve
  BY DEF NoCurve
<1> QED
  BY <1>1, <1>2 DEF Sows, Sets
\* A program of a setting does all of it, and nothing else.
LEMMA SettingAhead ==
  ASSUME scenario \in Scenarios, log \in Logs(scenario), NEW n \in DOMAIN log,
         log[n].type \in SettingTypes, NEW p \in Programs(Over([id |-> n], log[n]))
  PROVE  Ahead(n, p) /\ \A k, c : Column(k, c) /\ n \in SetBy(k, c) => YetIn(p, k, c)
<1>1. PICK l, e : l = log[n] /\ e = Over([id |-> n], l)
  OBVIOUS
<1>2. /\ EventFits(l) /\ EventFits(e) /\ Kind(n) \in SettingTypes
      /\ l.type = "customFee" => ~CL(l.pool)
      /\ l.type \in {"moduleFee", "feeReset", "capSet"} => CL(l.pool)
      /\ l.type = "whitelist" => {"side", "on"} \subseteq DOMAIN l /\ l.side \in Side
  BY <1>1, LogFacts, IdentifiedFits
<1>3. \A c \in DOMAIN l : c # "id" => e[c] = l[c]
  BY <1>1 DEF Over
<1>4. e.type = l.type
  BY <1>2, <1>3 DEF EventFits
<1>5. l.type \in {"customFee", "moduleFee", "capSet", "feeReset"} => e.pool = l.pool
  BY <1>2, <1>3 DEF EventFits
<1>6. l.type \in {"setFee", "customFee", "moduleFee", "capSet", "default", "discount"} => e.bps = l.bps
  BY <1>2, <1>3 DEF EventFits
<1>7. l.type = "setFee" => e.class = l.class
  BY <1>2, <1>3 DEF EventFits
<1>8. l.type = "whitelist" => e.side = l.side /\ e.on = l.on
  <2>1. l.type = "whitelist" => e["side"] = l["side"] /\ e["on"] = l["on"]
    BY <1>2, <1>3
  <2> QED
    BY <2>1
<1>9. /\ l.type \in {"feeReset", "undiscount"} => Given(n) = Unset
      /\ l.type = "whitelist" => Given(n) = l.on
      /\ l.type \in {"setFee", "customFee", "moduleFee", "capSet", "default", "discount"} => Given(n) = l.bps
  BY <1>1 DEF Given
<1>10. \A k, c : Column(k, c) /\ n \in SetBy(k, c) =>
            \/ l.type = "default" /\ k = Defaults /\ c = "value"
            \/ l.type \in {"discount", "undiscount"} /\ k = Discount /\ c = "value"
            \/ l.type = "setFee" /\ k = Tiers /\ c = l.class
            \/ l.type = "setFee" /\ c = "tier" /\ \E q \in Pool : k = Pair(q) /\ Class[q] = l.class
            \/ l.type = "whitelist" /\ k = Whitelisted(l.side) /\ c = "on"
            \/ l.type = "whitelist" /\ c = "gauge" /\ \E q \in Pool : k = Pair(q)
            \/ l.type = "moduleFee" /\ k = Curve(l.pool) /\ c = "base"
            \/ l.type \in {"capSet", "feeReset"} /\ k = Curve(l.pool) /\ c = "cap"
            \/ l.type \in {"moduleFee", "feeReset"} /\ CL(l.pool) /\ k = Pair(l.pool) /\ c = "own"
            \/ l.type = "customFee" /\ ~CL(l.pool) /\ k = Pair(l.pool) /\ c = "own"
            \/ l.type = "created" /\ k = Pair(l.pool) /\ (c = "created" \/ (c = "own" /\ CL(l.pool)))
  BY <1>1, SetOf
<1>11. \A q : ~IsSetting(Pair(q))
  BY SetByPairs
<1>12. ASSUME NEW s, p = << s >>, Sows(n, s), s.op = "upsert" => s.key[1] # "whitelisted",
              \A k, c : Column(k, c) /\ n \in SetBy(k, c) => Sets(s, k, c)
       PROVE  Ahead(n, p) /\ \A k, c : Column(k, c) /\ n \in SetBy(k, c) => YetIn(p, k, c)
  <2>1. Sequence(p) /\ Len(p) = 1 /\ p[1] = s
    BY <1>12, OneSequence
  <2>2. Ahead(n, p)
    BY <1>2, <1>12, <2>1, SownBy
  <2> QED
    BY <1>12, <2>1, <2>2 DEF YetIn
<1>13. CASE l.type = "setFee"
  <2>1. PICK f, r, s, t : /\ f = [c \in {e.class} |-> e.bps] /\ r = [NoTiers EXCEPT ![e.class] = e.bps]
                          /\ s = Upsert(Tiers, f, r) /\ t = OfTier(e.class, e.bps)
    OBVIOUS
  <2>2. p = << s, t >>
    BY <1>1, <1>4, <1>13, <2>1 DEF Programs, Handler, onPoolFactorySetFee
  <2>3. e.bps = l.bps /\ e.class = l.class /\ l.class \in {"volatile", "stable"}
    BY <1>2, <1>6, <1>7, <1>13 DEF EventFits
  <2>4. /\ s.op = "upsert" /\ s.key = Tiers /\ s.patch = f /\ s.new = r
        /\ t.op = "update" /\ t.keys = {Pair(q) : q \in {x \in Pool : Class[x] = l.class}}
        /\ t.where = {"", "factory_tier"} /\ t.patch = Fee(FALSE, l.bps, "factory_tier")
    BY <2>1, <2>3 DEF Upsert, OfTier, Update
  <2>5. Tiers[1] = "tiers" /\ IsSetting(Tiers) /\ Blank(Tiers) = NoTiers
    BY DEF Tiers, IsSetting, Blank
  <2>6. Sows(n, s)
    <3>1. DOMAIN f = {l.class} /\ f[l.class] = Given(n)
      BY <1>9, <1>13, <2>1, <2>3
    <3>2. r = Over(f, NoTiers) /\ {l.class} \subseteq DOMAIN NoTiers
      BY <2>1, <2>3, <3>1 DEF Over, NoTiers
    <3>3. n \in SetBy(Tiers, l.class)
      BY <1>1, <1>13, SetByCells DEF Typed
    <3> QED
      BY <2>4, <2>5, <3>1, <3>2, <3>3 DEF Sows
  <2>7. Sows(n, t)
    BY <1>1, <1>13, <2>4 DEF Sows
  <2>8. Sequence(p) /\ Len(p) = 2 /\ p[1] = s /\ p[2] = t
    BY <2>2, TwoSequence
  <2>9. Ahead(n, p)
    <3>1. \A i \in 1..Len(p) : p[i] = s \/ p[i] = t
      BY <2>8
    <3>2. s.key[1] # "whitelisted" /\ t.op # "upsert"
      BY <2>4, <2>5
    <3> QED
      BY <1>2, <2>6, <2>7, <2>8, <3>1, <3>2, SownBy
  <2>10. ASSUME NEW k, NEW c, Column(k, c), n \in SetBy(k, c)
         PROVE  Sets(s, k, c) \/ Sets(t, k, c)
    <3>1. CASE k = Tiers /\ c = l.class
      BY <2>1, <2>3, <2>4, <2>5, <3>1 DEF Sets
    <3>2. ASSUME NEW q \in Pool, k = Pair(q), Class[q] = l.class, c = "tier"
          PROVE  Sets(t, k, c)
      BY <1>11, <2>4, <3>2 DEF Sets
    <3> QED
      BY <1>10, <1>13, <2>10, <3>1, <3>2
  <2> QED
    BY <2>8, <2>9, <2>10 DEF YetIn
<1>14. CASE l.type = "customFee"
  <2>1. PICK s : s = Query([of |-> "custom", pool |-> e.pool, bps |-> e.bps])
    OBVIOUS
  <2>2. p = << s >>
    BY <1>1, <1>4, <1>14, <2>1 DEF Programs, Handler, onPoolFactorySetCustomFee
  <2>3. s.op = "query" /\ s.of = "custom" /\ s.pool = l.pool /\ s.bps = l.bps
    BY <1>5, <1>6, <1>14, <2>1 DEF Query, Over
  <2>4. Sows(n, s)
    BY <1>1, <1>14, <2>3 DEF Sows
  <2>5. \A k, c : Column(k, c) /\ n \in SetBy(k, c) => Sets(s, k, c)
    BY <1>10, <1>11, <1>14, <2>3 DEF Sets
  <2> QED
    BY <1>12, <2>2, <2>3, <2>4, <2>5
<1>15. CASE l.type \in {"moduleFee", "feeReset"}
  <2>1. PICK c, v, f, g : /\ c = IF l.type = "moduleFee" THEN "base" ELSE "cap"
                          /\ v = IF l.type = "moduleFee" THEN l.bps ELSE Unset
                          /\ f = [x \in {c} |-> v]
                          /\ g = IF l.type = "moduleFee"
                                   THEN Over([cl |-> TRUE], Fee(FALSE, l.bps, "cl_module_fixed"))
                                   ELSE Over([cl |-> TRUE], DynamicFee)
    OBVIOUS
  <2>2. PICK u, w, s, t : /\ u = Update({Pair(l.pool)}, AnySource, g)
                          /\ w = Upsert(Curve(l.pool), f, Over(f, NoCurve))
                          /\ s = Over([beside |-> TRUE], u) /\ t = Over([beside |-> TRUE], w)
    OBVIOUS
  <2>3. e.pool = l.pool /\ (l.type = "moduleFee" => e.bps = l.bps) /\ CL(l.pool) /\ v = Given(n)
    BY <1>2, <1>5, <1>6, <1>9, <1>15, <2>1
  <2>4. p = Beside(<< u >>, << w >>) \/ p = Reverse(Beside(<< u >>, << w >>))
    <3>1. CASE l.type = "moduleFee"
      <4>1. f = [base |-> e.bps] /\ g = Over([cl |-> TRUE], Fee(FALSE, e.bps, "cl_module_fixed"))
        BY <2>1, <2>3, <3>1
      <4>2. Handler(e) = Beside(<< u >>, << w >>)
        BY <1>4, <2>2, <2>3, <3>1, <4>1
           DEF Handler, onDynamicSwapFeeModuleCustomFeeSet, onCustomFeeSet, upsertPool
      <4> QED
        BY <1>1, <1>4, <3>1, <4>2 DEF Programs
    <3>2. CASE l.type = "feeReset"
      <4>1. f = [cap |-> Unset] /\ g = Over([cl |-> TRUE], DynamicFee)
        BY <2>1, <3>2
      <4>2. Handler(e) = Beside(<< u >>, << w >>)
        BY <1>4, <2>2, <2>3, <3>2, <4>1
           DEF Handler, onDynamicSwapFeeModuleDynamicFeeReset, onDynamicFeeReset, upsertPool
      <4> QED
        BY <1>1, <1>4, <3>2, <4>2 DEF Programs
    <3> QED
      BY <1>15, <3>1, <3>2
  <2>5. /\ Sequence(p) /\ Len(p) = 2 /\ \A i \in 1..Len(p) : p[i] = s \/ p[i] = t
        /\ \E i \in 1..Len(p) : p[i] = s
        /\ \E i \in 1..Len(p) : p[i] = t
    <3>1. s = Over([beside |-> TRUE], u) /\ t = Over([beside |-> TRUE], w)
      BY <2>2
    <3> QED
      BY ONLY <2>4, <3>1, BesideParts
  <2>6. /\ s.op = "update" /\ s.keys = {Pair(l.pool)} /\ s.where = AnySource /\ s.patch = g
        /\ t.op = "upsert" /\ t.key = Curve(l.pool) /\ t.patch = f /\ t.new = Over(f, NoCurve)
    BY <2>2 DEF Over, Update, Upsert
  <2>7. Sows(n, s)
    <3>1. Charged(n) = IF l.type = "moduleFee" THEN Fee(FALSE, l.bps, "cl_module_fixed") ELSE DynamicFee
      BY <1>1 DEF Charged
    <3> QED
      BY <1>1, <1>15, <2>1, <2>6, <3>1 DEF Sows
  <2>8. Sows(n, t) /\ t.key[1] # "whitelisted" /\ Sets(t, Curve(l.pool), c)
    <3>1. n \in SetBy(Curve(l.pool), c)
      BY <1>1, <1>15, <2>1, SetByCells DEF Of
    <3>2. c \in {"base", "cap"} /\ DOMAIN f = {c} /\ f[c] = v
      BY <2>1
    <3>3. l = log[n] /\ v = Given(n) /\ t.op = "upsert" /\ t.key = Curve(l.pool) /\ t.patch = f
          /\ t.new = Over(f, NoCurve)
      BY <1>1, <2>3, <2>6
    <3> QED
      BY ONLY <3>1, <3>2, <3>3, CurveSown
  <2>9. Ahead(n, p)
    BY <1>2, <2>5, <2>6, <2>7, <2>8, SownBy
  <2>10. ASSUME NEW k, NEW d, Column(k, d), n \in SetBy(k, d)
         PROVE  Sets(s, k, d) \/ Sets(t, k, d)
    <3>1. (k = Pair(l.pool) /\ d = "own") \/ (k = Curve(l.pool) /\ d = c)
      BY <1>10, <1>15, <2>1, <2>10
    <3>2. CASE k = Pair(l.pool) /\ d = "own"
      BY <1>11, <2>6, <3>2 DEF Sets
    <3> QED
      BY <2>8, <3>1, <3>2
  <2> QED
    BY <2>5, <2>9, <2>10 DEF YetIn
<1>16. CASE l.type = "capSet"
  <2>1. PICK f, s : f = [cap |-> l.bps] /\ s = Upsert(Curve(l.pool), f, Over(f, NoCurve))
    OBVIOUS
  <2>2. p = << s >>
    BY <1>1, <1>4, <1>5, <1>6, <1>16, <2>1 DEF Programs, Handler, onFeeCapSet, upsertPool
  <2>3. s.op = "upsert" /\ s.key = Curve(l.pool) /\ s.patch = f /\ s.new = Over(f, NoCurve)
    BY <2>1 DEF Upsert
  <2>4. Sows(n, s) /\ s.key[1] # "whitelisted" /\ Sets(s, Curve(l.pool), "cap")
    <3>1. n \in SetBy(Curve(l.pool), "cap")
      BY <1>1, <1>16, SetByCells DEF Of
    <3>2. DOMAIN f = {"cap"} /\ f["cap"] = Given(n)
      BY <1>9, <1>16, <2>1
    <3> QED
      BY <1>1, <2>3, <3>1, <3>2, CurveSown
  <2>5. \A k, c : Column(k, c) /\ n \in SetBy(k, c) => Sets(s, k, c)
    BY <1>10, <1>16, <2>4
  <2> QED
    BY <1>12, <2>2, <2>4, <2>5
<1>17. CASE l.type \in {"default", "discount"}
  <2>1. PICK k0 : k0 = IF l.type = "default" THEN Defaults ELSE Discount
    OBVIOUS
  <2>2. PICK f, s : f = [value |-> l.bps] /\ s = Upsert(k0, f, f)
    OBVIOUS
  <2>3. p = << s >>
    BY <1>1, <1>4, <1>6, <1>17, <2>1, <2>2 DEF Programs, Handler, upsertGlobal, onDiscountedRegistered
  <2>4. s.op = "upsert" /\ s.key = k0 /\ s.patch = f /\ s.new = f
    BY <2>2 DEF Upsert
  <2>5. /\ IsSetting(k0) /\ Blank(k0) = [value |-> Unset] /\ k0[1] # "whitelisted"
        /\ n \in SetBy(k0, "value")
    <3>1. CASE l.type = "default"
      BY <1>1, <2>1, <3>1, SetByCells DEF Typed, Defaults, IsSetting, Blank
    <3>2. CASE l.type = "discount"
      BY <1>1, <2>1, <3>2, SetByCells DEF Typed, Discount, IsSetting, Blank
    <3> QED
      BY <1>17, <3>1, <3>2
  <2>6. Sows(n, s)
    <3>1. DOMAIN f = {"value"} /\ f["value"] = Given(n) /\ f = Over(f, [value |-> Unset])
      BY <1>9, <1>17, <2>2 DEF Over
    <3> QED
      BY <2>4, <2>5, <3>1 DEF Sows
  <2>7. \A k, c : Column(k, c) /\ n \in SetBy(k, c) => Sets(s, k, c)
    BY <1>10, <1>17, <2>1, <2>2, <2>4, <2>5 DEF Sets
  <2> QED
    BY <1>12, <2>3, <2>4, <2>5, <2>6, <2>7
<1>18. CASE l.type = "undiscount"
  <2>1. PICK s : s = Delete(Discount)
    OBVIOUS
  <2>2. p = << s >>
    BY <1>1, <1>4, <1>18, <2>1 DEF Programs, Handler, onDiscountedDeregistered
  <2>3. s.op = "delete" /\ s.key = Discount
    BY <2>1 DEF Delete
  <2>4. Sows(n, s) /\ Sets(s, Discount, "value")
    BY <1>1, <1>18, <2>3 DEF Sows, Sets, IsSetting, Discount
  <2>5. \A k, c : Column(k, c) /\ n \in SetBy(k, c) => Sets(s, k, c)
    BY <1>10, <1>18, <2>4
  <2> QED
    BY <1>12, <2>2, <2>3, <2>4, <2>5
<1>19. CASE l.type = "whitelist"
  <2>1. PICK f, s, t : /\ f = [on |-> l.on] /\ s = Upsert(Whitelisted(l.side), f, f)
                       /\ t = Compute({Pair(q) : q \in Pool}, [of |-> "gauge"])
    OBVIOUS
  <2>2. p = << s, t >>
    BY <1>1, <1>4, <1>8, <1>19, <2>1 DEF Programs, Handler, aggregateVoterWhitelistToken
  <2>3. /\ s.op = "upsert" /\ s.key = Whitelisted(l.side) /\ s.patch = f /\ s.new = f
        /\ t.op = "compute" /\ t.keys = {Pair(q) : q \in Pool} /\ t.expr = [of |-> "gauge"]
    BY <2>1 DEF Upsert, Compute
  <2>4. Sows(n, s)
    <3>1. /\ IsSetting(Whitelisted(l.side)) /\ Blank(Whitelisted(l.side)) = [on |-> FALSE]
      BY DEF IsSetting, Blank, Whitelisted
    <3>2. n \in SetBy(Whitelisted(l.side), "on")
      BY <1>1, <1>19, SetByCells DEF Typed
    <3>3. DOMAIN f = {"on"} /\ f["on"] = Given(n) /\ f = Over(f, [on |-> FALSE])
      BY <1>9, <1>19, <2>1 DEF Over
    <3> QED
      BY <2>3, <3>1, <3>2, <3>3 DEF Sows
  <2>5. Sows(n, t)
    BY <1>1, <1>19, <2>3 DEF Sows
  <2>6. Sequence(p) /\ Len(p) = 2 /\ p[1] = s /\ p[2] = t
    BY <2>2, TwoSequence
  <2>7. Followed(n, p)
    <3>1. "created" \notin SettingTypes
      BY DEF SettingTypes
    <3>2. \A i \in 1..Len(p) : p[i].op = "upsert" => i = 1
      BY <2>3, <2>6
    <3>3. 2 \in (1 + 1)..Len(p)
      BY <2>6
    <3> QED
      BY <1>2, <2>3, <2>6, <3>1, <3>2, <3>3 DEF Followed
  <2>8. Ahead(n, p)
    <3>1. \A i \in 1..Len(p) : p[i] = s \/ p[i] = t
      BY <2>6
    <3> QED
      BY <1>2, <2>4, <2>5, <2>7, <3>1 DEF Ahead, Means
  <2>9. ASSUME NEW k, NEW c, Column(k, c), n \in SetBy(k, c)
        PROVE  Sets(s, k, c) \/ Sets(t, k, c)
    <3>1. (k = Whitelisted(l.side) /\ c = "on") \/ (c = "gauge" /\ \E q \in Pool : k = Pair(q))
      BY <1>10, <1>19, <2>9
    <3>2. CASE k = Whitelisted(l.side) /\ c = "on"
      BY <2>1, <2>3, <3>2 DEF Sets, IsSetting, Whitelisted
    <3>3. CASE c = "gauge" /\ \E q \in Pool : k = Pair(q)
      BY <1>11, <2>3, <3>3 DEF Sets
    <3> QED
      BY <3>1, <3>2, <3>3
  <2> QED
    BY <2>6, <2>8, <2>9 DEF YetIn
<1> QED
  BY <1>1, <1>13, <1>14, <1>15, <1>16, <1>17, <1>18, <1>19 DEF SettingTypes
LEMMA AllAhead ==
  ASSUME NEW n, NEW p, All(n, p), n # 0 => Kind(n) = "created",
         n # 0 /\ ~CL(log[n].pool) =>
           \A i \in 1..Len(p) :
             p[i].op \in {"save", "write"} /\ p[i].key[1] = "pair" =>
               \E j \in (i + 1)..Len(p) : p[j].op = "query"
  PROVE  Ahead(n, p)
<1>1. "created" \notin SettingTypes /\ "none" \notin SettingTypes
  BY DEF SettingTypes
<1>2. \A i \in 1..Len(p) : Means(n, p[i])
  BY <1>1 DEF All, Meanwhile, Means, Kind
<1>3. ASSUME NEW i \in 1..Len(p), p[i].op = "upsert" PROVE p[i].key[1] # "whitelisted"
  <2>1. ~IsSetting(p[i].key)
    BY <1>3 DEF All, Meanwhile, Innocent, Creates
  <2> QED
    BY <2>1 DEF IsSetting
<1>4. Followed(n, p)
  BY <1>3 DEF Followed, Kind
<1> QED
  BY <1>2, <1>4 DEF Ahead

\* The creation of a pool stores its pair.
LEMMA CreatedAhead ==
  ASSUME scenario \in Scenarios, log \in Logs(scenario), NEW n \in DOMAIN log,
         log[n].type = "created", NEW p \in Programs(Over([id |-> n], log[n]))
  PROVE  /\ Ahead(n, p)
         /\ \E i \in 1..Len(p) : p[i].op = "save" /\ p[i].key = Pair(log[n].pool)
<1>1. PICK l, e, k, x : /\ l = log[n] /\ e = Over([id |-> n], l)
                        /\ k = Pair(l.pool) /\ x = [of |-> "minimal", pool |-> l.pool]
  OBVIOUS
<1>2. EventFits(l) /\ EventFits(e) /\ Kind(n) = "created" /\ n # 0
  BY <1>1, LogFacts, IdentifiedFits
<1>3. \A c \in DOMAIN l : c # "id" => e[c] = l[c]
  BY <1>1 DEF Over
<1>4. e.type = "created" /\ e.pool = l.pool
  BY <1>1, <1>2, <1>3 DEF EventFits
<1>5. p = Handler(e)
  BY <1>1, <1>4 DEF Programs
<1>6. PICK u, v, w, r : /\ u = << upsertEdge(l.pool) >> /\ v = Change(k, x)
                        /\ w = applyTokenInfoFromIndexer(e) /\ r = recordNewPair(e.day)
  OBVIOUS
<1>7. All(n, u) /\ Len(u) = 1
  <2>1. ~IsSetting(Edge(l.pool))
    BY DEF IsSetting, Edge
  <2>2. All(n, u)
    BY <1>6, <2>1, AllUpsert DEF upsertEdge
  <2>3. Len(u) = 1
    BY <1>6, OneSequence
  <2> QED
    BY <2>2, <2>3
<1>8. All(n, v) /\ Len(v) = 2 /\ v[2].op = "save" /\ v[2].key = k
  <2>1. Save(k, x).op = "save" /\ Save(k, x).key = k /\ Save(k, x).edit = x
    BY DEF Save
  <2>2. k[1] = "pair"
    BY <1>1, Keys
  <2>3. Creates(n, Save(k, x))
    BY <1>1, <2>1, <2>2, NoSettings DEF Creates
  <2>4. All(n, v)
    BY <1>2, <1>6, <2>3, AllChange DEF Meanwhile
  <2>5. Len(v) = 2 /\ v[2] = Save(k, x)
    BY <1>6, TwoSequence DEF Change
  <2> QED
    BY <2>1, <2>4, <2>5
<1>9. All(n, w)
  <2>1. PICK y : y = [of |-> "tokenInfo"]
    OBVIOUS
  <2>2. w = << >> \/ w = Change(SpotToken, y)
    BY <1>6, <2>1 DEF applyTokenInfoFromIndexer
  <2>3. Creates(n, Save(SpotToken, y))
    <3>1. SpotToken[1] # "pair" /\ k[1] = "pair"
      BY <1>1, Keys
    <3> QED
      BY <1>1, <3>1, NoSettings DEF Creates, Save
  <2>4. All(n, Change(SpotToken, y))
    BY <1>2, <2>3, AllChange DEF Meanwhile
  <2> QED
    BY <2>2, <2>4, AllEmpty
<1>10. All(n, r) /\ \A i \in 1..Len(r) : Harmless(r[i])
  BY <1>6, AllRollup DEF recordNewPair
<1>11. PICK o : o = (u \o v) \o w
  OBVIOUS
<1>12. /\ All(n, o) /\ Len(o) \in Nat /\ 3 \in 1..Len(o) /\ o[3].op = "save" /\ o[3].key = k
  <2>1. PICK z : z = u \o v
    OBVIOUS
  <2>2. All(n, z)
    BY <1>7, <1>8, <2>1, AllJoined
  <2>3. Len(z) = 3 /\ z[1 + 2] = v[2]
    <3>0. All(n, u) /\ All(n, v)
      BY <1>7, <1>8
    <3>1. Len(z) = Len(u) + Len(v) /\ \A i \in 1..Len(v) : z[Len(u) + i] = v[i]
      BY ONLY <2>1, <3>0, Joined DEF All, Sequence
    <3>2. 2 \in 1..Len(v)
      BY <1>8
    <3> QED
      BY <1>7, <1>8, <3>1, <3>2
  <2>4. All(n, o)
    BY <1>9, <1>11, <2>1, <2>2, AllJoined
  <2>5. Len(o) = Len(z) + Len(w) /\ Len(w) \in Nat /\ \A i \in 1..Len(z) : o[i] = z[i]
    BY <1>9, <1>11, <2>1, <2>2, Joined DEF All, Sequence
  <2>6. 3 \in 1..Len(z)
    BY <2>3
  <2> QED
    BY <1>8, <2>3, <2>4, <2>5, <2>6
<1>13. CASE CL(l.pool)
  <2>1. p = o \o r
    BY <1>1, <1>4, <1>5, <1>6, <1>11, <1>13 DEF Handler, onCLPoolCreated, upsertSpotPairMinimal
  <2>2. All(n, p) /\ All(n, o) /\ All(n, r)
    BY <1>10, <1>12, <2>1, AllJoined
  <2>3. /\ Len(p) = Len(o) + Len(r) /\ Len(r) \in Nat
        /\ \A i \in 1..Len(o) : p[i] = o[i]
        /\ \A i \in 1..Len(r) : p[Len(o) + i] = r[i]
    BY ONLY <2>1, <2>2, Joined DEF All, Sequence
  <2>4. 3 \in 1..Len(p) /\ p[3].op = "save" /\ p[3].key = k
    BY <1>12, <2>3
  <2> QED
    BY <1>1, <1>2, <1>13, <2>2, <2>4, AllAhead
<1>14. CASE ~CL(l.pool)
  <2>1. PICK q, s : q = Query([of |-> "tier", pool |-> l.pool]) /\ s = o \o << q >>
    OBVIOUS
  <2>2. q.op = "query" /\ q.of = "tier" /\ q.pool = l.pool
    BY <2>1 DEF Query, Over
  <2>3. p = s \o r
    BY <1>1, <1>4, <1>5, <1>6, <1>11, <1>14, <2>1 DEF Handler, onPoolCreated, upsertSpotPairMinimal
  <2>4. All(n, << q >>) /\ Len(<< q >>) = 1 /\ << q >>[1] = q
    <3>1. Creates(n, q)
      BY <1>1, <1>14, <2>2 DEF Creates
    <3> QED
      BY <1>2, <3>1, AllOne, OneSequence DEF Meanwhile
  <2>5. All(n, s) /\ All(n, p)
    BY <1>10, <1>12, <2>1, <2>3, <2>4, AllJoined
  <2>6. /\ Len(s) = Len(o) + 1 /\ s[Len(o) + 1] = q
        /\ \A i \in 1..Len(o) : s[i] = o[i]
    <3>1. PICK h : h = << q >>
      OBVIOUS
    <3>2. /\ Len(s) = Len(o) + Len(h) /\ \A i \in 1..Len(o) : s[i] = o[i]
          /\ \A i \in 1..Len(h) : s[Len(o) + i] = h[i]
      BY <1>12, <2>1, <2>4, <3>1, Joined DEF All
    <3>3. Len(h) = 1 /\ h[1] = q /\ 1 \in 1..Len(h)
      BY <2>4, <3>1
    <3> QED
      BY <3>2, <3>3
  <2>7. /\ Len(p) = Len(s) + Len(r) /\ Len(r) \in Nat
        /\ \A i \in 1..Len(s) : p[i] = s[i]
        /\ \A i \in 1..Len(r) : p[Len(s) + i] = r[i]
    BY <1>10, <2>3, <2>5, Joined DEF All, Sequence
  <2>8. 3 \in 1..Len(p) /\ p[3].op = "save" /\ p[3].key = k
    BY <1>12, <2>6, <2>7
  <2>9. Len(o) + 1 \in 1..Len(p) /\ p[Len(o) + 1] = q
    BY <1>12, <2>6, <2>7
  <2>10. ASSUME NEW i \in 1..Len(p), p[i].op \in {"save", "write"}, p[i].key[1] = "pair"
         PROVE  \E j \in (i + 1)..Len(p) : p[j].op = "query"
    <3>1. CASE i <= Len(o)
      <4>1. Len(o) + 1 \in (i + 1)..Len(p)
        BY <1>12, <2>9, <3>1
      <4> QED
        BY <2>2, <2>9, <4>1
    <3>2. CASE i = Len(o) + 1
      BY <2>2, <2>9, <2>10, <3>2
    <3>3. CASE i > Len(o) + 1
      <4>1. PICK j : j = i - Len(s)
        OBVIOUS
      <4>2. j \in 1..Len(r) /\ Len(s) + j = i
        BY <1>12, <2>6, <2>7, <3>3, <4>1
      <4>3. Harmless(p[i])
        BY <1>10, <2>7, <4>2
      <4> QED
        BY <2>10, <4>3 DEF Harmless
    <3> QED
      BY <1>12, <3>1, <3>2, <3>3
  <2> QED
    BY <1>1, <1>2, <2>5, <2>8, <2>10, AllAhead
<1> QED
  BY <1>13, <1>14

\* Other events set nothing.
LEMMA OtherAhead ==
  ASSUME scenario \in Scenarios, log \in Logs(scenario), NEW n \in DOMAIN log,
         log[n].type \notin SettingTypes \cup {"created"}, NEW p \in Programs(Over([id |-> n], log[n]))
  PROVE  Ahead(n, p)
<1>1. PICK l, e : l = log[n] /\ e = Over([id |-> n], l)
  OBVIOUS
<1>2. EventFits(l) /\ EventFits(e) /\ Kind(n) = l.type
  BY <1>1, LogFacts, IdentifiedFits
<1>3. \A c \in DOMAIN l : c # "id" => e[c] = l[c]
  BY <1>1 DEF Over
<1>4. e.type = l.type /\ e.type \in {"mint", "swap", "gauge", "claim", "stake"}
  BY <1>1, <1>2, <1>3 DEF EventFits, EventTypes, SettingTypes
<1>5. p = Handler(e)
  BY <1>1, <1>4 DEF Programs
<1>6. ASSUME NEW w \in {"claim", "mint", "swap", "trade"} PROVE All(0, Asked(w, e))
  <2>1. PICK q : q = Query(Over([of |-> w], e))
    OBVIOUS
  <2>2. Asked(w, e) = << q >> /\ q.op = "query" /\ q.of = w
    BY <2>1, AskedSides
  <2>3. Innocent(q)
    BY <2>2 DEF Innocent
  <2> QED
    BY <2>2, <2>3, AllOne DEF Meanwhile
<1>7. All(0, p)
  <2>1. CASE e.type = "gauge"
    BY <1>5, <2>1, AllEmpty DEF Handler
  <2>2. CASE e.type = "stake"
    <3>1. ~IsSetting(Stake(e.id))
      BY DEF IsSetting, Stake
    <3>2. p = << Upsert(Stake(e.id), << >>, [pool |-> e.pool]) >>
      BY <1>5, <2>2 DEF Handler, Insert
    <3> QED
      BY <3>1, <3>2, AllUpsert
  <2>3. CASE e.type = "swap"
    <3>1. p = Asked("swap", e) \o Asked("trade", e)
      BY <1>5, <2>3 DEF Handler
    <3> QED
      BY <1>6, <3>1, AllJoined
  <2>4. CASE e.type \in {"claim", "mint"}
    BY <1>5, <1>6, <2>4 DEF Handler
  <2> QED
    BY <1>4, <2>1, <2>2, <2>3, <2>4
<1>8. \A i \in 1..Len(p) : Innocent(p[i])
  BY <1>7 DEF All, Meanwhile
<1>9. Followed(n, p)
  <2>1. Kind(n) # "created"
    BY <1>1, <1>2
  <2>2. \A i \in 1..Len(p) : p[i].op = "upsert" => p[i].key[1] # "whitelisted"
    BY <1>8 DEF Innocent, IsSetting
  <2> QED
    BY <2>1, <2>2 DEF Followed
<1> QED
  BY <1>1, <1>2, <1>8, <1>9 DEF Ahead, Means

LEMMA BeginsAhead ==
  ASSUME scenario \in Scenarios, log \in Logs(scenario), NEW n \in DOMAIN log,
         NEW p \in Programs(Over([id |-> n], log[n]))
  PROVE  /\ Ahead(n, p)
         /\ \A k, c : Column(k, c) /\ n \in SetBy(k, c) => YetIn(p, k, c)
         /\ log[n].type = "created" =>
              \E i \in 1..Len(p) : p[i].op = "save" /\ p[i].key = Pair(log[n].pool)
<1>1. CASE log[n].type \in SettingTypes
  <2>1. "created" \notin SettingTypes
    BY DEF SettingTypes
  <2> QED
    BY <1>1, <2>1, SettingAhead
<1>2. CASE log[n].type = "created"
  <2>1. /\ Ahead(n, p)
        /\ \E i \in 1..Len(p) : p[i].op = "save" /\ p[i].key = Pair(log[n].pool)
    BY <1>2, CreatedAhead
  <2>2. ASSUME NEW k, NEW c, Column(k, c), n \in SetBy(k, c) PROVE YetIn(p, k, c)
    <3>1. k = Pair(log[n].pool) /\ c \in {"created", "own"} /\ ~IsSetting(k)
      BY <1>2, <2>2, SetOf, SetByPairs
    <3> QED
      BY <2>1, <3>1 DEF YetIn, Sets
  <2> QED
    BY <2>1, <2>2
<1>3. CASE log[n].type \notin SettingTypes \cup {"created"}
  <2>1. \A k, c : Column(k, c) => n \notin SetBy(k, c)
    BY <1>3, SetOf DEF SettingTypes
  <2> QED
    BY <1>3, <2>1, OtherAhead
<1> QED
  BY <1>1, <1>2, <1>3
-----------------------------------------------------------------------------
(* What a statement leaves as it was.                                      *)

Moves(a, q) ==
  /\ UNCHANGED <<scenario, log, next, at, selected, started>>
  /\ todo' = [todo EXCEPT ![a] = q]

\* It changes no row another has in hand, but for those raced on.
Spares(a) ==
  /\ raced \subseteq raced'
  /\ \A k : k \notin raced' /\ (\E b \in Actor \ {a} : held[b].key = k) => Row(k)' = Row(k)

LEMMA MeansKept ==
  ASSUME log' = log, NEW n, Kind(n) = "created" => Row(Tiers)' = Row(Tiers), NEW s, Means(n, s)
  PROVE  Means(n, s)'
<1>1. /\ Kind(n)' = Kind(n) /\ Given(n)' = Given(n) /\ Charged(n)' = Charged(n)
  BY DEF Kind, Given, Charged, Fee, DynamicFee
<1>2. \A k, c : SetBy(k, c)' = SetBy(k, c)
  BY SetByKept
<1>3. CASE Kind(n) \in SettingTypes
  <2>1. Sows(n, s)
    BY <1>3 DEF Means
  <2>2. \A k : Blank(k)' = Blank(k) /\ (IsSetting(k) <=> IsSetting(k)')
    BY DEF Blank, NoCurve, NoTiers, IsSetting
  <2>3. Sows(n, s)'
    BY <1>1, <1>2, <2>1, <2>2 DEF Sows
  <2>4. SettingTypes' = SettingTypes
    BY DEF SettingTypes
  <2> QED
    BY <1>1, <1>3, <2>3, <2>4 DEF Means
<1>4. CASE Kind(n) \notin SettingTypes /\ Kind(n) = "created"
  <2>1. Creates(n, s) /\ Row(Tiers)' = Row(Tiers)
    BY <1>4 DEF Means
  <2>2. Row(Tiers) # NoRow => rows'[Tiers] = rows[Tiers]
    BY <2>1 DEF Row
  <2>3. \A k : IsSetting(k) <=> IsSetting(k)'
    BY DEF IsSetting
  <2>4. Creates(n, s)'
    BY <2>1, <2>2, <2>3 DEF Creates
  <2> QED
    BY <1>1, <1>4, <2>4 DEF Means, SettingTypes
<1>5. CASE Kind(n) \notin SettingTypes /\ Kind(n) # "created"
  BY <1>1, <1>5 DEF Means, SettingTypes, Innocent, IsSetting
<1> QED
  BY <1>3, <1>4, <1>5

LEMMA AheadKept ==
  ASSUME log' = log, NEW n, Kind(n) = "created" => Row(Tiers)' = Row(Tiers), NEW p, Ahead(n, p)
  PROVE  Ahead(n, p)'
<1>1. \A i \in 1..Len(p) : Means(n, p[i])'
  BY MeansKept DEF Ahead
<1>2. Followed(n, p)'
  BY DEF Ahead, Followed, Kind
<1> QED
  BY <1>1, <1>2 DEF Ahead

\* An event in hand that sets something leaves the others with none.
LEMMA OnlyHandler ==
  ASSUME Ordered, NEW a \in Actor, at[a] # 0
  PROVE  a \in Handlers /\ \A b \in Actor \ {a} : at[b] = 0 /\ Kind(at[b]) = "none"
<1>1. \A b \in Actor \ Handlers : at[b] = 0
  BY DEF Ordered
<1>2. a \in Handlers
  BY <1>1
<1>3. \A b \in Handlers \ {a} : at[b] = 0
  BY <1>2 DEF Ordered, Handlers
<1> QED
  BY <1>1, <1>2, <1>3 DEF Kind

LEMMA OthersAhead ==
  ASSUME IInv, Follows, NEW a \in Actor, NEW q, Moves(a, q),
         Kind(at[a]) \notin SettingTypes => Row(Tiers)' = Row(Tiers), NEW b \in Actor \ {a}
  PROVE  Ahead(at[b], todo[b])'
<1>1. Ahead(at[b], todo[b]) /\ Ordered
  BY DEF Follows
<1>2. todo'[b] = todo[b] /\ at' = at /\ log' = log
  BY DEF Moves, IInv, Actors
<1>3. Kind(at[b]) = "created" => Row(Tiers)' = Row(Tiers)
  <2>1. CASE Kind(at[a]) \in SettingTypes
    <3>1. at[a] # 0
      BY <2>1 DEF Kind, SettingTypes
    <3> QED
      BY <1>1, <3>1, OnlyHandler
  <2> QED
    BY <2>1
<1>4. PICK n, p : n = at[b] /\ p = todo[b]
  OBVIOUS
<1>5. Ahead(n, p)'
  BY <1>1, <1>2, <1>3, <1>4, AheadKept
<1> QED
  BY <1>2, <1>4, <1>5

LEMMA PairStepsKept ==
  ASSUME IInv, Follows, NEW a \in Actor, NEW q, Moves(a, q), Spares(a), NEW b \in Actor \ {a}
  PROVE  PairSteps(b)'
<1>1. PairSteps(b) /\ Holding(b)
  BY DEF Follows, IInv
<1>2. todo'[b] = todo[b] /\ at' = at /\ log' = log
  BY DEF Moves, IInv, Actors
<1>3. S(b)' = S(b) /\ (At(b, {"write"}) <=> At(b, {"write"})') /\ Kind(at[b])' = Kind(at[b])
  BY <1>2 DEF S, At, Kind
<1>4. ASSUME NEW p \in Pool, At(b, {"write"}), S(b).key = Pair(p), Pair(p) \notin raced'
      PROVE  Row(Pair(p))' = Row(Pair(p)) /\ Result(b)' = Result(b) /\ Pair(p) \notin raced
  <2>1. held[b].key = Pair(p)
    BY <1>1, <1>4 DEF Holding, At
  <2>2. Row(Pair(p))' = Row(Pair(p))
    BY <1>4, <2>1 DEF Spares
  <2>3. Result(b)' = Result(b)
    BY <1>3, <1>4, <2>2 DEF Result, Patched
  <2> QED
    BY <1>4, <2>2, <2>3 DEF Spares
<1> QED
  BY <1>1, <1>3, <1>4 DEF PairSteps, FeeOf

\* What a step of a statement has to show.
LEMMA Onward ==
  ASSUME IInv, Follows, NEW a \in Actor, todo[a] # << >>, NEW q, Moves(a, q), Spares(a),
         Kind(at[a]) \notin SettingTypes => Row(Tiers)' = Row(Tiers),
         SettingRows', \A p \in Pool : CreatedFirst(p)' /\ PairHolds(p)',
         Ahead(at[a], q)', \A p \in Pool : At(a, {"write"})' /\ S(a)'.key = Pair(p) => PairSteps(a)'
  PROVE  Follows'
<1>1. /\ at' = at /\ next' = next /\ selected' = selected /\ log' = log /\ Stored' = Stored
      /\ todo'[a] = q /\ \A b \in Actor \ {a} : todo'[b] = todo[b]
  BY DEF Moves, IInv, Actors, Stored
<1>2. Ordered'
  <2>1. Ordered /\ Handlers \subseteq Actor
    BY DEF Follows, Handlers, Actor
  <2>2. a \in Handlers => at[a] # 0
    BY <2>1 DEF Ordered
  <2>3. \A b \in Handlers : at[b] = 0 => todo'[b] = << >>
    BY <1>1, <2>1, <2>2 DEF Ordered
  <2> QED
    BY <1>1, <2>1, <2>3 DEF Ordered, Handlers, Actor
<1>3. \A b \in Actor : Ahead(at[b], todo[b])'
  BY <1>1, OthersAhead
<1>4. \A b \in Actor : PairSteps(b)'
  <2>1. PairSteps(a)'
    BY DEF PairSteps
  <2> QED
    BY <2>1, PairStepsKept
<1> QED
  BY <1>2, <1>3, <1>4 DEF Follows
-----------------------------------------------------------------------------
(* What is due, and the cells, after a statement.                          *)

LEMMA Grown ==
  ASSUME IInv, NEW a \in Actor, NEW q, Moves(a, q), NEW k, NEW c,
         at[a] \in SetBy(k, c) /\ Yet(a, k, c) => YetIn(q, k, c)
  PROVE  Due(k, c) \subseteq Due(k, c)'
<1>1. todo'[a] = q /\ \A b \in Actor \ {a} : todo'[b] = todo[b]
  BY DEF Moves, IInv, Actors
<1>2. ASSUME NEW b \in Handlers, at[b] \in SetBy(k, c), Yet(b, k, c) PROVE Yet(b, k, c)'
  <2>1. b \in Actor
    BY DEF Handlers, Actor
  <2>2. todo'[b] = todo[b] \/ (b = a /\ todo'[b] = q)
    BY <1>1, <2>1
  <2> QED
    BY <1>2, <2>2 DEF Yet, YetIn, Sets, IsSetting
<1> QED
  BY <1>2, DueGrows DEF Moves

\* Only a setting or a creation sets a column.
LEMMA SetsNothing ==
  ASSUME scenario \in Scenarios, log \in Logs(scenario), NEW n, NEW k, NEW c, Column(k, c), n \in SetBy(k, c)
  PROVE  /\ n \in DOMAIN log /\ Kind(n) = log[n].type /\ Kind(n) \in SettingTypes \cup {"created"}
         /\ Kind(n) = "created" => k = Pair(log[n].pool) /\ c \in {"created", "own"}
                                   /\ (c = "own" => CL(log[n].pool))
<1>1. PICK e : e = log[n]
  OBVIOUS
<1>2. n \in DOMAIN log /\ Kind(n) = e.type
  BY <1>1, SetOf, LogFacts
<1> QED
  BY <1>1, <1>2, SetOf DEF SettingTypes

LEMMA CellsAreColumns ==
  /\ \A x \in Cells : Column(x[1], x[2]) /\ IsSetting(x[1]) /\ x[2] \in DOMAIN Blank(x[1])
  /\ \A p \in Pool : \A c \in {"own", "tier", "created", "gauge"} : Column(Pair(p), c)
<1>1. \A x \in Cells : Column(x[1], x[2])
  BY DEF Cells, Column
<1>2. \A x \in Cells : IsSetting(x[1]) /\ x[2] \in DOMAIN Blank(x[1])
  BY DEF Cells, IsSetting, Blank, Defaults, Discount, Curve, Whitelisted, Tiers, NoCurve, NoTiers
<1>3. \A p \in Pool : \A c \in {"own", "tier", "created", "gauge"} : Column(Pair(p), c)
  BY DEF Column
<1> QED
  BY <1>1, <1>2, <1>3

LEMMA SettingsOn ==
  ASSUME SettingRows, log' = log, \A k : IsSetting(k) => Row(k)' = Row(k),
         \A x \in Cells : Due(x[1], x[2]) \subseteq Due(x[1], x[2])'
  PROVE  SettingRows'
<1>1. Cells' = Cells
  BY DEF Cells
<1>2. ASSUME NEW x \in Cells
      PROVE  /\ (Row(x[1]) # NoRow => SettingFits(x[1], Row(x[1])))'
             /\ CellHolds(x[1], x[2])'
  <2>1. PICK k, c : k = x[1] /\ c = x[2]
    OBVIOUS
  <2>2. Row(k)' = Row(k) /\ Due(k, c) \subseteq Due(k, c)'
    BY <2>1, CellsAreColumns
  <2>3. (Row(k) # NoRow => SettingFits(k, Row(k))) /\ CellHolds(k, c)
    BY <2>1 DEF SettingRows
  <2>4. Blank(k)' = Blank(k)
    BY DEF Blank, NoCurve, NoTiers
  <2>5. Row(k)' # NoRow => SettingFits(k, Row(k))'
    BY <2>2, <2>3, <2>4 DEF SettingFits
  <2>6. Seen(k)' = Seen(k)
    BY <2>2, <2>4 DEF Seen, Shown, Row
  <2>7. CellHolds(k, c)'
    BY <2>2, <2>3, <2>6, CellKept
  <2> QED
    BY <2>1, <2>5, <2>7
<1> QED
  BY <1>1, <1>2 DEF SettingRows

LEMMA CellSet ==
  ASSUME IInv, Ordered, NEW a \in Handlers, at[a] # 0, UNCHANGED <<log, next, at, selected>>,
         NEW k, NEW c, at[a] \in SetBy(k, c), Seen(k)'[c] = Given(at[a])
  PROVE  CellHolds(k, c)'
<1>1. PICK n : n = at[a]
  OBVIOUS
<1>2. LastTo(n, k, c)' /\ n \in DOMAIN log
  BY <1>1, LaterDue, SetByEvents
<1>3. Given(n)' = Given(n)
  BY DEF Given
<1> QED
  BY <1>1, <1>2, <1>3 DEF CellHolds
-----------------------------------------------------------------------------
(* The pairs after a statement.                                            *)

Old(p) == IF Row(Pair(p)) = NoRow THEN NewPair ELSE Row(Pair(p))
Alike(r, o) == FeeOf(r) = FeeOf(o) /\ r.gauge = o.gauge /\ r.cl = o.cl

\* Of a pair that is not there, nothing was handled.
LEMMA AbsentDue ==
  ASSUME IInv, log \in Logs(scenario), Follows, NEW p \in Pool, Row(Pair(p)) = NoRow
  PROVE  /\ \A n \in DOMAIN log : log[n].pool = p /\ log[n].type \in PoolSettings =>
                                    n > next /\ n \notin Stored
         /\ NoneTo(Pair(p), "own") /\ NoneTo(Pair(p), "created")
         /\ \A n \in Of("created", p, log) : n >= next
<1>1. /\ scenario \in Scenarios /\ CreatedFirst(p) /\ next \in Nat
      /\ DOMAIN log \subseteq Nat /\ Stored \subseteq DOMAIN log
  BY LogFacts DEF IInv, Actors, Follows, Stored
<1>2. PICK C : C = Of("created", p, log)
  OBVIOUS
<1>3. /\ C \subseteq DOMAIN log
      /\ \A n \in C : /\ next <= n /\ \A m \in Stored : m <= n
                      /\ at["consumer"] = n =>
                           \E i \in 1..Len(todo["consumer"]) :
                             todo["consumer"][i].op \in {"save", "write"} /\ todo["consumer"][i].key = Pair(p)
  BY <1>1, <1>2 DEF CreatedFirst, Of
<1>4. \A n \in DOMAIN log : log[n].pool = p /\ log[n].type \in PoolSettings =>
                              n > next /\ n \notin Stored
  <2> SUFFICES ASSUME NEW n \in DOMAIN log, log[n].pool = p, log[n].type \in PoolSettings
               PROVE  n > next /\ n \notin Stored
    OBVIOUS
  <2>1. C # {} /\ \A m \in C : m < n
    BY <1>1, <1>2, CreatedOnce
  <2>2. PICK m \in C : m < n
    BY <2>1
  <2> QED
    BY <1>1, <1>3, <2>2
<1>5. at["consumer"] \in {0, next}
  BY DEF IInv, Actors
<1>6. ASSUME NEW n \in C, NEW c \in {"own", "created"}
      PROVE  n >= next /\ (n = at["consumer"] => Yet("consumer", Pair(p), c))
  <2>1. ASSUME n = at["consumer"] PROVE Yet("consumer", Pair(p), c)
    <3>1. PICK i \in 1..Len(todo["consumer"]) :
             todo["consumer"][i].op \in {"save", "write"} /\ todo["consumer"][i].key = Pair(p)
      BY <1>3, <2>1
    <3>2. ~IsSetting(Pair(p))
      BY NoSettings
    <3>3. Sets(todo["consumer"][i], Pair(p), c)
      BY <3>1, <3>2 DEF Sets
    <3> QED
      BY <3>3 DEF Yet, YetIn
  <2> QED
    BY <1>1, <1>3, <2>1
<1>7. ASSUME NEW n \in DOMAIN log, log[n].pool = p, log[n].type \in PoolSettings
      PROVE  n >= next /\ n # at["consumer"]
  <2>1. n > next
    BY <1>4, <1>7
  <2> QED
    BY <1>1, <1>5, <2>1
<1>8. NoneTo(Pair(p), "created")
  <2>1. SetBy(Pair(p), "created") = C
    BY <1>2, SetByPairs
  <2> QED
    BY <1>6, <2>1 DEF NoneTo, Due
<1>9. NoneTo(Pair(p), "own")
  <2>1. \A n \in SetBy(Pair(p), "own") :
          n \in C \/ (n \in DOMAIN log /\ log[n].pool = p /\ log[n].type \in PoolSettings)
    BY <1>2, SetByPairs DEF Of, PoolSettings
  <2> QED
    BY <1>6, <1>7, <2>1 DEF NoneTo, Due
<1> QED
  BY <1>2, <1>3, <1>4, <1>8, <1>9

LEMMA FeeOfColumns ==
  ASSUME NEW r
  PROVE  /\ FeeOf(r) = [c \in {"dyn", "bps", "src"} |-> FeeOf(r)[c]]
         /\ FeeOf(r).dyn = r.dyn /\ FeeOf(r).bps = r.bps /\ FeeOf(r).src = r.src
<1>1. DOMAIN NoFee = {"dyn", "bps", "src"}
  BY DEF NoFee, Fee
<1>2. FeeOf(r) = [c \in {"dyn", "bps", "src"} |-> r[c]]
  BY <1>1 DEF FeeOf
<1> QED
  BY <1>2

LEMMA FeeColumns ==
  ASSUME NEW d, NEW b, NEW s
  PROVE  /\ Fee(d, b, s).dyn = d /\ Fee(d, b, s).bps = b /\ Fee(d, b, s).src = s
         /\ \A f : f = [c \in {"dyn", "bps", "src"} |-> f[c]] /\ f.dyn = d /\ f.bps = b /\ f.src = s
                   => f = Fee(d, b, s)
<1>1. PICK g : g = Fee(d, b, s)
  OBVIOUS
<1>2. g = [c \in {"dyn", "bps", "src"} |-> g[c]] /\ g.dyn = d /\ g.bps = b /\ g.src = s
  BY <1>1 DEF Fee
<1>3. ASSUME NEW f, f = [c \in {"dyn", "bps", "src"} |-> f[c]], f.dyn = d, f.bps = b, f.src = s
      PROVE  f = g
  <2>1. \A c \in {"dyn", "bps", "src"} : f[c] = g[c]
    BY <1>2, <1>3
  <2> QED
    BY ONLY <1>2, <1>3, <2>1
<1> QED
  BY <1>1, <1>2, <1>3

LEMMA NewPairFee == FeeOf(NewPair) = NoFee /\ NewPair.gauge = FALSE /\ NewPair.cl = FALSE
<1>1. /\ NewPair.dyn = FALSE /\ NewPair.bps = Unset /\ NewPair.src = ""
      /\ NewPair.gauge = FALSE /\ NewPair.cl = FALSE
  BY DEF NewPair
<1>2. PICK f, g : f = FeeOf(NewPair) /\ g = NoFee
  OBVIOUS
<1>3. f = [c \in {"dyn", "bps", "src"} |-> f[c]] /\ f.dyn = FALSE /\ f.bps = Unset /\ f.src = ""
  BY <1>1, <1>2, FeeOfColumns
<1>4. g = [c \in {"dyn", "bps", "src"} |-> g[c]] /\ g.dyn = FALSE /\ g.bps = Unset /\ g.src = ""
  BY <1>2 DEF NoFee, Fee
<1>5. \A c \in {"dyn", "bps", "src"} : f[c] = g[c]
  BY <1>3, <1>4
<1>6. f = g
  BY ONLY <1>3, <1>4, <1>5
<1> QED
  BY <1>1, <1>2, <1>6

LEMMA OldHolds ==
  ASSUME IInv, log \in Logs(scenario), Follows, NEW p \in Pool, Pair(p) \notin raced
  PROVE  /\ ~CL(p) => ~Old(p).cl
         /\ FeeHolds(p, FeeOf(Old(p))) /\ GaugeHolds(p, Old(p).gauge)
<1>1. CASE Row(Pair(p)) # NoRow
  <2>1. Old(p) = rows[Pair(p)]
    BY <1>1 DEF Old, Row
  <2>2. PairHolds(p)
    BY DEF Follows
  <2> QED
    BY <1>1, <2>1, <2>2 DEF PairHolds
<1>2. CASE Row(Pair(p)) = NoRow
  <2>1. Old(p) = NewPair
    BY <1>2 DEF Old
  <2>2. NoneTo(Pair(p), "own") /\ NoneTo(Pair(p), "created")
    BY <1>2, AbsentDue
  <2>3. FeeHolds(p, NoFee)
    BY <2>2 DEF FeeHolds
  <2>4. GaugeHolds(p, FALSE)
    <3>1. PICK W : W = SetBy(Pair(p), "gauge")
      OBVIOUS
    <3>2. /\ W = Typed({"whitelist"}) /\ W \subseteq DOMAIN log /\ DOMAIN log \subseteq Nat
          /\ scenario \in Scenarios
      BY <3>1, SetByPairs, LogFacts DEF Typed, IInv, Actors
    <3>3. CASE \A n \in W, m \in Of("created", p, log) : n < m
      BY <3>1, <3>3 DEF GaugeHolds
    <3>4. ASSUME NEW n \in W, NEW m \in Of("created", p, log), ~(n < m) PROVE GaugeHolds(p, FALSE)
      <4>1. m >= next /\ next \in Nat /\ at["consumer"] \in {0, next}
        BY <1>2, AbsentDue DEF IInv, Actors
      <4>2. m \in DOMAIN log /\ log[m].type = "created" /\ log[n].type = "whitelist"
        BY <3>2 DEF Of, Typed
      <4>3. n # m
        BY <4>2
      <4>4. n \in Nat /\ m \in Nat
        BY <3>2, <4>2
      <4>5. n > m /\ n > next /\ n # at["consumer"]
        BY <3>4, <4>1, <4>3, <4>4, <3>2, LogFacts
      <4>6. n \in Due(Pair(p), "gauge")
        BY <3>1, <4>1, <4>4, <4>5 DEF Due
      <4> QED
        BY <4>6 DEF GaugeHolds
    <3> QED
      BY <3>3, <3>4
  <2> QED
    BY <2>1, <2>3, <2>4, NewPairFee
<1> QED
  BY <1>1, <1>2

LEMMA GaugeKept ==
  ASSUME log' = log, NEW p, Due(Pair(p), "gauge") \subseteq Due(Pair(p), "gauge")',
         (BothWhitelisted <=> BothWhitelisted') \/ Due(Pair(p), "gauge")' # {},
         NEW g \in BOOLEAN, GaugeHolds(p, g)
  PROVE  GaugeHolds(p, g)'
<1>1. PICK k, c : k = Pair(p) /\ c = "gauge"
  OBVIOUS
<1>2. SetBy(k, c)' = SetBy(k, c)
  BY SetByKept
<1>3. Of("created", p, log)' = Of("created", p, log)
  BY DEF Of
<1>4. CASE Due(k, c)' # {}
  BY <1>1, <1>4 DEF GaugeHolds
<1>5. CASE Due(k, c)' = {}
  <2>1. Due(k, c) = {} /\ (BothWhitelisted <=> BothWhitelisted')
    BY <1>1, <1>5
  <2>2. g = BothWhitelisted \/ (~g /\ \A n \in SetBy(k, c), m \in Of("created", p, log) : n < m)
    BY <1>1, <2>1 DEF GaugeHolds
  <2>3. CASE g = BothWhitelisted
    <3>1. g = BothWhitelisted'
      BY <2>1, <2>3 DEF BothWhitelisted
    <3> QED
      BY <3>1 DEF GaugeHolds
  <2>4. CASE ~g /\ \A n \in SetBy(k, c), m \in Of("created", p, log) : n < m
    BY <1>1, <1>2, <1>3, <2>4 DEF GaugeHolds
  <2> QED
    BY <2>2, <2>3, <2>4
<1> QED
  BY <1>4, <1>5

\* A pair whose columns of the fee and the gauge are as they were.
LEMMA PairKept ==
  ASSUME IInv, log \in Logs(scenario), Follows, NEW p \in Pool, log' = log, raced \subseteq raced',
         \A c \in {"own", "tier", "created", "gauge"} : Due(Pair(p), c) \subseteq Due(Pair(p), c)',
         (BothWhitelisted <=> BothWhitelisted') \/ Due(Pair(p), "gauge")' # {},
         Row(Pair(p))' # NoRow /\ Pair(p) \notin raced' => Alike(Row(Pair(p))', Old(p))
  PROVE  PairHolds(p)'
<1> SUFFICES ASSUME Row(Pair(p))' # NoRow, Pair(p) \notin raced'
             PROVE  /\ ~CL(p) => ~rows'[Pair(p)].cl
                    /\ FeeHolds(p, FeeOf(rows[Pair(p)]))'
                    /\ GaugeHolds(p, rows[Pair(p)].gauge)'
  BY DEF PairHolds
<1>1. PICK f, g : f = FeeOf(Old(p)) /\ g = Old(p).gauge
  OBVIOUS
<1>2. (~CL(p) => ~Old(p).cl) /\ FeeHolds(p, f) /\ GaugeHolds(p, g)
  BY <1>1, OldHolds
<1>3. rows'[Pair(p)] = Row(Pair(p))' /\ Alike(rows'[Pair(p)], Old(p))
  BY DEF Row
<1>4. FeeOf(rows'[Pair(p)]) = f /\ rows'[Pair(p)].gauge = g /\ rows'[Pair(p)].cl = Old(p).cl
  BY <1>1, <1>3 DEF Alike
<1>5. FeeOf(rows[Pair(p)])' = f
  BY <1>4 DEF FeeOf
<1>6. FeeHolds(p, f)'
  BY <1>2, FeeKept
<1>7. g \in BOOLEAN
  <2>1. Old(p) \in PairRow(scenario.days)
    BY NewRows, Keys DEF Old, Row, IInv, Rows, Fits, Actors
  <2> QED
    BY <1>1, <2>1, PairRowColumns
<1>8. GaugeHolds(p, g)'
  BY <1>2, <1>7, GaugeKept
<1> QED
  BY <1>2, <1>4, <1>5, <1>6, <1>8

LEMMA CreatedKept ==
  ASSUME IInv, Follows, NEW a \in Actor, NEW q, Moves(a, q), NEW p \in Pool,
         Row(Pair(p))' = NoRow => Row(Pair(p)) = NoRow,
         a = "consumer" /\ at[a] \in Of("created", p, log) /\ Row(Pair(p))' = NoRow
           /\ (\E i \in 1..Len(todo[a]) : todo[a][i].op \in {"save", "write"} /\ todo[a][i].key = Pair(p)) =>
           \E i \in 1..Len(q) : q[i].op \in {"save", "write"} /\ q[i].key = Pair(p)
  PROVE  CreatedFirst(p)'
<1>1. /\ at' = at /\ next' = next /\ log' = log /\ Stored' = Stored
      /\ todo'[a] = q /\ \A b \in Actor \ {a} : todo'[b] = todo[b]
  BY DEF Moves, IInv, Actors, Stored
<1>2. CreatedFirst(p) /\ Of("created", p, log)' = Of("created", p, log) /\ "consumer" \in Actor
  BY <1>1 DEF Follows, Of, Actor
<1>3. CASE a = "consumer"
  BY <1>1, <1>2, <1>3 DEF CreatedFirst
<1>4. CASE a # "consumer"
  <2>1. todo'["consumer"] = todo["consumer"]
    BY <1>1, <1>2, <1>4
  <2> QED
    BY <1>1, <1>2, <2>1 DEF CreatedFirst
<1> QED
  BY <1>3, <1>4
-----------------------------------------------------------------------------
(* What is left of a program still means its event.                        *)

LEMMA AheadLater ==
  ASSUME NEW n, NEW p, Ahead(n, p), Len(p) \in Nat, NEW k \in 0..Len(p), NEW q,
         Len(q) = Len(p) - k, \A i \in 1..Len(q) : q[i] = p[k + i]
  PROVE  Ahead(n, q)
<1>1. \A i \in 1..Len(q) : k + i \in 1..Len(p)
  OBVIOUS
<1>2. \A i \in 1..Len(q) : Means(n, q[i])
  BY <1>1 DEF Ahead
<1>3. ASSUME NEW i \in 1..Len(q), NEW j \in (k + i + 1)..Len(p)
      PROVE  j - k \in (i + 1)..Len(q) /\ q[j - k] = p[j]
  <2>1. j - k \in (i + 1)..Len(q) /\ k + (j - k) = j /\ j - k \in 1..Len(q)
    OBVIOUS
  <2> QED
    BY <2>1
<1>4. Followed(n, q)
  <2> SUFFICES ASSUME NEW i \in 1..Len(q)
               PROVE  /\ q[i].op = "upsert" /\ q[i].key[1] = "whitelisted" =>
                           \E j \in (i + 1)..Len(q) : q[j].op = "compute"
                      /\ q[i].op \in {"save", "write"} /\ q[i].key[1] = "pair"
                             /\ Kind(n) = "created" /\ ~CL(log[n].pool) =>
                           \E j \in (i + 1)..Len(q) : q[j].op = "query"
    BY DEF Followed
  <2>1. k + i \in 1..Len(p) /\ q[i] = p[k + i]
    BY <1>1
  <2>2. ASSUME q[i].op = "upsert", q[i].key[1] = "whitelisted"
        PROVE  \E j \in (i + 1)..Len(q) : q[j].op = "compute"
    <3>1. PICK j \in (k + i + 1)..Len(p) : p[j].op = "compute"
      BY <2>1, <2>2 DEF Ahead, Followed
    <3>2. j - k \in (i + 1)..Len(q) /\ q[j - k] = p[j]
      BY <1>3
    <3> QED
      BY <3>1, <3>2
  <2>3. ASSUME q[i].op \in {"save", "write"}, q[i].key[1] = "pair", Kind(n) = "created",
               ~CL(log[n].pool)
        PROVE  \E j \in (i + 1)..Len(q) : q[j].op = "query"
    <3>1. PICK j \in (k + i + 1)..Len(p) : p[j].op = "query"
      BY <2>1, <2>3 DEF Ahead, Followed
    <3>2. j - k \in (i + 1)..Len(q) /\ q[j - k] = p[j]
      BY <1>3
    <3> QED
      BY <3>1, <3>2
  <2> QED
    BY <2>2, <2>3
<1> QED
  BY <1>2, <1>4 DEF Ahead

LEMMA AheadJoined ==
  ASSUME NEW n, NEW x, Sequence(x), NEW r, Sequence(r), Ahead(n, r), NEW q, q = x \o r,
         \A i \in 1..Len(x) :
           /\ Means(n, x[i]) /\ ~(x[i].op = "upsert" /\ x[i].key[1] = "whitelisted")
           /\ x[i].op \in {"save", "write"} /\ x[i].key[1] = "pair" /\ Kind(n) = "created"
                /\ ~CL(log[n].pool) => \E j \in 1..Len(r) : r[j].op = "query"
  PROVE  Ahead(n, q)
<1>1. /\ Len(x) \in Nat /\ Len(r) \in Nat /\ Len(q) = Len(x) + Len(r)
      /\ \A i \in 1..Len(x) : q[i] = x[i]
      /\ \A i \in 1..Len(r) : q[Len(x) + i] = r[i]
  BY Joined DEF Sequence
<1>2. ASSUME NEW i \in 1..Len(q), i > Len(x)
      PROVE  i - Len(x) \in 1..Len(r) /\ q[i] = r[i - Len(x)]
  <2>1. i - Len(x) \in 1..Len(r) /\ Len(x) + (i - Len(x)) = i
    BY <1>1, <1>2
  <2> QED
    BY <1>1, <2>1
<1>3. \A i \in 1..Len(q) : Means(n, q[i])
  <2> TAKE i \in 1..Len(q)
  <2>1. CASE i \in 1..Len(x)
    BY <1>1, <2>1
  <2>2. CASE i > Len(x)
    BY <1>2, <2>2 DEF Ahead
  <2> QED
    BY <1>1, <2>1, <2>2
<1>4. ASSUME NEW i \in 1..Len(q), q[i].op = "upsert", q[i].key[1] = "whitelisted"
      PROVE  \E j \in (i + 1)..Len(q) : q[j].op = "compute"
  <2>1. i > Len(x)
    BY <1>1, <1>4
  <2>2. PICK h : h = i - Len(x)
    OBVIOUS
  <2>3. h \in 1..Len(r) /\ q[i] = r[h]
    BY <1>2, <2>1, <2>2
  <2>4. PICK j \in (h + 1)..Len(r) : r[j].op = "compute"
    BY <1>4, <2>3 DEF Ahead, Followed
  <2>5. Len(x) + j \in (i + 1)..Len(q) /\ q[Len(x) + j] = r[j]
    BY <1>1, <2>2, <2>3
  <2> QED
    BY <2>4, <2>5
<1>5. ASSUME NEW i \in 1..Len(q), q[i].op \in {"save", "write"}, q[i].key[1] = "pair",
             Kind(n) = "created", ~CL(log[n].pool)
      PROVE  \E j \in (i + 1)..Len(q) : q[j].op = "query"
  <2>1. CASE i \in 1..Len(x)
    <3>1. PICK j \in 1..Len(r) : r[j].op = "query"
      BY <1>1, <1>5, <2>1
    <3>2. Len(x) + j \in (i + 1)..Len(q) /\ q[Len(x) + j] = r[j]
      BY <1>1, <2>1
    <3> QED
      BY <3>1, <3>2
  <2>2. CASE i > Len(x)
    <3>1. PICK h : h = i - Len(x)
      OBVIOUS
    <3>2. h \in 1..Len(r) /\ q[i] = r[h]
      BY <1>2, <2>2, <3>1
    <3>3. PICK j \in (h + 1)..Len(r) : r[j].op = "query"
      BY <1>5, <3>2 DEF Ahead, Followed
    <3>4. Len(x) + j \in (i + 1)..Len(q) /\ q[Len(x) + j] = r[j]
      BY <1>1, <3>1, <3>2
    <3> QED
      BY <3>3, <3>4
  <2> QED
    BY <1>1, <2>1, <2>2
<1>6. Followed(n, q)
  BY <1>4, <1>5 DEF Followed
<1> QED
  BY <1>3, <1>6 DEF Ahead

LEMMA AheadRest ==
  ASSUME IInv, Follows, NEW a \in Actor, todo[a] # << >>
  PROVE  /\ Ahead(at[a], Rest(a)) /\ Sequence(Rest(a))
         /\ S(a) = todo[a][1] /\ 1 \in 1..Len(todo[a]) /\ Len(Rest(a)) = Len(todo[a]) - 1
         /\ Means(at[a], S(a)) /\ StatementFits(a, S(a)) /\ Len(todo[a]) \in Nat
         /\ \A i \in 1..Len(Rest(a)) : /\ Rest(a)[i] = todo[a][1 + i]
                                       /\ Rest(a)[i].op # "write"
<1>1. /\ Program(a, todo[a]) /\ Ahead(at[a], todo[a])
  BY DEF IInv, Follows
<1>2. Len(todo[a]) \in Nat
  BY <1>1 DEF Program, Sequence
<1>3. /\ S(a) = todo[a][1] /\ 1 \in 1..Len(todo[a]) /\ StatementFits(a, S(a))
      /\ Sequence(Rest(a)) /\ Len(Rest(a)) = Len(todo[a]) - 1
      /\ \A i \in 1..Len(Rest(a)) : Rest(a)[i] = todo[a][1 + i] /\ Rest(a)[i].op \notin {"write", "candle"}
  BY <1>1, RestStep
<1>4. Means(at[a], S(a))
  BY <1>1, <1>3 DEF Ahead
<1>5. Ahead(at[a], Rest(a))
  <2>1. PICK n, p, q : n = at[a] /\ p = todo[a] /\ q = Rest(a)
    OBVIOUS
  <2>2. /\ Ahead(n, p) /\ Len(p) \in Nat /\ 1 \in 0..Len(p) /\ Len(q) = Len(p) - 1
        /\ \A i \in 1..Len(q) : q[i] = p[1 + i]
    BY <1>1, <1>2, <1>3, <2>1
  <2>3. Ahead(n, q)
    BY ONLY <2>2, AheadLater
  <2> QED
    BY <2>1, <2>3
<1> QED
  BY <1>2, <1>3, <1>4, <1>5

\* The cells of what a statement does not set, when the rest is as it was.
LEMMA RestGrown ==
  ASSUME IInv, Follows, NEW a \in Actor, todo[a] # << >>, NEW q, q = Rest(a), Moves(a, q), NEW k, NEW c,
         at[a] \in SetBy(k, c) => ~Sets(S(a), k, c)
  PROVE  Due(k, c) \subseteq Due(k, c)'
<1>1. Program(a, todo[a])
  BY DEF IInv
<1>2. at[a] \in SetBy(k, c) /\ Yet(a, k, c) => YetIn(q, k, c)
  BY <1>1, YetRest
<1> QED
  BY <1>2, Grown

\* A statement goes on to the next.
LEMMA GoesOn ==
  ASSUME IInv, Follows, NEW a \in Actor, todo[a] # << >>, NEW q, q = Rest(a), Moves(a, q), Spares(a),
         Kind(at[a]) \notin SettingTypes => Row(Tiers)' = Row(Tiers),
         SettingRows', \A p \in Pool : PairHolds(p)',
         \A p \in Pool : Row(Pair(p))' = NoRow => Row(Pair(p)) = NoRow,
         \A p \in Pool : S(a).op \in {"save", "write"} /\ S(a).key = Pair(p) => Row(Pair(p))' # NoRow
  PROVE  Follows'
<1>1. PICK n, p : n = at[a] /\ p = todo[a]
  OBVIOUS
<1>2. /\ Ahead(n, q) /\ Sequence(q) /\ S(a) = p[1] /\ Len(q) = Len(p) - 1 /\ Len(p) \in Nat
      /\ \A i \in 1..Len(q) : q[i] = p[1 + i] /\ q[i].op # "write"
  BY <1>1, AheadRest
<1>3. Ahead(at[a], q)'
  <2>1. "created" \notin SettingTypes
    BY DEF SettingTypes
  <2>2. Ahead(n, q)'
    BY <1>1, <1>2, <2>1, AheadKept DEF Moves
  <2>3. at' = at
    BY DEF Moves
  <2> QED
    BY <1>1, <2>2, <2>3
<1>4. ~At(a, {"write"})'
  <2>1. todo'[a] = q
    BY DEF Moves, IInv, Actors
  <2>2. q # << >> => Head(q) = q[1] /\ 1 \in 1..Len(q)
    BY <1>2, TailIsSuffix
  <2> QED
    BY <1>2, <2>1, <2>2 DEF At, S
<1>5. ASSUME NEW u \in Pool PROVE CreatedFirst(u)'
  <2>1. ASSUME Row(Pair(u))' = NoRow, NEW i \in 1..Len(p), p[i].op \in {"save", "write"}, p[i].key = Pair(u)
        PROVE  \E j \in 1..Len(q) : q[j].op \in {"save", "write"} /\ q[j].key = Pair(u)
    <3>1. i # 1
      BY <1>2, <2>1
    <3>2. i - 1 \in 1..Len(q) /\ 1 + (i - 1) = i
      BY <1>2, <3>1
    <3> QED
      BY <1>2, <2>1, <3>2
  <2> QED
    BY <1>1, <2>1, CreatedKept
<1> QED
  BY <1>3, <1>4, <1>5, Onward

\* A step that sets nothing.
LEMMA NothingSet ==
  ASSUME IInv, log \in Logs(scenario), Follows, NEW a \in Actor, NEW q, Moves(a, q),
         raced \subseteq raced',
         \A k, c : Column(k, c) /\ at[a] \in SetBy(k, c) /\ Yet(a, k, c) => YetIn(q, k, c),
         \A k : IsSetting(k) => Row(k)' = Row(k),
         \A p \in Pool : Row(Pair(p))' # NoRow /\ Pair(p) \notin raced' => Alike(Row(Pair(p))', Old(p))
  PROVE  SettingRows' /\ \A p \in Pool : PairHolds(p)'
<1>1. \A k, c : Column(k, c) => Due(k, c) \subseteq Due(k, c)'
  BY Grown
<1>2. SettingRows'
  <2>1. \A x \in Cells : Due(x[1], x[2]) \subseteq Due(x[1], x[2])'
    BY <1>1, CellsAreColumns
  <2> QED
    BY <2>1, SettingsOn DEF Follows, Moves
<1>3. BothWhitelisted <=> BothWhitelisted'
  <2>1. \A side \in Side : Row(Whitelisted(side))' = Row(Whitelisted(side))
    BY DEF IsSetting, Whitelisted
  <2>2. \A side \in Side : Row(Whitelisted(side)) # NoRow => rows'[Whitelisted(side)] = rows[Whitelisted(side)]
    BY <2>1 DEF Row
  <2> QED
    BY <2>1, <2>2 DEF BothWhitelisted
<1>4. ASSUME NEW p \in Pool PROVE PairHolds(p)'
  <2>1. \A c \in {"own", "tier", "created", "gauge"} : Due(Pair(p), c) \subseteq Due(Pair(p), c)'
    BY <1>1, CellsAreColumns
  <2> QED
    BY <1>3, <2>1, PairKept DEF Moves
<1> QED
  BY <1>2, <1>4
-----------------------------------------------------------------------------
(* The statements of any handler that set nothing.                         *)

LEMMA PairThere ==
  ASSUME scenario \in Scenarios, Rows, NEW p \in Pool, Pair(p) \in DOMAIN rows
  PROVE  rows[Pair(p)] \in PairRow(scenario.days) /\ rows[Pair(p)] # NoRow
<1>1. rows[Pair(p)] \in PairRow(scenario.days)
  BY Keys DEF Rows, Fits
<1> QED
  BY <1>1, ScenariosAssumption

LEMMA Effect ==
  ASSUME IInv, IInv', scenario' = scenario, NEW a \in Actor, NEW f, Write(a, f)
  PROVE  /\ Spares(a)
         /\ \A k : Row(k)' = IF k \in DOMAIN f THEN f[k] ELSE Row(k)
         /\ \A p \in Pool : Row(Pair(p))' = NoRow => Row(Pair(p)) = NoRow
<1>1. /\ rows' = Over(f, rows)
      /\ raced' = raced \cup {k \in DOMAIN f : \E b \in Actor \ {a} : held[b].key = k}
  BY DEF Write
<1>2. /\ DOMAIN rows' = DOMAIN f \cup DOMAIN rows
      /\ \A k \in DOMAIN rows' : rows'[k] = IF k \in DOMAIN f THEN f[k] ELSE rows[k]
  BY <1>1 DEF Over
<1>3. \A k : Row(k)' = IF k \in DOMAIN f THEN f[k] ELSE Row(k)
  BY <1>2 DEF Row
<1>4. Spares(a)
  BY <1>1, <1>3 DEF Spares
<1>5. ASSUME NEW p \in Pool, Row(Pair(p))' = NoRow PROVE Row(Pair(p)) = NoRow
  <2>1. ASSUME Pair(p) \in DOMAIN rows' PROVE FALSE
    <3>1. Fits(Pair(p), rows[Pair(p)])'
      BY <2>1 DEF IInv, Rows
    <3>2. rows'[Pair(p)] \in PairRow(scenario'.days)
      BY <3>1, Keys DEF Fits, PairRow
    <3>3. rows'[Pair(p)] # NoRow
      BY <3>2, ScenariosAssumption DEF IInv, Actors
    <3> QED
      BY <1>5, <2>1, <3>3 DEF Row
  <2> QED
    BY <1>2, <2>1 DEF Row
<1> QED
  BY <1>3, <1>4, <1>5

LEMMA AlikeBy ==
  ASSUME NEW r, NEW o, r.dyn = o.dyn, r.bps = o.bps, r.src = o.src, r.gauge = o.gauge, r.cl = o.cl
  PROVE  Alike(r, o)
<1>1. PICK f, g : f = FeeOf(r) /\ g = FeeOf(o)
  OBVIOUS
<1>2. /\ f = [c \in {"dyn", "bps", "src"} |-> f[c]] /\ f.dyn = r.dyn /\ f.bps = r.bps /\ f.src = r.src
      /\ g = [c \in {"dyn", "bps", "src"} |-> g[c]] /\ g.dyn = o.dyn /\ g.bps = o.bps /\ g.src = o.src
  BY <1>1, FeeOfColumns
<1>3. \A c \in {"dyn", "bps", "src"} : f[c] = g[c]
  BY <1>2
<1>4. f = g
  BY ONLY <1>2, <1>3
<1> QED
  BY <1>1, <1>4 DEF Alike

\* Columns beside those of the fee and the gauge.
LEMMA PatchedAlike ==
  ASSUME NEW n, NEW r \in PairRow(n), NEW f, DOMAIN f \cap {"dyn", "bps", "src", "gauge", "cl"} = {}
  PROVE  Alike(Over(f, r), r)
<1>1. DOMAIN r = PairColumns
  BY PairRowColumns
<1>2. \A c \in {"dyn", "bps", "src", "gauge", "cl"} : Over(f, r)[c] = r[c]
  BY <1>1 DEF Over, PairColumns
<1> QED
  BY <1>2, AlikeBy

LEMMA AlikeItself ==
  ASSUME NEW p, Row(Pair(p)) # NoRow
  PROVE  Alike(Row(Pair(p)), Old(p))
  BY DEF Alike, Old

LEMMA PlainlyOn ==
  ASSUME IInv, log \in Logs(scenario), Follows, NEW a \in Actor, todo[a] # << >>,
         S(a).op \notin {"save", "write"}, NEW q, q = Rest(a), Moves(a, q), Spares(a),
         \A k, c : Column(k, c) /\ at[a] \in SetBy(k, c) => ~Sets(S(a), k, c),
         \A k : IsSetting(k) => Row(k)' = Row(k),
         \A p \in Pool : /\ Row(Pair(p))' = NoRow => Row(Pair(p)) = NoRow
                         /\ Row(Pair(p))' # NoRow /\ Pair(p) \notin raced' => Alike(Row(Pair(p))', Old(p))
  PROVE  Follows'
<1>1. Program(a, todo[a]) /\ raced \subseteq raced'
  BY DEF IInv, Spares
<1>2. ASSUME NEW k, NEW c, Column(k, c), at[a] \in SetBy(k, c), Yet(a, k, c) PROVE YetIn(q, k, c)
  BY <1>1, <1>2, YetRest
<1>3. SettingRows' /\ \A p \in Pool : PairHolds(p)'
  BY <1>1, <1>2, NothingSet
<1>4. IsSetting(Tiers)
  BY DEF IsSetting, Tiers
<1> QED
  BY <1>3, <1>4, GoesOn

\* What is neither a setting nor a creation sets no column.
LEMMA NoneSet ==
  ASSUME IInv, log \in Logs(scenario), NEW n, Kind(n) \notin SettingTypes \cup {"created"}
  PROVE  \A k, c : Column(k, c) => n \notin SetBy(k, c)
  BY SetsNothing DEF IInv, Actors

LEMMA CandleFollows ==
  ASSUME IInv, IInv', log \in Logs(scenario), Follows, NEW a \in Actor, RunCandle(a)
  PROVE  Follows'
<1>1. PICK q : q = Rest(a)
  OBVIOUS
<1>2. todo[a] # << >> /\ S(a).op = "candle" /\ Moves(a, q) /\ rows' = rows /\ raced' = raced
  BY <1>1 DEF RunCandle, Is, Become, Untouched, Moves
<1>3. \A k : Row(k)' = Row(k)
  BY <1>2 DEF Row
<1>4. Spares(a) /\ \A k, c : ~Sets(S(a), k, c)
  BY <1>2, <1>3 DEF Spares, Sets
<1> QED
  BY <1>1, <1>2, <1>3, <1>4, AlikeItself, PlainlyOn

LEMMA SetFollows ==
  ASSUME IInv, IInv', log \in Logs(scenario), Follows, NEW a \in Actor, RunSet(a)
  PROVE  Follows'
<1>1. PICK q, s, new, f :
        /\ q = Rest(a) /\ s = S(a) /\ new = Edited(s.edit, held[a].row) /\ f = [c \in s.cols |-> new[c]]
  OBVIOUS
<1>2. PICK w : w = One(s.key, Over(f, Row(s.key)))
  OBVIOUS
<1>3. todo[a] # << >> /\ s.op = "set" /\ Moves(a, q) /\ Write(a, w) /\ scenario' = scenario
  BY <1>1, <1>2 DEF RunSet, Is, Become, Untouched, Moves
<1>4. Program(a, todo[a]) /\ Holding(a) /\ scenario \in Scenarios /\ Rows
  BY DEF IInv, Actors
<1>5. s.key[1] = "pair" /\ s.cols = {"liquidity", "price"}
  <2>1. StatementFits(a, s)
    BY <1>1, <1>3, <1>4, RestStep
  <2> QED
    BY <1>3, <2>1 DEF StatementFits
<1>6. Row(s.key) # NoRow
  <2>1. At(a, {"save", "set", "write"}) /\ ~At(a, {"write"}) /\ Needy(s)
    BY <1>1, <1>3 DEF At, Needy
  <2>2. held[a].key = s.key
    BY <1>1, <1>4, <2>1 DEF Holding
  <2> QED
    BY <1>1, <1>4, <1>5, <2>1, <2>2 DEF Holding, Profile
<1>7. /\ Spares(a)
      /\ \A k : Row(k)' = IF k = s.key THEN Over(f, Row(s.key)) ELSE Row(k)
      /\ \A p \in Pool : Row(Pair(p))' = NoRow => Row(Pair(p)) = NoRow
  <2>1. DOMAIN w = {s.key} /\ w[s.key] = Over(f, Row(s.key))
    BY <1>2 DEF One
  <2>2. /\ Spares(a)
        /\ \A k : Row(k)' = IF k \in DOMAIN w THEN w[k] ELSE Row(k)
        /\ \A p \in Pool : Row(Pair(p))' = NoRow => Row(Pair(p)) = NoRow
    BY <1>3, Effect
  <2> QED
    BY <2>1, <2>2
<1>8. ASSUME NEW k, IsSetting(k) PROVE k # s.key
  BY <1>5, <1>8 DEF IsSetting
<1>9. ASSUME NEW p \in Pool, Row(Pair(p))' # NoRow PROVE Alike(Row(Pair(p))', Old(p))
  <2>1. CASE Pair(p) = s.key
    <3>1. rows[Pair(p)] \in PairRow(scenario.days) /\ Row(Pair(p)) = rows[Pair(p)] /\ Old(p) = Row(Pair(p))
      BY <1>4, <1>6, <2>1, PairThere DEF Row, Old
    <3>2. DOMAIN f = {"liquidity", "price"}
      BY <1>1, <1>5
    <3>3. Alike(Over(f, rows[Pair(p)]), rows[Pair(p)])
      BY <3>1, <3>2, PatchedAlike
    <3> QED
      BY <1>7, <2>1, <3>1, <3>3
  <2>2. CASE Pair(p) # s.key
    BY <1>7, <1>9, <2>2, AlikeItself
  <2> QED
    BY <2>1, <2>2
<1>10. \A k, c : ~Sets(s, k, c)
  BY <1>3 DEF Sets
<1> QED
  BY <1>1, <1>3, <1>7, <1>8, <1>9, <1>10, PlainlyOn

LEMMA PlainUpsertFollows ==
  ASSUME IInv, IInv', log \in Logs(scenario), Follows, NEW a \in Actor, RunUpsert(a), ~IsSetting(S(a).key)
  PROVE  Follows'
<1>1. PICK q, s, r : q = Rest(a) /\ s = S(a) /\ r = IF Row(s.key) = NoRow THEN s.new ELSE Over(s.patch, Row(s.key))
  OBVIOUS
<1>2. PICK w : w = One(s.key, r)
  OBVIOUS
<1>3. todo[a] # << >> /\ s.op = "upsert" /\ Moves(a, q) /\ Write(a, w) /\ scenario' = scenario
  BY <1>1, <1>2 DEF RunUpsert, Is, Become, Untouched, Moves
<1>4. Program(a, todo[a]) /\ scenario \in Scenarios /\ Rows
  BY DEF IInv, Actors
<1>5. s.key[1] # "pair"
  <2>1. StatementFits(a, s)
    BY <1>1, <1>3, <1>4, RestStep
  <2> QED
    BY <1>3, <2>1 DEF StatementFits
<1>6. Spares(a) /\ \A k : k # s.key => Row(k)' = Row(k)
  <2>1. DOMAIN w = {s.key}
    BY <1>2 DEF One
  <2> QED
    BY <1>3, <2>1, Effect
<1>7. \A p \in Pool : Row(Pair(p))' = Row(Pair(p))
  BY <1>5, <1>6, Keys
<1>8. \A k : IsSetting(k) => Row(k)' = Row(k)
  BY <1>1, <1>6
<1>9. ASSUME NEW k, NEW c, Column(k, c) PROVE ~Sets(s, k, c)
  BY <1>1, <1>3 DEF Sets
<1> QED
  BY <1>1, <1>3, <1>6, <1>7, <1>8, <1>9, AlikeItself, PlainlyOn

LEMMA AccountFollows ==
  ASSUME IInv, IInv', log \in Logs(scenario), Follows, NEW a \in Actor, RunCompute(a), S(a).keys = {Account}
  PROVE  Follows'
<1>1. PICK q, s, w : q = Rest(a) /\ s = S(a) /\ w = [k \in s.keys \cap DOMAIN rows |-> Computed(s.expr, rows[k])]
  OBVIOUS
<1>2. todo[a] # << >> /\ s.op = "compute" /\ Moves(a, q) /\ Write(a, w) /\ scenario' = scenario
  BY <1>1 DEF RunCompute, Is, Become, Untouched, Moves
<1>3. Spares(a) /\ \A k : k # Account => Row(k)' = Row(k)
  BY <1>1, <1>2, Effect
<1>4. (\A p \in Pool : Pair(p) # Account) /\ \A k : IsSetting(k) => k # Account
  BY DEF Pair, Account, IsSetting
<1>5. ASSUME NEW k, NEW c, Column(k, c) PROVE ~Sets(s, k, c)
  BY <1>1, <1>2, <1>4, <1>5, CellsAreColumns DEF Sets, Column
<1> QED
  BY <1>1, <1>2, <1>3, <1>4, <1>5, AlikeItself, PlainlyOn

LEMMA ListedFollows ==
  ASSUME IInv, IInv', log \in Logs(scenario), Follows, NEW a \in Actor, RunUpdate(a),
         DOMAIN S(a).patch = {"listed"}, Kind(at[a]) \notin SettingTypes \cup {"created"}
  PROVE  Follows'
<1>1. PICK q, s, K, w : /\ q = Rest(a) /\ s = S(a)
                        /\ K = {k \in s.keys : Row(k) # NoRow /\ rows[k].src \in s.where}
                        /\ w = [k \in K |-> Over(s.patch, rows[k])]
  OBVIOUS
<1>2. todo[a] # << >> /\ s.op = "update" /\ Moves(a, q) /\ Write(a, w) /\ scenario' = scenario
  BY <1>1 DEF RunUpdate, Is, Become, Untouched, Moves
<1>3. Program(a, todo[a]) /\ scenario \in Scenarios /\ Rows
  BY DEF IInv, Actors
<1>4. \A k \in s.keys : k[1] = "pair"
  <2>1. StatementFits(a, s)
    BY <1>1, <1>2, <1>3, RestStep
  <2> QED
    BY <1>2, <2>1 DEF StatementFits
<1>5. /\ Spares(a)
      /\ \A k : Row(k)' = IF k \in K THEN Over(s.patch, rows[k]) ELSE Row(k)
      /\ \A p \in Pool : Row(Pair(p))' = NoRow => Row(Pair(p)) = NoRow
  <2>1. DOMAIN w = K /\ \A k \in K : w[k] = Over(s.patch, rows[k])
    BY <1>1
  <2>2. /\ Spares(a)
        /\ \A k : Row(k)' = IF k \in DOMAIN w THEN w[k] ELSE Row(k)
        /\ \A p \in Pool : Row(Pair(p))' = NoRow => Row(Pair(p)) = NoRow
    BY <1>2, Effect
  <2> QED
    BY <2>1, <2>2
<1>6. ASSUME NEW k, IsSetting(k) PROVE k \notin K
  BY <1>1, <1>4, <1>6 DEF IsSetting
<1>7. ASSUME NEW p \in Pool, Row(Pair(p))' # NoRow PROVE Alike(Row(Pair(p))', Old(p))
  <2>1. CASE Pair(p) \in K
    <3>1. Row(Pair(p)) = rows[Pair(p)] /\ Pair(p) \in DOMAIN rows /\ Old(p) = Row(Pair(p))
      BY <1>1, <2>1 DEF Row, Old
    <3>2. Alike(Over(s.patch, rows[Pair(p)]), rows[Pair(p)])
      BY <1>1, <1>3, <3>1, PairThere, PatchedAlike
    <3> QED
      BY <1>5, <2>1, <3>1, <3>2
  <2>2. CASE Pair(p) \notin K
    BY <1>5, <1>7, <2>2, AlikeItself
  <2> QED
    BY <2>1, <2>2
<1>8. \A k, c : Column(k, c) => at[a] \notin SetBy(k, c)
  BY NoneSet
<1> QED
  BY <1>1, <1>2, <1>5, <1>6, <1>7, <1>8, PlainlyOn
-----------------------------------------------------------------------------
(* The statements that set a setting.                                      *)

LEMMA BothSeen ==
  /\ BothWhitelisted <=> \A side \in Side : Seen(Whitelisted(side)).on
  /\ BothWhitelisted' <=> \A side \in Side : Seen(Whitelisted(side))'.on
<1>1. ASSUME NEW side PROVE Seen(Whitelisted(side)).on <=> Row(Whitelisted(side)) # NoRow /\ rows[Whitelisted(side)].on
  <2>1. Blank(Whitelisted(side)) = [on |-> FALSE]
    BY DEF Blank, Whitelisted
  <2> QED
    BY <2>1 DEF Seen, Shown
<1>2. ASSUME NEW side
      PROVE  Seen(Whitelisted(side))'.on <=> Row(Whitelisted(side))' # NoRow /\ rows'[Whitelisted(side)].on
  <2>1. Blank(Whitelisted(side))' = [on |-> FALSE]
    BY DEF Blank, Whitelisted
  <2> QED
    BY <2>1 DEF Seen, Shown
<1> QED
  BY <1>1, <1>2 DEF BothWhitelisted

LEMMA BlankCells ==
  ASSUME NEW x \in Cells, NEW c \in DOMAIN Blank(x[1])
  PROVE  /\ Blank(x[1])[c] = IF x[1][1] = "whitelisted" THEN FALSE ELSE Unset
         /\ <<x[1], c>> \in Cells
<1>1. PICK k : k = x[1]
  OBVIOUS
<1>2. /\ \A p \in Pool : <<Curve(p), "base">> \in Cells /\ <<Curve(p), "cap">> \in Cells
      /\ \A side \in Side : <<Whitelisted(side), "on">> \in Cells
      /\ <<Tiers, "volatile">> \in Cells /\ <<Tiers, "stable">> \in Cells
      /\ <<Defaults, "value">> \in Cells /\ <<Discount, "value">> \in Cells
  BY DEF Cells
<1>3. \/ k \in {Defaults, Discount, Tiers}
      \/ \E p \in Pool : k = Curve(p)
      \/ \E side \in Side : k = Whitelisted(side)
  BY <1>1 DEF Cells
<1>4. CASE k \in {Defaults, Discount}
  <2>1. k[1] # "whitelisted" /\ Blank(k) = [value |-> Unset]
    BY <1>4 DEF Blank, Defaults, Discount
  <2> QED
    BY <1>1, <1>2, <1>4, <2>1
<1>5. CASE k = Tiers
  <2>1. k[1] # "whitelisted" /\ Blank(k) = [volatile |-> Unset, stable |-> Unset]
    BY <1>5 DEF Blank, Tiers, NoTiers
  <2> QED
    BY <1>1, <1>2, <1>5, <2>1
<1>6. ASSUME NEW p \in Pool, k = Curve(p)
      PROVE  Blank(k)[c] = (IF k[1] = "whitelisted" THEN FALSE ELSE Unset) /\ <<k, c>> \in Cells
  <2>1. k[1] # "whitelisted" /\ Blank(k) = [base |-> Unset, cap |-> Unset]
    BY <1>6 DEF Blank, Curve, NoCurve
  <2>2. c \in {"base", "cap"} /\ Blank(k)[c] = Unset
    BY <1>1, <2>1
  <2>3. <<Curve(p), "base">> \in Cells /\ <<Curve(p), "cap">> \in Cells
    BY <1>2
  <2> QED
    BY <1>6, <2>1, <2>2, <2>3
<1>7. ASSUME NEW side \in Side, k = Whitelisted(side)
      PROVE  Blank(k)[c] = (IF k[1] = "whitelisted" THEN FALSE ELSE Unset) /\ <<k, c>> \in Cells
  <2>1. k[1] = "whitelisted" /\ Blank(k) = [on |-> FALSE]
    BY <1>7 DEF Blank, Whitelisted
  <2>2. c = "on" /\ Blank(k)[c] = FALSE
    BY <1>1, <2>1
  <2>3. <<Whitelisted(side), "on">> \in Cells
    BY <1>2
  <2> QED
    BY <1>7, <2>1, <2>2, <2>3
<1> QED
  BY <1>1, <1>3, <1>4, <1>5, <1>6, <1>7

LEMMA SettingIsRow ==
  ASSUME NEW x \in Cells, NEW r, SettingFits(x[1], r)
  PROVE  r # NoRow
<1>1. PICK k, D, V : /\ k = x[1] /\ D = DOMAIN Blank(k)
                     /\ V = IF k[1] = "whitelisted" THEN BOOLEAN ELSE FeeBps \cup {Unset}
  OBVIOUS
<1>2. DOMAIN r = D /\ r = [c \in D |-> r[c]] /\ \A c \in D : r[c] \in V
  BY <1>1 DEF SettingFits
<1>3. \/ k[1] = "curve" /\ D = {"base", "cap"}
      \/ k[1] = "tiers" /\ D = {"volatile", "stable"}
      \/ k[1] = "whitelisted" /\ D = {"on"}
      \/ k[1] \in {"defaults", "discount"} /\ D = {"value"}
  BY <1>1 DEF Cells, Blank, NoCurve, NoTiers, Defaults, Discount, Curve, Whitelisted, Tiers
<1>4. r \in SettingRow
  <2>1. CASE D = {"base", "cap"} /\ k[1] = "curve"
    <3>1. r = [base |-> r.base, cap |-> r.cap] /\ r.base \in FeeBps \cup {Unset} /\ r.cap \in FeeBps \cup {Unset}
      BY <1>1, <1>2, <2>1
    <3> QED
      BY <3>1 DEF SettingRow
  <2>2. CASE D = {"volatile", "stable"} /\ k[1] = "tiers"
    <3>1. /\ r = [volatile |-> r.volatile, stable |-> r.stable]
          /\ r.volatile \in FeeBps \cup {Unset} /\ r.stable \in FeeBps \cup {Unset}
      BY <1>1, <1>2, <2>2
    <3> QED
      BY <3>1 DEF SettingRow
  <2>3. CASE D = {"on"} /\ k[1] = "whitelisted"
    <3>1. r = [on |-> r.on] /\ r.on \in BOOLEAN
      BY <1>1, <1>2, <2>3
    <3> QED
      BY <3>1 DEF SettingRow
  <2>4. CASE D = {"value"} /\ k[1] # "whitelisted"
    <3>1. r = [value |-> r.value] /\ r.value \in FeeBps \cup {Unset}
      BY <1>1, <1>2, <2>4
    <3> QED
      BY <3>1 DEF SettingRow
  <2> QED
    BY <1>3, <2>1, <2>2, <2>3, <2>4
<1> QED
  BY <1>4, SettingsAssumption

\* What an event sets a cell to.
LEMMA GivenFits ==
  ASSUME scenario \in Scenarios, log \in Logs(scenario), NEW x \in Cells, NEW n \in SetBy(x[1], x[2])
  PROVE  Given(n) \in IF x[1][1] = "whitelisted" THEN BOOLEAN ELSE FeeBps \cup {Unset}
<1>1. PICK k, c, e : k = x[1] /\ c = x[2] /\ e = log[n]
  OBVIOUS
<1>2. Column(k, c) /\ IsSetting(k)
  BY <1>1, CellsAreColumns
<1>3. n \in DOMAIN log /\ EventFits(e)
  BY <1>1, <1>2, SetOf, LogFacts
<1>4. \/ e.type \in {"undiscount", "feeReset"} /\ k[1] # "whitelisted"
      \/ e.type \in {"default", "discount", "setFee", "moduleFee", "capSet"} /\ k[1] # "whitelisted"
      \/ e.type = "whitelist" /\ k[1] = "whitelisted"
  <2>1. \A p : Pair(p) # k
    BY <1>2, NoSettings
  <2> QED
    BY <1>1, <1>2, <2>1, SetOf DEF Defaults, Discount, Tiers, Whitelisted, Curve
<1>5. e.type = "whitelist" => e.on \in BOOLEAN
  BY <1>1, <1>3, LogFacts
<1>6. e.type \in {"default", "discount", "setFee", "moduleFee", "capSet"} => e.bps \in FeeBps
  BY <1>3 DEF EventFits
<1> QED
  BY <1>1, <1>4, <1>5, <1>6 DEF Given

\* One row of settings changes, in the cells that the event sets.
LEMMA SettingChanged ==
  ASSUME IInv, log \in Logs(scenario), Follows, NEW a \in Actor, todo[a] # << >>,
         NEW q, q = Rest(a), Moves(a, q), Spares(a), Kind(at[a]) \in SettingTypes,
         NEW k, IsSetting(k), S(a).op \in {"upsert", "delete"}, S(a).key = k,
         \A j : j # k => Row(j)' = Row(j),
         \A x \in Cells : x[1] = k =>
           /\ Row(k)' # NoRow => SettingFits(k, Row(k)')
           /\ \/ at[a] \in SetBy(k, x[2]) /\ Seen(k)'[x[2]] = Given(at[a])
              \/ ~Sets(S(a), k, x[2]) /\ Seen(k)'[x[2]] = Seen(k)[x[2]],
         (BothWhitelisted <=> BothWhitelisted') \/ \A p \in Pool : Due(Pair(p), "gauge")' # {}
  PROVE  Follows'
<1>1. /\ log' = log /\ UNCHANGED <<log, next, at, selected>> /\ Ordered /\ at[a] # 0
      /\ Program(a, todo[a]) /\ raced \subseteq raced' /\ scenario \in Scenarios
  BY DEF Moves, Follows, IInv, Spares, Kind, SettingTypes, Actors
<1>2. a \in Handlers
  BY <1>1, OnlyHandler
<1>3. ASSUME NEW j, NEW c, at[a] \in SetBy(j, c) => ~Sets(S(a), j, c)
      PROVE  Due(j, c) \subseteq Due(j, c)'
  BY <1>3, RestGrown
<1>4. Cells' = Cells /\ \A j : Blank(j)' = Blank(j)
  BY DEF Cells, Blank, NoCurve, NoTiers
<1>5. ASSUME NEW x \in Cells
      PROVE  /\ (Row(x[1]) # NoRow => SettingFits(x[1], Row(x[1])))'
             /\ CellHolds(x[1], x[2])'
  <2>1. PICK j, c : j = x[1] /\ c = x[2]
    OBVIOUS
  <2>2. (Row(j) # NoRow => SettingFits(j, Row(j))) /\ CellHolds(j, c)
    BY <2>1 DEF Follows, SettingRows
  <2>3. CASE j = k
    <3>1. /\ Row(j)' # NoRow => SettingFits(j, Row(j)')
          /\ \/ at[a] \in SetBy(j, c) /\ Seen(j)'[c] = Given(at[a])
             \/ ~Sets(S(a), j, c) /\ Seen(j)'[c] = Seen(j)[c]
      BY <2>1, <2>3
    <3>2. (Row(j) # NoRow => SettingFits(j, Row(j)))'
      BY <1>4, <3>1 DEF SettingFits
    <3>3. CellHolds(j, c)'
      <4>1. CASE at[a] \in SetBy(j, c) /\ Seen(j)'[c] = Given(at[a])
        BY <1>1, <1>2, <4>1, CellSet
      <4>2. CASE ~Sets(S(a), j, c) /\ Seen(j)'[c] = Seen(j)[c]
        BY <1>1, <1>3, <2>2, <4>2, CellKept
      <4> QED
        BY <3>1, <4>1, <4>2
    <3> QED
      BY <2>1, <3>2, <3>3
  <2>4. CASE j # k
    <3>1. IsSetting(j)
      BY <2>1, CellsAreColumns
    <3>2. ~Sets(S(a), j, c)
      BY <2>4, <3>1 DEF Sets
    <3>3. Row(j)' = Row(j)
      BY <2>4
    <3>4. (Row(j) # NoRow => SettingFits(j, Row(j)))'
      BY <1>4, <2>2, <3>3 DEF SettingFits
    <3>5. Seen(j)' = Seen(j)
      BY <1>4, <3>3 DEF Seen, Shown, Row
    <3>6. CellHolds(j, c)'
      BY <1>1, <1>3, <2>2, <3>2, <3>5, CellKept
    <3> QED
      BY <2>1, <3>4, <3>6
  <2> QED
    BY <2>3, <2>4
<1>6. SettingRows'
  BY <1>4, <1>5 DEF SettingRows
<1>7. ASSUME NEW p \in Pool PROVE Row(Pair(p))' = Row(Pair(p)) /\ PairHolds(p)'
  <2>1. Pair(p) # k /\ ~IsSetting(Pair(p))
    BY NoSettings
  <2>2. \A c : ~Sets(S(a), Pair(p), c)
    BY <2>1 DEF Sets
  <2>3. \A c \in {"own", "tier", "created", "gauge"} : Due(Pair(p), c) \subseteq Due(Pair(p), c)'
    BY <1>3, <2>2
  <2>4. Row(Pair(p))' = Row(Pair(p))
    BY <2>1
  <2> QED
    BY <1>1, <2>3, <2>4, AlikeItself, PairKept
<1> QED
  BY <1>6, <1>7, GoesOn

\* The statement that a setting's row is set by.
LEMMA SowsSetting ==
  ASSUME Follows, IInv, NEW a \in Actor, todo[a] # << >>,
         S(a).op = "delete" \/ (S(a).op = "upsert" /\ IsSetting(S(a).key))
  PROVE  Kind(at[a]) \in SettingTypes /\ Sows(at[a], S(a))
  BY AheadRest DEF Means, Creates, Innocent

LEMMA SettingUpsertFollows ==
  ASSUME IInv, IInv', log \in Logs(scenario), Follows, NEW a \in Actor, RunUpsert(a), IsSetting(S(a).key)
  PROVE  Follows'
<1>1. PICK q, s, k, f, n, r :
        /\ q = Rest(a) /\ s = S(a) /\ k = s.key /\ f = s.patch /\ n = at[a]
        /\ r = IF Row(k) = NoRow THEN s.new ELSE Over(f, Row(k))
  OBVIOUS
<1>2. PICK w : w = One(k, r)
  OBVIOUS
<1>3. todo[a] # << >> /\ s.op = "upsert" /\ Moves(a, q) /\ Write(a, w) /\ scenario' = scenario
  BY <1>1, <1>2 DEF RunUpsert, Is, Become, Untouched, Moves
<1>4. Kind(n) \in SettingTypes /\ Sows(n, s)
  BY <1>1, <1>3, SowsSetting
<1>5. /\ s.new = Over(f, Blank(k)) /\ DOMAIN f \subseteq DOMAIN Blank(k)
      /\ \A c \in DOMAIN f : n \in SetBy(k, c) /\ f[c] = Given(n)
  BY <1>1, <1>3, <1>4 DEF Sows
<1>6. Spares(a) /\ Row(k)' = r /\ \A j : j # k => Row(j)' = Row(j)
  <2>1. DOMAIN w = {k} /\ w[k] = r
    BY <1>2 DEF One
  <2>2. Spares(a) /\ \A j : Row(j)' = IF j \in DOMAIN w THEN w[j] ELSE Row(j)
    BY <1>3, Effect
  <2> QED
    BY <2>1, <2>2
<1>7. scenario \in Scenarios /\ SettingRows
  BY DEF IInv, Actors, Follows
<1>8. r = Over(f, Seen(k))
  <2>1. CASE Row(k) = NoRow
    BY <1>1, <1>5, <2>1 DEF Seen, Shown
  <2>2. CASE Row(k) # NoRow
    BY <1>1, <2>2 DEF Seen, Shown, Row
  <2> QED
    BY <2>1, <2>2
<1>9. ASSUME NEW x \in Cells, x[1] = k
      PROVE  /\ SettingFits(k, r) /\ r # NoRow
             /\ \A c \in DOMAIN Blank(k) : r[c] = IF c \in DOMAIN f THEN Given(n) ELSE Seen(k)[c]
  <2>1. PICK V : V = IF k[1] = "whitelisted" THEN BOOLEAN ELSE FeeBps \cup {Unset}
    OBVIOUS
  <2>2. DOMAIN Seen(k) = DOMAIN Blank(k) /\ \A c \in DOMAIN Blank(k) : Seen(k)[c] \in V
    <3>1. CASE Row(k) = NoRow
      <4>1. Seen(k) = Blank(k)
        BY <3>1 DEF Seen, Shown
      <4>2. \A c \in DOMAIN Blank(k) : Blank(k)[c] \in V
        BY <1>9, <2>1, BlankCells
      <4> QED
        BY <4>1, <4>2
    <3>2. CASE Row(k) # NoRow
      <4>1. SettingFits(k, Row(k))
        BY <1>7, <1>9, <3>2 DEF SettingRows
      <4>2. Seen(k) = Row(k)
        BY <3>2 DEF Seen, Shown, Row
      <4> QED
        BY <2>1, <4>1, <4>2 DEF SettingFits
    <3> QED
      BY <3>1, <3>2
  <2>3. DOMAIN r = DOMAIN Blank(k) /\ r = [c \in DOMAIN r |-> r[c]]
    BY <1>5, <1>8, <2>2 DEF Over
  <2>4. \A c \in DOMAIN Blank(k) : r[c] = IF c \in DOMAIN f THEN Given(n) ELSE Seen(k)[c]
    BY <1>5, <1>8, <2>2 DEF Over
  <2>5. ASSUME NEW c \in DOMAIN f PROVE Given(n) \in V
    <3>1. <<k, c>> \in Cells
      <4>1. c \in DOMAIN Blank(k)
        BY <1>5
      <4> QED
        BY <1>9, <4>1, BlankCells
    <3>2. PICK y : y = <<k, c>>
      OBVIOUS
    <3>3. y \in Cells /\ y[1] = k /\ n \in SetBy(y[1], y[2])
      BY <1>5, <3>1, <3>2
    <3> QED
      BY <1>7, <2>1, <3>3, GivenFits
  <2>6. SettingFits(k, r)
    BY <2>1, <2>2, <2>3, <2>4, <2>5 DEF SettingFits
  <2> QED
    BY <1>9, <2>4, <2>6, SettingIsRow
<1>10. ASSUME NEW x \in Cells, x[1] = k
       PROVE  /\ Row(k)' # NoRow => SettingFits(k, Row(k)')
              /\ \/ n \in SetBy(k, x[2]) /\ Seen(k)'[x[2]] = Given(n)
                 \/ ~Sets(s, k, x[2]) /\ Seen(k)'[x[2]] = Seen(k)[x[2]]
  <2>1. PICK c : c = x[2]
    OBVIOUS
  <2>2. c \in DOMAIN Blank(k)
    BY <1>10, <2>1, CellsAreColumns
  <2>3. Seen(k)' = r
    BY <1>6, <1>9, <1>10 DEF Seen, Shown, Row
  <2>4. r[c] = IF c \in DOMAIN f THEN Given(n) ELSE Seen(k)[c]
    BY <1>9, <1>10, <2>2
  <2>5. c \notin DOMAIN f => ~Sets(s, k, c)
    BY <1>1, <1>3 DEF Sets
  <2> QED
    BY <1>5, <1>6, <1>9, <1>10, <2>1, <2>3, <2>4, <2>5
<1>11. (BothWhitelisted <=> BothWhitelisted') \/ \A p \in Pool : Due(Pair(p), "gauge")' # {}
  <2>1. CASE k[1] = "whitelisted" /\ "on" \in DOMAIN f
    <3>1. PICK p \in {todo[a]} : TRUE
      OBVIOUS
    <3>2. /\ Len(p) \in Nat /\ s = p[1] /\ 1 \in 1..Len(p) /\ Len(q) = Len(p) - 1
          /\ \A i \in 1..Len(q) : q[i] = p[1 + i]
          /\ Ahead(n, p) /\ Ahead(n, q)
      BY <1>1, <1>3, <3>1, AheadRest DEF Follows
    <3>3. PICK j \in (1 + 1)..Len(p) : p[j].op = "compute"
      BY <1>1, <1>3, <2>1, <3>2 DEF Ahead, Followed
    <3>4. j - 1 \in 1..Len(q) /\ q[j - 1] = p[j] /\ j \in 1..Len(p)
      <4>1. j - 1 \in 1..Len(q) /\ 1 + (j - 1) = j /\ j \in 1..Len(p)
        BY <3>2
      <4> QED
        BY <3>2, <4>1
    <3>5. Sows(n, p[j])
      BY <1>4, <3>2, <3>4 DEF Ahead, Means
    <3>6. p[j].keys = {Pair(u) : u \in Pool} /\ log[n].type = "whitelist"
      BY <3>3, <3>5 DEF Sows
    <3>7. n \in DOMAIN log /\ n # 0
      <4>1. n # 0
        BY <1>4 DEF Kind, SettingTypes
      <4> QED
        BY <1>1, <4>1 DEF IInv, Actors, Stored
    <3>8. ASSUME NEW u \in Pool PROVE n \in Due(Pair(u), "gauge")'
      <4>1. n \in SetBy(Pair(u), "gauge")
        BY <3>6, <3>7, SetByPairs DEF Typed
      <4>2. n \in SetBy(Pair(u), "gauge")'
        BY <4>1, SetByKept, <1>3 DEF Moves
      <4>3. Sets(q[j - 1], Pair(u), "gauge")
        BY <3>3, <3>4, <3>6, SetByPairs DEF Sets
      <4>4. YetIn(q, Pair(u), "gauge")
        BY <3>4, <4>3 DEF YetIn
      <4>5. Yet(a, Pair(u), "gauge")'
        <5>1. todo'[a] = q
          BY <1>3 DEF Moves, IInv, Actors
        <5> QED
          BY <4>4, <5>1 DEF Yet, YetIn, Sets, IsSetting
      <4>6. a \in Handlers /\ (a = "consumer" => n = next)
        <5>1. Ordered
          BY DEF Follows
        <5> QED
          BY <1>1, <3>7, <5>1, OnlyHandler DEF IInv, Actors
      <4>7. at' = at /\ next' = next /\ next \in Nat /\ selected' = selected
        BY <1>3 DEF Moves, IInv, Actors
      <4>8. CASE a = "consumer"
        BY <1>1, <4>2, <4>5, <4>6, <4>7, <4>8 DEF Due
      <4>9. CASE a = "replay"
        BY <1>1, <4>2, <4>5, <4>6, <4>7, <4>9 DEF Due
      <4> QED
        BY <4>6, <4>8, <4>9 DEF Handlers
    <3> QED
      BY <3>8
  <2>2. CASE k[1] # "whitelisted"
    <3>1. \A side \in Side : Seen(Whitelisted(side))' = Seen(Whitelisted(side))
      <4> TAKE side \in Side
      <4>1. Row(Whitelisted(side))' = Row(Whitelisted(side))
        BY <1>6, <2>2, Keys
      <4> QED
        BY <4>1 DEF Seen, Shown, Row, Blank, NoCurve, NoTiers
    <3>2. BothWhitelisted' <=> \A side \in Side : Seen(Whitelisted(side))'.on
      BY BothSeen
    <3> QED
      BY <3>1, <3>2, BothSeen
  <2>3. CASE k[1] = "whitelisted" /\ "on" \notin DOMAIN f
    <3>1. \A side \in Side : Seen(Whitelisted(side))'.on = Seen(Whitelisted(side)).on
      <4> TAKE side \in Side
      <4>1. PICK j : j = Whitelisted(side)
        OBVIOUS
      <4>2. CASE j = k
        <5>1. PICK x : x = <<j, "on">>
          OBVIOUS
        <5>2. x \in Cells /\ x[1] = k /\ x[2] = "on"
          <6>1. x \in {<<Whitelisted(y), "on">> : y \in Side}
            BY <4>1, <5>1
          <6> QED
            BY <4>2, <5>1, <6>1 DEF Cells
        <5>3. r["on"] = Seen(k)["on"] /\ r # NoRow
          BY <1>9, <2>3, <5>2, CellsAreColumns
        <5>4. Seen(k)' = r
          BY <1>6, <5>3 DEF Seen, Shown, Row
        <5> QED
          BY <4>1, <4>2, <5>3, <5>4
      <4>3. CASE j # k
        <5>1. Row(j)' = Row(j)
          BY <1>6, <4>3
        <5> QED
          BY <4>1, <5>1 DEF Seen, Shown, Row, Blank, NoCurve, NoTiers
      <4> QED
        BY <4>2, <4>3
    <3>2. BothWhitelisted' <=> \A side \in Side : Seen(Whitelisted(side))'.on
      BY BothSeen
    <3> QED
      BY <3>1, <3>2, BothSeen
  <2> QED
    BY <2>1, <2>2, <2>3
<1> QED
  BY <1>1, <1>3, <1>4, <1>6, <1>10, <1>11, SettingChanged

LEMMA DeleteFollows ==
  ASSUME IInv, IInv', log \in Logs(scenario), Follows, NEW a \in Actor, RunDelete(a)
  PROVE  Follows'
<1>1. PICK q, s, n : q = Rest(a) /\ s = S(a) /\ n = at[a]
  OBVIOUS
<1>2. /\ todo[a] # << >> /\ s.op = "delete" /\ Moves(a, q) /\ raced' = raced
      /\ rows' = Restrict(rows, DOMAIN rows \ {s.key})
  BY <1>1 DEF RunDelete, Is, Become, Untouched, Moves
<1>3. Kind(n) \in SettingTypes /\ s.key = Discount /\ log[n].type = "undiscount"
  BY <1>1, <1>2, SowsSetting DEF Sows
<1>4. Row(Discount)' = NoRow /\ \A j : j # Discount => Row(j)' = Row(j)
  <2>1. DOMAIN rows' = DOMAIN rows \ {Discount} /\ \A k \in DOMAIN rows' : rows'[k] = rows[k]
    BY <1>2, <1>3 DEF Restrict
  <2> QED
    BY <2>1 DEF Row
<1>5. \A b \in Actor : held[b].key # Discount
  <2> TAKE b \in Actor
  <2>1. Program(b, todo[b]) /\ Holding(b)
    BY DEF IInv
  <2>2. CASE At(b, {"save", "set", "write"})
    <3>1. StatementFits(b, S(b)) /\ S(b).op \in {"save", "set", "write"} /\ held[b].key = S(b).key
      BY <2>1, <2>2, RestStep DEF At, Holding
    <3> QED
      BY <3>1 DEF StatementFits
  <2>3. CASE ~At(b, {"save", "set", "write"})
    BY <2>1, <2>3 DEF Holding, NoHold, Discount
  <2> QED
    BY <2>2, <2>3
<1>6. Spares(a)
  BY <1>2, <1>4, <1>5 DEF Spares
<1>7. IsSetting(Discount) /\ Blank(Discount) = [value |-> Unset]
  BY DEF IsSetting, Blank, Discount
<1>8. ASSUME NEW x \in Cells, x[1] = Discount
      PROVE  n \in SetBy(Discount, x[2]) /\ Seen(Discount)'[x[2]] = Given(n)
  <2>1. x[2] = "value"
    BY <1>7, <1>8, CellsAreColumns
  <2>2. n # 0 /\ n \in DOMAIN log
    <3>1. n # 0
      BY <1>3 DEF Kind, SettingTypes
    <3> QED
      BY <1>1, <3>1 DEF IInv, Actors, Stored
  <2>3. n \in SetBy(Discount, "value")
    BY <1>3, <2>2, SetByCells DEF Typed
  <2>4. Seen(Discount)' = [value |-> Unset]
    BY <1>4 DEF Seen, Shown, Blank, Discount
  <2> QED
    BY <1>3, <2>1, <2>3, <2>4 DEF Given
<1>9. BothWhitelisted <=> BothWhitelisted'
  <2>1. \A side \in Side : Row(Whitelisted(side))' = Row(Whitelisted(side))
    BY <1>4, Keys
  <2>2. \A side \in Side : Row(Whitelisted(side)) # NoRow => rows'[Whitelisted(side)] = rows[Whitelisted(side)]
    BY <2>1 DEF Row
  <2> QED
    BY <2>1, <2>2 DEF BothWhitelisted
<1> QED
  BY <1>1, <1>2, <1>3, <1>4, <1>6, <1>7, <1>8, <1>9, SettingChanged
-----------------------------------------------------------------------------
(* The statements that set a column of the pairs.                          *)

LEMMA SettingsSame ==
  ASSUME IInv, Follows, NEW a \in Actor, todo[a] # << >>, S(a).op \notin {"upsert", "delete"},
         NEW q, q = Rest(a), Moves(a, q), \A k : IsSetting(k) => Row(k)' = Row(k)
  PROVE  SettingRows' /\ (BothWhitelisted <=> BothWhitelisted')
<1>1. ASSUME NEW x \in Cells PROVE Due(x[1], x[2]) \subseteq Due(x[1], x[2])'
  <2>1. PICK k, c : k = x[1] /\ c = x[2]
    OBVIOUS
  <2>2. ~Sets(S(a), k, c)
    BY <2>1, CellsAreColumns DEF Sets
  <2>3. Due(k, c) \subseteq Due(k, c)'
    BY <2>2, RestGrown
  <2> QED
    BY <2>1, <2>3
<1>2. SettingRows'
  BY <1>1, SettingsOn DEF Follows, Moves
<1>3. BothWhitelisted <=> BothWhitelisted'
  <2>1. \A side \in Side : Row(Whitelisted(side))' = Row(Whitelisted(side))
    BY DEF IsSetting, Whitelisted
  <2>2. \A side \in Side : Row(Whitelisted(side)) # NoRow => rows'[Whitelisted(side)] = rows[Whitelisted(side)]
    BY <2>1 DEF Row
  <2> QED
    BY <2>1, <2>2 DEF BothWhitelisted
<1> QED
  BY <1>2, <1>3

LEMMA GaugeFollows ==
  ASSUME IInv, IInv', log \in Logs(scenario), Follows, NEW a \in Actor, RunCompute(a), S(a).keys # {Account}
  PROVE  Follows'
<1>1. PICK q, s, w : q = Rest(a) /\ s = S(a) /\ w = [k \in s.keys \cap DOMAIN rows |-> Computed(s.expr, rows[k])]
  OBVIOUS
<1>2. todo[a] # << >> /\ s.op = "compute" /\ Moves(a, q) /\ Write(a, w) /\ scenario' = scenario
  BY <1>1 DEF RunCompute, Is, Become, Untouched, Moves
<1>3. Means(at[a], s)
  BY <1>1, <1>2, AheadRest
<1>4. s.keys = {Pair(p) : p \in Pool} /\ s.expr = [of |-> "gauge"] /\ Kind(at[a]) \in SettingTypes
  BY <1>1, <1>2, <1>3 DEF Means, Creates, Innocent, Sows
<1>5. /\ Spares(a)
      /\ \A k : Row(k)' = IF k \in s.keys \cap DOMAIN rows THEN Computed(s.expr, rows[k]) ELSE Row(k)
      /\ \A p \in Pool : Row(Pair(p))' = NoRow => Row(Pair(p)) = NoRow
  <2>1. DOMAIN w = s.keys \cap DOMAIN rows /\ \A k \in DOMAIN w : w[k] = Computed(s.expr, rows[k])
    BY <1>1
  <2>2. /\ Spares(a)
        /\ \A k : Row(k)' = IF k \in DOMAIN w THEN w[k] ELSE Row(k)
        /\ \A p \in Pool : Row(Pair(p))' = NoRow => Row(Pair(p)) = NoRow
    BY <1>2, Effect
  <2> QED
    BY <2>1, <2>2
<1>6. \A k : IsSetting(k) => Row(k)' = Row(k)
  BY <1>4, <1>5, NoSettings
<1>7. SettingRows' /\ (BothWhitelisted <=> BothWhitelisted')
  BY <1>1, <1>2, <1>6, SettingsSame
<1>8. ASSUME NEW p \in Pool PROVE PairHolds(p)'
  <2> SUFFICES ASSUME Row(Pair(p))' # NoRow, Pair(p) \notin raced'
               PROVE  /\ ~CL(p) => ~rows'[Pair(p)].cl
                      /\ FeeHolds(p, FeeOf(rows[Pair(p)]))'
                      /\ GaugeHolds(p, rows[Pair(p)].gauge)'
    BY DEF PairHolds
  <2>1. Row(Pair(p)) # NoRow /\ Pair(p) \in DOMAIN rows /\ Pair(p) \notin raced
    <3>1. Pair(p) \notin raced
      BY <1>5 DEF Spares
    <3>2. CASE Pair(p) \in DOMAIN rows
      <4>1. rows[Pair(p)] # NoRow
        BY <3>2, PairThere DEF IInv, Actors
      <4> QED
        BY <3>1, <3>2, <4>1 DEF Row
    <3>3. CASE Pair(p) \notin DOMAIN rows
      <4>1. Row(Pair(p))' = Row(Pair(p))
        BY <1>5, <3>3
      <4>2. Row(Pair(p)) = NoRow
        BY <3>3 DEF Row
      <4> QED
        BY <4>1, <4>2
    <3> QED
      BY <3>2, <3>3
  <2>2. PICK o, r, f : o = rows[Pair(p)] /\ r = [o EXCEPT !.gauge = BothWhitelisted] /\ f = FeeOf(o)
    OBVIOUS
  <2>3. rows'[Pair(p)] = r
    BY <1>4, <1>5, <2>1, <2>2 DEF Row, Computed
  <2>4. o \in PairRow(scenario.days) /\ (~CL(p) => ~o.cl) /\ FeeHolds(p, f)
    BY <2>1, <2>2, PairThere DEF Follows, PairHolds, IInv, Actors
  <2>5. r.gauge = BothWhitelisted /\ r.dyn = o.dyn /\ r.bps = o.bps /\ r.src = o.src /\ r.cl = o.cl
    BY <2>2, <2>4, PairRowColumns DEF PairColumns
  <2>6. FeeOf(rows[Pair(p)])' = f
    <3>2. FeeOf(r) = f
      <4>1. /\ f = [c \in {"dyn", "bps", "src"} |-> f[c]] /\ f.dyn = o.dyn /\ f.bps = o.bps /\ f.src = o.src
        BY <2>2, FeeOfColumns
      <4>2. PICK g : g = FeeOf(r)
        OBVIOUS
      <4>3. /\ g = [c \in {"dyn", "bps", "src"} |-> g[c]] /\ g.dyn = r.dyn /\ g.bps = r.bps /\ g.src = r.src
        BY <4>2, FeeOfColumns
      <4>4. \A c \in {"dyn", "bps", "src"} : f[c] = g[c]
        BY <2>5, <4>1, <4>3
      <4>5. f = g
        BY ONLY <4>1, <4>3, <4>4
      <4> QED
        BY <4>2, <4>5
    <3> QED
      BY <2>3, <3>2 DEF FeeOf
  <2>7. FeeHolds(p, f)'
    <3>1. \A c \in {"own", "tier", "created"} : ~Sets(s, Pair(p), c)
      BY <1>2, NoSettings DEF Sets
    <3>2. \A c \in {"own", "tier", "created"} : Due(Pair(p), c) \subseteq Due(Pair(p), c)'
      BY <1>1, <1>2, <3>1, RestGrown
    <3> QED
      BY <1>2, <2>4, <3>2, FeeKept DEF Moves
  <2>8. GaugeHolds(p, rows[Pair(p)].gauge)'
    <3>1. rows'[Pair(p)].gauge = BothWhitelisted
      BY <2>3, <2>5
    <3>2. BothWhitelisted = BothWhitelisted'
      <4>1. BothWhitelisted \in BOOLEAN /\ BothWhitelisted' \in BOOLEAN
        BY DEF BothWhitelisted
      <4> QED
        BY ONLY <1>7, <4>1
    <3>3. rows'[Pair(p)].gauge = BothWhitelisted'
      BY ONLY <3>1, <3>2
    <3> QED
      BY <3>3 DEF GaugeHolds
  <2> QED
    BY <2>3, <2>4, <2>5, <2>6, <2>7, <2>8
<1> QED
  BY <1>1, <1>2, <1>4, <1>5, <1>7, <1>8, GoesOn

\* What an update of fees has to show, of the pairs it is about.
LEMMA PairsUpdated ==
  ASSUME IInv, IInv', log \in Logs(scenario), Follows, NEW a \in Actor, RunUpdate(a),
         Kind(at[a]) \in SettingTypes \cup {"created"},
         \A p \in Pool : Pair(p) \notin S(a).keys =>
           \A c \in {"own", "tier", "created"} : at[a] \notin SetBy(Pair(p), c),
         \A p \in Pool : Pair(p) \in S(a).keys /\ Pair(p) \notin raced /\ Pair(p) \in DOMAIN rows =>
           \A o, r : o = rows[Pair(p)] /\ r = (IF o.src \in S(a).where THEN Over(S(a).patch, o) ELSE o) =>
             /\ CL(p) \/ r.cl = o.cl
             /\ r.gauge = o.gauge
             /\ \A f : f = FeeOf(r) => FeeHolds(p, f)'
  PROVE  Follows'
<1>1. PICK q, s, K, w : /\ q = Rest(a) /\ s = S(a)
                        /\ K = {k \in s.keys : Row(k) # NoRow /\ rows[k].src \in s.where}
                        /\ w = [k \in K |-> Over(s.patch, rows[k])]
  OBVIOUS
<1>2. todo[a] # << >> /\ s.op = "update" /\ Moves(a, q) /\ Write(a, w) /\ scenario' = scenario
  BY <1>1 DEF RunUpdate, Is, Become, Untouched, Moves
<1>3. Program(a, todo[a]) /\ scenario \in Scenarios /\ Rows
  BY DEF IInv, Actors
<1>4. \A k \in s.keys : k[1] = "pair"
  <2>1. StatementFits(a, s)
    BY <1>1, <1>2, <1>3, RestStep
  <2> QED
    BY <1>2, <2>1 DEF StatementFits
<1>5. /\ Spares(a)
      /\ \A k : Row(k)' = IF k \in K THEN Over(s.patch, rows[k]) ELSE Row(k)
      /\ \A p \in Pool : Row(Pair(p))' = NoRow => Row(Pair(p)) = NoRow
  <2>1. DOMAIN w = K /\ \A k \in K : w[k] = Over(s.patch, rows[k])
    BY <1>1
  <2>2. /\ Spares(a)
        /\ \A k : Row(k)' = IF k \in DOMAIN w THEN w[k] ELSE Row(k)
        /\ \A p \in Pool : Row(Pair(p))' = NoRow => Row(Pair(p)) = NoRow
    BY <1>2, Effect
  <2> QED
    BY <2>1, <2>2
<1>6. \A k : IsSetting(k) => Row(k)' = Row(k)
  BY <1>1, <1>4, <1>5 DEF IsSetting
<1>7. SettingRows' /\ (BothWhitelisted <=> BothWhitelisted')
  BY <1>1, <1>2, <1>6, SettingsSame
<1>8. ASSUME NEW p \in Pool PROVE PairHolds(p)'
  <2> SUFFICES ASSUME Row(Pair(p))' # NoRow, Pair(p) \notin raced'
               PROVE  /\ ~CL(p) => ~rows'[Pair(p)].cl
                      /\ FeeHolds(p, FeeOf(rows[Pair(p)]))'
                      /\ GaugeHolds(p, rows[Pair(p)].gauge)'
    BY DEF PairHolds
  <2>1. Row(Pair(p)) # NoRow /\ Pair(p) \in DOMAIN rows /\ Pair(p) \notin raced
    BY <1>1, <1>5 DEF Row, Spares
  <2>2. PICK o, r, f, g : /\ o = rows[Pair(p)] /\ r = IF Pair(p) \in K THEN Over(s.patch, o) ELSE o
                          /\ f = FeeOf(r) /\ g = o.gauge
    OBVIOUS
  <2>3. rows'[Pair(p)] = r
    <3>1. Row(Pair(p))' = r
      BY <1>5, <2>1, <2>2 DEF Row
    <3> QED
      BY <3>1 DEF Row
  <2>4. o \in PairRow(scenario.days) /\ (~CL(p) => ~o.cl) /\ FeeHolds(p, FeeOf(o)) /\ GaugeHolds(p, g)
    BY <1>3, <2>1, <2>2, PairThere DEF Follows, PairHolds
  <2>5. /\ CL(p) \/ r.cl = o.cl
        /\ r.gauge = o.gauge /\ FeeHolds(p, f)'
    <3>1. CASE Pair(p) \in s.keys
      <4>1. r = IF o.src \in s.where THEN Over(s.patch, o) ELSE o
        BY <1>1, <2>1, <2>2, <3>1
      <4> QED
        BY <1>1, <2>1, <2>2, <3>1, <4>1
    <3>2. CASE Pair(p) \notin s.keys
      <4>1. r = o /\ f = FeeOf(o)
        BY <1>1, <2>2, <3>2
      <4>2. \A c \in {"own", "tier", "created"} : at[a] \notin SetBy(Pair(p), c)
        BY <1>1, <3>2
      <4>3. \A c \in {"own", "tier", "created"} : Due(Pair(p), c) \subseteq Due(Pair(p), c)'
        BY <1>1, <1>2, <4>2, RestGrown
      <4>4. FeeHolds(p, f)
        BY <2>4, <4>1
      <4>5. FeeHolds(p, f)'
        BY <1>2, <4>3, <4>4, FeeKept DEF Moves
      <4> QED
        BY <4>1, <4>5
    <3> QED
      BY <3>1, <3>2
  <2>6. FeeOf(rows[Pair(p)])' = f
    BY <2>2, <2>3 DEF FeeOf
  <2>7. GaugeHolds(p, g)'
    <3>1. ~Sets(s, Pair(p), "gauge")
      BY <1>2, NoSettings DEF Sets
    <3>2. Due(Pair(p), "gauge") \subseteq Due(Pair(p), "gauge")'
      BY <1>1, <1>2, <3>1, RestGrown
    <3>3. g \in BOOLEAN
      BY <2>2, <2>4, PairRowColumns
    <3> QED
      BY <1>2, <1>7, <2>4, <3>2, <3>3, GaugeKept DEF Moves
  <2> QED
    BY <2>2, <2>3, <2>4, <2>5, <2>6, <2>7
<1>9. "created" \notin SettingTypes /\ IsSetting(Tiers)
  BY DEF SettingTypes, IsSetting, Tiers
<1> QED
  BY <1>1, <1>2, <1>5, <1>6, <1>7, <1>8, <1>9, GoesOn
-----------------------------------------------------------------------------
(* The updates of fees.                                                    *)

LEMMA ChargedRow ==
  ASSUME NEW n, NEW o \in PairRow(n), NEW f, f = [c \in {"dyn", "bps", "src"} |-> f[c]]
  PROVE  /\ FeeOf(Over(f, o)) = f /\ Over(f, o).cl = o.cl /\ Over(f, o).gauge = o.gauge
         /\ LET r == Over(Over([cl |-> TRUE], f), o) IN
            FeeOf(r) = f /\ r.cl = TRUE /\ r.gauge = o.gauge
<1>1. DOMAIN o = PairColumns /\ DOMAIN f = {"dyn", "bps", "src"}
  BY PairRowColumns
<1>2. PICK r, g, t, u : r = Over(f, o) /\ g = [cl |-> TRUE] /\ u = Over(g, f) /\ t = Over(u, o)
  OBVIOUS
<1>3. \A c \in PairColumns : r[c] = IF c \in {"dyn", "bps", "src"} THEN f[c] ELSE o[c]
  <2>1. \A c \in DOMAIN f \cup DOMAIN o : Over(f, o)[c] = IF c \in DOMAIN f THEN f[c] ELSE o[c]
    BY DEF Over
  <2>2. r = Over(f, o)
    BY <1>2
  <2> QED
    BY ONLY <1>1, <2>1, <2>2 DEF PairColumns
<1>4. DOMAIN u = {"cl", "dyn", "bps", "src"} /\ \A c \in DOMAIN u : u[c] = IF c = "cl" THEN TRUE ELSE f[c]
  <2>1. DOMAIN g = {"cl"} /\ g["cl"] = TRUE
    BY <1>2
  <2>2. \A c \in DOMAIN g \cup DOMAIN f : Over(g, f)[c] = IF c \in DOMAIN g THEN g[c] ELSE f[c]
    BY DEF Over
  <2>3. DOMAIN Over(g, f) = DOMAIN g \cup DOMAIN f
    BY DEF Over
  <2>4. u = Over(g, f)
    BY <1>2
  <2> QED
    BY ONLY <1>1, <2>1, <2>2, <2>3, <2>4
<1>5. \A c \in PairColumns : t[c] = IF c \in DOMAIN u THEN u[c] ELSE o[c]
  <2>1. \A c \in DOMAIN u \cup DOMAIN o : Over(u, o)[c] = IF c \in DOMAIN u THEN u[c] ELSE o[c]
    BY DEF Over
  <2>2. t = Over(u, o)
    BY <1>2
  <2> QED
    BY ONLY <1>1, <2>1, <2>2
<1>6. /\ r.dyn = f.dyn /\ r.bps = f.bps /\ r.src = f.src /\ r.cl = o.cl /\ r.gauge = o.gauge
      /\ t.dyn = f.dyn /\ t.bps = f.bps /\ t.src = f.src /\ t.cl = TRUE /\ t.gauge = o.gauge
  BY <1>3, <1>4, <1>5 DEF PairColumns
<1>7. ASSUME NEW v, v.dyn = f.dyn, v.bps = f.bps, v.src = f.src PROVE FeeOf(v) = f
  <2>1. PICK w : w = FeeOf(v)
    OBVIOUS
  <2>2. /\ w = [c \in {"dyn", "bps", "src"} |-> w[c]] /\ w.dyn = f.dyn /\ w.bps = f.bps /\ w.src = f.src
    BY <1>7, <2>1, FeeOfColumns
  <2>3. \A c \in {"dyn", "bps", "src"} : w[c] = f[c]
    BY <2>2
  <2>4. w = f
    BY ONLY <2>2, <2>3, f = [c \in {"dyn", "bps", "src"} |-> f[c]]
  <2> QED
    BY <2>1, <2>4
<1> QED
  BY <1>2, <1>6, <1>7

LEMMA FactoryFeeFollows ==
  ASSUME IInv, IInv', log \in Logs(scenario), Follows, NEW a \in Actor, RunUpdate(a),
         Kind(at[a]) = "setFee"
  PROVE  Follows'
<1>1. PICK q, s, n, e, f : /\ q = Rest(a) /\ s = S(a) /\ n = at[a] /\ e = log[n]
                           /\ f = Fee(FALSE, e.bps, "factory_tier")
  OBVIOUS
<1>2. todo[a] # << >> /\ s.op = "update" /\ Moves(a, q) /\ Ordered /\ scenario \in Scenarios /\ Rows
  BY <1>1 DEF RunUpdate, Is, Become, Untouched, Moves, Follows, IInv, Actors
<1>3. Means(n, s)
  BY <1>1, <1>2, AheadRest
<1>4. a \in Handlers /\ n # 0 /\ n \in DOMAIN log /\ e.type = "setFee"
  <2>1. n # 0
    BY <1>1 DEF Kind
  <2>2. n \in DOMAIN log
    BY <1>1, <2>1 DEF IInv, Actors, Stored
  <2> QED
    BY <1>1, <1>2, <2>1, <2>2, OnlyHandler, LogFacts
<1>5. /\ s.keys = {Pair(p) : p \in {x \in Pool : Class[x] = e.class}}
      /\ s.where = {"", "factory_tier"} /\ s.patch = f
  BY <1>1, <1>2, <1>3, <1>4 DEF Means, Sows, SettingTypes
<1>6. e.class \in {"volatile", "stable"}
  BY <1>1, <1>2, <1>4, LogFacts DEF EventFits
<1>7. ASSUME NEW p \in Pool, Pair(p) \notin s.keys
      PROVE  \A c \in {"own", "tier", "created"} : n \notin SetBy(Pair(p), c)
  <2>1. Class[p] # e.class
    BY <1>5, <1>7
  <2> QED
    BY <1>1, <1>4, <2>1, SetByPairs DEF Of, Typed
<1>8. ASSUME NEW p \in Pool, Pair(p) \in s.keys, Pair(p) \notin raced, Pair(p) \in DOMAIN rows,
             NEW o, o = rows[Pair(p)], NEW r, r = IF o.src \in s.where THEN Over(s.patch, o) ELSE o
      PROVE  /\ CL(p) \/ r.cl = o.cl
             /\ r.gauge = o.gauge
             /\ \A g : g = FeeOf(r) => FeeHolds(p, g)'
  <2>1. Class[p] = e.class /\ ~CL(p)
    <3>1. PICK x \in Pool : Class[x] = e.class /\ Pair(p) = Pair(x)
      BY <1>5, <1>8
    <3>2. p = x
      BY <3>1 DEF Pair
    <3> QED
      BY <1>6, <3>1, <3>2 DEF CL
  <2>2. o \in PairRow(scenario.days) /\ FeeHolds(p, FeeOf(o))
    <3>1. o \in PairRow(scenario.days) /\ o # NoRow
      BY <1>2, <1>8, PairThere
    <3> QED
      BY <1>8, <3>1 DEF Follows, PairHolds, Row
  <2>3. n \in SetBy(Pair(p), "tier") /\ n \notin SetBy(Pair(p), "own")
    BY <1>1, <1>4, <2>1, SetByPairs DEF Of, Typed
  <2>4. Due(Pair(p), "own") \subseteq Due(Pair(p), "own")' /\ log' = log
    BY <1>1, <1>2, <2>3, RestGrown DEF Moves
  <2>5. /\ \A m : LastTo(m, Pair(p), "own") => LastTo(m, Pair(p), "own")'
        /\ NoneTo(Pair(p), "own") => NoneTo(Pair(p), "own")'
    BY <2>4, HoldsKept
  <2>6. FeeOf(o).src = o.src
    BY FeeOfColumns
  <2>7. CASE o.src \in s.where
    <3>1. r = Over(f, o)
      BY <1>5, <1>8, <2>7
    <3>2. f = [c \in {"dyn", "bps", "src"} |-> f[c]]
      <4>1. f = Fee(FALSE, e.bps, "factory_tier")
        BY <1>1
      <4> QED
        BY ONLY <4>1 DEF Fee
    <3>3. FeeOf(r) = f /\ r.cl = o.cl /\ r.gauge = o.gauge
      BY <2>2, <3>1, <3>2, ChargedRow
    <3>4. NoneTo(Pair(p), "own")
      <4>1. ASSUME NEW b PROVE FeeOf(o) # Fee(FALSE, b, "factory_custom")
        <5>1. PICK g : g = Fee(FALSE, b, "factory_custom")
          OBVIOUS
        <5>2. g.src = "factory_custom"
          BY <5>1 DEF Fee
        <5> QED
          BY <1>5, <2>6, <2>7, <5>1, <5>2
      <4> QED
        BY <2>1, <2>2, <4>1 DEF FeeHolds
    <3>5. LastTo(n, Pair(p), "tier")'
      BY <1>1, <1>2, <1>4, <2>3, LaterDue DEF Moves
    <3>6. f = Fee(FALSE, log'[n].bps, "factory_tier") /\ n \in DOMAIN log'
      BY <1>1, <1>4, <2>4
    <3>7. FeeHolds(p, f)'
      BY <2>1, <2>5, <3>4, <3>5, <3>6 DEF FeeHolds
    <3> QED
      BY <3>3, <3>7
  <2>8. CASE o.src \notin s.where
    <3>1. r = o
      BY <1>8, <2>8
    <3>2. PICK m \in DOMAIN log : LastTo(m, Pair(p), "own") /\ FeeOf(o) = Fee(FALSE, log[m].bps, "factory_custom")
      <4>1. ASSUME NEW b PROVE FeeOf(o) # Fee(FALSE, b, "factory_tier")
        <5>1. PICK g : g = Fee(FALSE, b, "factory_tier")
          OBVIOUS
        <5>2. g.src = "factory_tier"
          BY <5>1 DEF Fee
        <5> QED
          BY <1>5, <2>6, <2>8, <5>1, <5>2
      <4>2. FeeOf(o) # NoFee
        <5>1. PICK g : g = NoFee
          OBVIOUS
        <5>2. g.src = ""
          BY <5>1 DEF NoFee, Fee
        <5> QED
          BY <1>5, <2>6, <2>8, <5>1, <5>2
      <4> QED
        BY <2>1, <2>2, <4>1, <4>2 DEF FeeHolds
    <3>3. LastTo(m, Pair(p), "own")' /\ m \in DOMAIN log' /\ FeeOf(o) = Fee(FALSE, log'[m].bps, "factory_custom")
      BY <2>4, <2>5, <3>2
    <3>4. \A g : g = FeeOf(o) => FeeHolds(p, g)'
      BY <2>1, <3>3 DEF FeeHolds
    <3> QED
      BY <3>1, <3>4
  <2> QED
    BY <2>7, <2>8
<1>9. Kind(at[a]) \in SettingTypes \cup {"created"}
  BY DEF SettingTypes
<1> QED
  BY <1>1, <1>7, <1>8, <1>9, PairsUpdated

\* One that sets the fee of one pair to what its event has given it.
LEMMA OwnFeeFollows ==
  ASSUME IInv, IInv', log \in Logs(scenario), Follows, NEW a \in Actor, RunUpdate(a),
         Kind(at[a]) \in {"customFee", "moduleFee", "feeReset"}
  PROVE  Follows'
<1>1. PICK q, s, n, e, x : /\ q = Rest(a) /\ s = S(a) /\ n = at[a] /\ e = log[n] /\ x = e.pool
  OBVIOUS
<1>2. todo[a] # << >> /\ s.op = "update" /\ Moves(a, q) /\ Ordered /\ scenario \in Scenarios /\ Rows
  BY <1>1 DEF RunUpdate, Is, Become, Untouched, Moves, Follows, IInv, Actors
<1>3. Means(n, s)
  BY <1>1, <1>2, AheadRest
<1>4. a \in Handlers /\ n # 0 /\ n \in DOMAIN log /\ e.type \in {"customFee", "moduleFee", "feeReset"}
      /\ (e.type = "customFee" <=> ~CL(x)) /\ x \in Pool
  <2>1. n # 0
    BY <1>1 DEF Kind
  <2>2. n \in DOMAIN log
    BY <1>1, <2>1 DEF IInv, Actors, Stored
  <2>3. e.type \in {"customFee", "moduleFee", "feeReset"}
    BY <1>1, <2>1 DEF Kind
  <2>4. x \in Pool
    BY <1>1, <1>2, <2>2, <2>3, LogFacts DEF EventFits
  <2> QED
    BY <1>1, <1>2, <2>1, <2>2, <2>3, <2>4, OnlyHandler, LogFacts
<1>5. /\ s.keys = {Pair(x)} /\ s.where = AnySource
      /\ e.type = "customFee" => s.patch = Fee(FALSE, e.bps, "factory_custom")
      /\ e.type # "customFee" => s.patch = Over([cl |-> TRUE], Charged(n))
  BY <1>1, <1>2, <1>3, <1>4 DEF Means, Sows, SettingTypes
<1>6. PICK f : f = IF e.type = "customFee" THEN Fee(FALSE, e.bps, "factory_custom") ELSE Charged(n)
  OBVIOUS
<1>7. f = [c \in {"dyn", "bps", "src"} |-> f[c]]
  <2>1. PICK d, b, t : f = Fee(d, b, t)
    BY <1>6 DEF Charged, DynamicFee
  <2> QED
    BY ONLY <2>1 DEF Fee
<1>8. ASSUME NEW p \in Pool, Pair(p) \notin s.keys
      PROVE  \A c \in {"own", "tier", "created"} : n \notin SetBy(Pair(p), c)
  <2>1. p # x
    BY <1>5, <1>8
  <2> QED
    BY <1>1, <1>4, <2>1, SetByPairs DEF Of, Typed
<1>9. ASSUME NEW p \in Pool, Pair(p) \in s.keys, Pair(p) \notin raced, Pair(p) \in DOMAIN rows,
             NEW o, o = rows[Pair(p)], NEW r, r = IF o.src \in s.where THEN Over(s.patch, o) ELSE o
      PROVE  /\ CL(p) \/ r.cl = o.cl
             /\ r.gauge = o.gauge
             /\ \A g : g = FeeOf(r) => FeeHolds(p, g)'
  <2>1. p = x
    BY <1>5, <1>9 DEF Pair
  <2>2. o \in PairRow(scenario.days) /\ o.src \in s.where
    BY <1>2, <1>5, <1>9, PairThere, PairRowColumns
  <2>3. r = Over(s.patch, o)
    BY <1>9, <2>2
  <2>4. /\ FeeOf(r) = f /\ r.gauge = o.gauge
        /\ e.type = "customFee" => r.cl = o.cl
    <3>1. CASE e.type = "customFee"
      <4>1. r = Over(f, o)
        BY <1>5, <1>6, <2>3, <3>1
      <4> QED
        BY <1>7, <2>2, <4>1, ChargedRow
    <3>2. CASE e.type # "customFee"
      <4>1. r = Over(Over([cl |-> TRUE], f), o)
        BY <1>5, <1>6, <2>3, <3>2
      <4>2. FeeOf(r) = f /\ r.gauge = o.gauge
        BY <1>7, <2>2, <4>1, ChargedRow
      <4> QED
        BY <3>2, <4>2
    <3> QED
      BY <3>1, <3>2
  <2>5. n \in SetBy(Pair(p), "own")
    BY <1>1, <1>4, <2>1, SetByPairs DEF Of
  <2>6. LastTo(n, Pair(p), "own")' /\ n \in DOMAIN log' /\ log' = log
    BY <1>1, <1>2, <1>4, <2>5, LaterDue DEF Moves
  <2>7. FeeHolds(p, f)'
    <3>1. CASE e.type = "customFee"
      <4>1. f = Fee(FALSE, log'[n].bps, "factory_custom")
        BY <1>1, <1>6, <2>6, <3>1
      <4> QED
        BY <1>4, <2>1, <2>6, <3>1, <4>1 DEF FeeHolds
    <3>2. CASE e.type # "customFee"
      <4>1. f = Charged(n)'
        BY <1>6, <2>6, <3>2 DEF Charged
      <4> QED
        BY <1>4, <2>1, <2>6, <3>2, <4>1 DEF FeeHolds
    <3> QED
      BY <3>1, <3>2
  <2> QED
    BY <1>4, <2>1, <2>4, <2>7
<1>10. Kind(at[a]) \in SettingTypes \cup {"created"}
  BY DEF SettingTypes
<1> QED
  BY <1>1, <1>8, <1>9, <1>10, PairsUpdated

\* The tier's fee and the tiers row are set by the same events; a creation in hand sets neither.
LEMMA TierDue ==
  ASSUME IInv, log \in Logs(scenario), Follows, NEW a \in Actor, Kind(at[a]) = "created",
         UNCHANGED <<log, next, at, selected>>, NEW p \in Pool, ~CL(p),
         NEW D, D = Due(Tiers, Class[p]), NEW B, B = SetBy(Tiers, Class[p])
  PROVE  /\ B = SetBy(Pair(p), "tier") /\ D \subseteq Due(Pair(p), "tier") /\ D \subseteq Due(Pair(p), "tier")'
         /\ <<Tiers, Class[p]>> \in Cells
<1>1. B = SetBy(Pair(p), "tier")
  BY SetByCells, SetByPairs
<1>2. Ordered /\ scenario \in Scenarios /\ at[a] # 0 /\ DOMAIN log \subseteq Nat \ {0}
  BY LogFacts DEF Follows, IInv, Actors, Kind
<1>3. a \in Handlers /\ \A b \in Actor \ {a} : at[b] = 0
  BY <1>2, OnlyHandler
<1>4. at[a] \notin B
  <2>1. log[at[a]].type = "created"
    BY <1>2 DEF Kind
  <2> QED
    BY <2>1, SetByCells DEF Typed
<1>5. \A b \in Handlers : at[b] \notin B
  <2>1. Handlers \subseteq Actor
    BY DEF Handlers, Actor
  <2>2. 0 \notin B
    BY <1>2, SetByEvents
  <2> QED
    BY <1>3, <1>4, <2>1, <2>2
<1>6. ASSUME NEW n \in D PROVE n \in Due(Pair(p), "tier") /\ n \in Due(Pair(p), "tier")'
  <2>1. n \in B /\ (n >= next \/ n \in selected) /\ n # at["consumer"] /\ n # at["replay"]
    BY <1>5, <1>6 DEF Due, Handlers
  <2>2. SetBy(Pair(p), "tier")' = SetBy(Pair(p), "tier")
    BY SetByKept
  <2> QED
    BY <1>1, <2>1, <2>2 DEF Due
<1>7. <<Tiers, Class[p]>> \in Cells
  <2>1. Class[p] \in {"volatile", "stable"}
    BY SpotRowsAssumption DEF CL
  <2> QED
    BY <2>1 DEF Cells
<1> QED
  BY <1>1, <1>6, <1>7

\* The tier of its class that a created pair is to have.
LEMMA TierHeld ==
  ASSUME IInv, log \in Logs(scenario), Follows, NEW a \in Actor, Kind(at[a]) = "created",
         UNCHANGED <<log, next, at, selected>>, NEW p \in Pool, ~CL(p)
  PROVE  /\ Row(Tiers) # NoRow /\ rows[Tiers][Class[p]] # Unset =>
              \E m \in DOMAIN log : /\ LastTo(m, Pair(p), "tier")'
                                    /\ rows[Tiers][Class[p]] = log[m].bps
         /\ Row(Tiers) = NoRow \/ rows[Tiers][Class[p]] = Unset =>
              NoneTo(Pair(p), "tier") /\ NoneTo(Pair(p), "tier")'
<1>1. PICK D, B, c : D = Due(Tiers, c) /\ B = SetBy(Tiers, c) /\ c = Class[p]
  OBVIOUS
<1>2. /\ B = SetBy(Pair(p), "tier") /\ D \subseteq Due(Pair(p), "tier") /\ D \subseteq Due(Pair(p), "tier")'
      /\ <<Tiers, c>> \in Cells /\ SetBy(Pair(p), "tier")' = SetBy(Pair(p), "tier")
  BY <1>1, TierDue, SetByKept
<1>3. CellHolds(Tiers, c)
  <2>1. \A x \in Cells : CellHolds(x[1], x[2])
    BY DEF Follows, SettingRows
  <2>2. \A k, d : <<k, d>> \in Cells => CellHolds(k, d)
    BY <2>1
  <2> QED
    BY <1>2, <2>2
<1>4. Blank(Tiers)[c] = Unset
  <2>1. \A x \in Cells : \A d \in DOMAIN Blank(x[1]) : Blank(x[1])[d] = IF x[1][1] = "whitelisted" THEN FALSE ELSE Unset
    BY BlankCells
  <2>2. \A k, d : <<k, d>> \in Cells /\ d \in DOMAIN Blank(k) => Blank(k)[d] = IF k[1] = "whitelisted" THEN FALSE ELSE Unset
    BY <2>1
  <2>3. c \in DOMAIN Blank(Tiers)
    <3>1. \A x \in Cells : x[2] \in DOMAIN Blank(x[1])
      BY CellsAreColumns
    <3>2. \A k, d : <<k, d>> \in Cells => d \in DOMAIN Blank(k)
      BY <3>1
    <3> QED
      BY <1>2, <3>2
  <2> QED
    BY <1>2, <2>2, <2>3 DEF Tiers
<1>5. Seen(Tiers)[c] = IF Row(Tiers) = NoRow THEN Unset ELSE rows[Tiers][c]
  BY <1>4 DEF Seen, Shown
<1>6. B \subseteq DOMAIN log /\ \A m \in B : log[m].type = "setFee" /\ Given(m) \in FeeBps /\ Given(m) = log[m].bps
  <2>1. B \subseteq DOMAIN log /\ \A m \in B : log[m].type = "setFee"
    BY <1>1, SetByCells DEF Typed
  <2> QED
    BY <2>1, LogFacts DEF Given, EventFits, IInv, Actors
<1>7. ASSUME Row(Tiers) # NoRow, rows[Tiers][c] # Unset
      PROVE  \E m \in DOMAIN log : LastTo(m, Pair(p), "tier")' /\ rows[Tiers][c] = log[m].bps
  <2>1. PICK m \in DOMAIN log : LastTo(m, Tiers, c) /\ Seen(Tiers)[c] = Given(m)
    BY <1>3, <1>4, <1>5, <1>7 DEF CellHolds
  <2>2. m \in B /\ \A j \in B : j > m => j \in D
    BY <1>1, <2>1 DEF LastTo
  <2>3. LastTo(m, Pair(p), "tier")'
    BY <1>2, <2>2 DEF LastTo
  <2> QED
    BY <1>5, <1>6, <1>7, <2>1, <2>2, <2>3
<1>8. ASSUME Row(Tiers) = NoRow \/ rows[Tiers][c] = Unset
      PROVE  NoneTo(Pair(p), "tier") /\ NoneTo(Pair(p), "tier")'
  <2>1. ASSUME NEW m, LastTo(m, Tiers, c) PROVE Seen(Tiers)[c] # Given(m)
    <3>1. m \in B
      BY <1>1, <2>1 DEF LastTo
    <3> QED
      BY <1>5, <1>6, <1>8, <3>1, SettingsAssumption
  <2>2. B \subseteq D
    BY <1>1, <1>3, <2>1 DEF CellHolds, NoneTo
  <2> QED
    BY <1>2, <2>2 DEF NoneTo
<1> QED
  BY <1>1, <1>7, <1>8

\* Of a pool created by the event in hand, no fee of its own is set yet.
LEMMA NoOwnYet ==
  ASSUME IInv, log \in Logs(scenario), Follows, NEW a \in Actor, Kind(at[a]) = "created",
         UNCHANGED <<log, next, at, selected>>, NEW p, p = log[at[a]].pool, ~CL(p)
  PROVE  NoneTo(Pair(p), "own")' /\ NoneTo(Pair(p), "own") /\ p \in Pool
         /\ a \in Handlers /\ at[a] # 0 /\ at[a] \in DOMAIN log
<1>1. PICK n : n = at[a]
  OBVIOUS
<1>2. Ordered /\ scenario \in Scenarios /\ n # 0 /\ n \in DOMAIN log /\ log[n].type = "created"
  <2>1. n # 0 /\ log[n].type = "created"
    BY <1>1 DEF Kind
  <2>2. n \in DOMAIN log
    BY <1>1, <2>1 DEF IInv, Actors, Stored
  <2> QED
    BY <1>1, <2>1, <2>2 DEF Follows, IInv, Actors
<1>3. a \in Handlers
  BY <1>1, <1>2, OnlyHandler
<1>4. SetBy(Pair(p), "own") = Of("customFee", p, log) /\ SetBy(Pair(p), "own")' = SetBy(Pair(p), "own")
  BY SetByPairs, SetByKept
<1>5. \A m \in SetBy(Pair(p), "own") : m > n
  <2>1. PICK C : C = Of("created", p, log)
    OBVIOUS
  <2>2. n \in C
    BY <1>1, <1>2, <2>1 DEF Of
  <2>3. \A m \in DOMAIN log : log[m].type \in PoolSettings /\ log[m].pool = p => \A j \in C : j < m
    BY <1>2, <2>1, CreatedOnce
  <2>4. DOMAIN log \subseteq Nat
    BY <1>2, LogFacts
  <2> QED
    BY <1>2, <1>4, <2>2, <2>3, <2>4 DEF Of, PoolSettings
<1>6. \A m \in SetBy(Pair(p), "own") : m \in Due(Pair(p), "own")'
  BY <1>1, <1>2, <1>3, <1>5, LaterDue
<1>7. ASSUME NEW m \in SetBy(Pair(p), "own") PROVE m \in Due(Pair(p), "own")
  <2>1. Handlers = {"consumer", "replay"} /\ Handlers \subseteq Actor /\ \A b \in Actor \ {a} : at[b] = 0
    BY <1>1, <1>2, OnlyHandler DEF Handlers, Actor
  <2>2. m # 0 /\ m # n /\ m \in DOMAIN log
    BY <1>2, <1>4, <1>5, LogFacts DEF Of
  <2>3. m >= next \/ m \in selected
    <3>1. CASE a = "consumer"
      <4>1. n = next
        BY <1>1, <1>2, <3>1 DEF IInv, Actors
      <4>2. n \in Nat /\ m \in Nat /\ m > n
        BY <1>2, <1>5, <2>2, LogFacts
      <4> QED
        BY <4>1, <4>2
    <3>2. CASE a = "replay"
      BY <1>1, <1>2, <1>5, <2>2, <3>2 DEF Ordered
    <3> QED
      BY <1>3, <2>1, <3>1, <3>2
  <2>4. m # at["consumer"] /\ m # at["replay"]
    BY <1>1, <1>3, <2>1, <2>2
  <2> QED
    BY <2>3, <2>4 DEF Due
<1>8. p \in Pool
  BY <1>1, <1>2, LogFacts DEF EventFits
<1> QED
  BY <1>1, <1>2, <1>3, <1>4, <1>6, <1>7, <1>8 DEF NoneTo

LEMMA TierFeeFollows ==
  ASSUME IInv, IInv', log \in Logs(scenario), Follows, NEW a \in Actor, RunUpdate(a),
         Kind(at[a]) = "created"
  PROVE  Follows'
<1>1. PICK q, s, n, e, x, b : /\ q = Rest(a) /\ s = S(a) /\ n = at[a] /\ e = log[n] /\ x = e.pool
                              /\ b = rows[Tiers][Class[x]]
  OBVIOUS
<1>2. todo[a] # << >> /\ s.op = "update" /\ Moves(a, q) /\ Ordered /\ scenario \in Scenarios /\ Rows
  BY <1>1 DEF RunUpdate, Is, Become, Untouched, Moves, Follows, IInv, Actors
<1>3. Means(n, s)
  BY <1>1, <1>2, AheadRest
<1>4. /\ ~CL(x) /\ s.keys = {Pair(x)} /\ s.where = AnySource
      /\ Row(Tiers) # NoRow /\ b # Unset /\ s.patch = [bps |-> b, src |-> "factory_tier"]
  BY <1>1, <1>2, <1>3 DEF Means, Creates, SettingTypes
<1>5. UNCHANGED <<log, next, at, selected>>
  BY <1>2 DEF Moves
<1>6. /\ NoneTo(Pair(x), "own")' /\ NoneTo(Pair(x), "own") /\ x \in Pool
      /\ a \in Handlers /\ n # 0 /\ n \in DOMAIN log
  BY <1>1, <1>4, <1>5, NoOwnYet
<1>7. PICK m \in DOMAIN log : LastTo(m, Pair(x), "tier")' /\ b = log[m].bps
  BY <1>1, <1>4, <1>5, <1>6, TierHeld
<1>8. ASSUME NEW p \in Pool, Pair(p) \notin s.keys
      PROVE  \A c \in {"own", "tier", "created"} : n \notin SetBy(Pair(p), c)
  <2>1. p # x /\ log[n].type = "created"
    BY <1>1, <1>4, <1>6, <1>8 DEF Kind
  <2> QED
    BY <1>1, <2>1, SetByPairs DEF Of, Typed
<1>9. ASSUME NEW p \in Pool, Pair(p) \in s.keys, Pair(p) \notin raced, Pair(p) \in DOMAIN rows,
             NEW o, o = rows[Pair(p)], NEW r, r = IF o.src \in s.where THEN Over(s.patch, o) ELSE o
      PROVE  /\ CL(p) \/ r.cl = o.cl
             /\ r.gauge = o.gauge
             /\ \A g : g = FeeOf(r) => FeeHolds(p, g)'
  <2>1. p = x
    BY <1>4, <1>9 DEF Pair
  <2>2. o \in PairRow(scenario.days) /\ o.src \in s.where /\ FeeHolds(p, FeeOf(o))
    <3>1. o \in PairRow(scenario.days) /\ o # NoRow
      BY <1>2, <1>9, PairThere
    <3> QED
      BY <1>4, <1>9, <3>1, PairRowColumns DEF Follows, PairHolds, Row
  <2>3. r = Over(s.patch, o)
    BY <1>9, <2>2
  <2>4. FeeOf(o).dyn = FALSE
    <3>1. ASSUME NEW y, NEW z PROVE Fee(FALSE, y, z).dyn = FALSE
      BY DEF Fee
    <3>2. NoFee.dyn = FALSE
      BY DEF NoFee, Fee
    <3>3. \/ \E j \in DOMAIN log : FeeOf(o) = Fee(FALSE, log[j].bps, "factory_custom")
          \/ \E j \in DOMAIN log : FeeOf(o) = Fee(FALSE, log[j].bps, "factory_tier")
          \/ FeeOf(o) = NoFee
      BY <1>4, <2>1, <2>2 DEF FeeHolds
    <3> QED
      BY <3>1, <3>2, <3>3
  <2>5. PICK f, t : f = Fee(FALSE, b, "factory_tier") /\ t = s.patch
    OBVIOUS
  <2>6. DOMAIN t = {"bps", "src"} /\ t.bps = b /\ t.src = "factory_tier"
    BY <1>4, <2>5
  <2>7. /\ DOMAIN o = PairColumns
        /\ \A c \in PairColumns : r[c] = IF c \in DOMAIN t THEN t[c] ELSE o[c]
    <3>1. \A c \in DOMAIN t \cup DOMAIN o : Over(t, o)[c] = IF c \in DOMAIN t THEN t[c] ELSE o[c]
      BY DEF Over
    <3>2. DOMAIN o = PairColumns
      BY <2>2, PairRowColumns
    <3>3. r = Over(t, o)
      BY <2>3, <2>5
    <3> QED
      BY ONLY <3>1, <3>2, <3>3
  <2>8. /\ r.dyn = o.dyn /\ r.bps = b /\ r.src = "factory_tier" /\ r.gauge = o.gauge /\ r.cl = o.cl
    BY <2>6, <2>7 DEF PairColumns
  <2>9. FeeOf(r) = f
    <3>1. PICK g : g = FeeOf(r)
      OBVIOUS
    <3>2. /\ g = [c \in {"dyn", "bps", "src"} |-> g[c]] /\ g.dyn = r.dyn /\ g.bps = r.bps /\ g.src = r.src
      BY <3>1, FeeOfColumns
    <3>3. g.dyn = FALSE
      BY <2>4, <2>8, <3>2, FeeOfColumns
    <3>4. f = [c \in {"dyn", "bps", "src"} |-> f[c]] /\ f.dyn = FALSE /\ f.bps = b /\ f.src = "factory_tier"
      BY ONLY <2>5 DEF Fee
    <3>5. \A c \in {"dyn", "bps", "src"} : g[c] = f[c]
      BY <2>8, <3>2, <3>3, <3>4
    <3>6. g = f
      BY ONLY <3>2, <3>4, <3>5
    <3> QED
      BY <3>1, <3>6
  <2>10. FeeHolds(p, f)'
    <3>1. f = Fee(FALSE, log'[m].bps, "factory_tier") /\ m \in DOMAIN log'
      BY <1>5, <1>7, <2>5
    <3> QED
      BY <1>4, <1>6, <1>7, <2>1, <3>1 DEF FeeHolds
  <2> QED
    BY <2>8, <2>9, <2>10
<1>10. Kind(at[a]) \in SettingTypes \cup {"created"}
  OBVIOUS
<1> QED
  BY <1>1, <1>8, <1>9, <1>10, PairsUpdated

LEMMA UpdateFollows ==
  ASSUME IInv, IInv', log \in Logs(scenario), Follows, NEW a \in Actor, RunUpdate(a)
  PROVE  Follows'
<1>1. todo[a] # << >> /\ S(a).op = "update"
  BY DEF RunUpdate, Is
<1>2. Means(at[a], S(a))
  BY <1>1, AheadRest
<1>3. CASE Kind(at[a]) \in SettingTypes
  <2>1. Sows(at[a], S(a))
    BY <1>2, <1>3 DEF Means
  <2>2. Kind(at[a]) \in {"setFee", "customFee", "moduleFee", "feeReset"}
    <3>1. Kind(at[a]) = log[at[a]].type
      BY <1>3 DEF Kind, SettingTypes
    <3> QED
      BY <1>1, <2>1, <3>1 DEF Sows
  <2> QED
    BY <2>2, FactoryFeeFollows, OwnFeeFollows
<1>4. CASE Kind(at[a]) = "created"
  BY <1>4, TierFeeFollows
<1>5. CASE Kind(at[a]) \notin SettingTypes \cup {"created"}
  <2>1. DOMAIN S(a).patch = {"listed"}
    BY <1>1, <1>2, <1>5 DEF Means, Innocent
  <2> QED
    BY <1>5, <2>1, ListedFollows
<1> QED
  BY <1>3, <1>4, <1>5

LEMMA ComputeFollows ==
  ASSUME IInv, IInv', log \in Logs(scenario), Follows, NEW a \in Actor, RunCompute(a)
  PROVE  Follows'
BY AccountFollows, GaugeFollows

LEMMA UpsertFollows ==
  ASSUME IInv, IInv', log \in Logs(scenario), Follows, NEW a \in Actor, RunUpsert(a)
  PROVE  Follows'
BY PlainUpsertFollows, SettingUpsertFollows
-----------------------------------------------------------------------------
(* The queries.                                                            *)

LEMMA SameRows ==
  ASSUME rows' = rows, raced' = raced, NEW a \in Actor
  PROVE  /\ Spares(a) /\ \A k : Row(k)' = Row(k)
         /\ BothWhitelisted <=> BothWhitelisted'
         /\ \A p \in Pool : Row(Pair(p))' # NoRow => Alike(Row(Pair(p))', Old(p))
<1>1. \A k : Row(k)' = Row(k)
  BY DEF Row
<1>2. BothWhitelisted <=> BothWhitelisted'
  BY <1>1 DEF BothWhitelisted
<1>3. \A p \in Pool : Row(Pair(p))' # NoRow => Alike(Row(Pair(p))', Old(p))
  BY <1>1, AlikeItself
<1> QED
  BY <1>1, <1>2, <1>3 DEF Spares

LEMMA QueryMeans ==
  ASSUME IInv, Follows, NEW a \in Actor, todo[a] # << >>, S(a).op = "query"
  PROVE  /\ S(a).of = "tier" => Kind(at[a]) = "created" /\ Creates(at[a], S(a))
         /\ S(a).of = "custom" => Kind(at[a]) = "customFee" /\ Sows(at[a], S(a))
         /\ S(a).of \notin {"tier", "custom"} => Kind(at[a]) \notin SettingTypes \cup {"created"}
<1>1. Means(at[a], S(a))
  BY AheadRest
<1>2. CASE Kind(at[a]) \in SettingTypes
  <2>1. Kind(at[a]) = log[at[a]].type
    BY <1>2 DEF Kind, SettingTypes
  <2> QED
    BY <1>1, <1>2, <2>1 DEF Means, Sows
<1>3. CASE Kind(at[a]) = "created"
  BY <1>1, <1>3 DEF Means, Creates, SettingTypes
<1>4. CASE Kind(at[a]) \notin SettingTypes \cup {"created"}
  BY <1>1, <1>4 DEF Means, Innocent
<1> QED
  BY <1>2, <1>3, <1>4

\* An answer that means the event, and sets what it asked for.
LEMMA Answered ==
  ASSUME IInv, log \in Logs(scenario), Follows, NEW a \in Actor, RunQuery(a),
         NEW A, A = Answer(S(a)),
         \A i \in 1..Len(A) :
           /\ A[i].op \notin {"save", "write"} \/ Kind(at[a]) # "created"
           /\ Means(at[a], A[i]) /\ ~(A[i].op = "upsert" /\ A[i].key[1] = "whitelisted"),
         \A k, c : Column(k, c) /\ at[a] \in SetBy(k, c) /\ Sets(S(a), k, c) =>
           \E i \in 1..Len(A) : Sets(A[i], k, c)
  PROVE  Follows'
<1>1. PICK n, r, q, s : n = at[a] /\ r = Rest(a) /\ q = A \o r /\ s = S(a)
  OBVIOUS
<1>2. /\ todo[a] # << >> /\ s.op = "query" /\ Moves(a, q) /\ rows' = rows /\ raced' = raced /\ log' = log
  BY <1>1 DEF RunQuery, Is, Become, Untouched, Moves
<1>3. /\ q = << >> \/ q[1].op \notin {"save", "set", "write"}
      /\ Sequence(A) /\ Sequence(r)
  BY <1>1, <1>2, AnswerFollowed
<1>4. /\ Ahead(n, r) /\ s = todo[a][1] /\ Len(r) = Len(todo[a]) - 1 /\ Len(todo[a]) \in Nat
      /\ \A i \in 1..Len(r) : r[i] = todo[a][1 + i]
  BY <1>1, <1>2, AheadRest
<1>5. /\ Sequence(q) /\ Len(q) = Len(A) + Len(r) /\ Len(A) \in Nat /\ Len(r) \in Nat
      /\ \A i \in 1..Len(A) : q[i] = A[i]
      /\ \A i \in 1..Len(r) : q[Len(A) + i] = r[i]
  <2>1. PICK u : u = A \o r
    OBVIOUS
  <2>2. /\ Sequence(u) /\ Len(u) = Len(A) + Len(r)
        /\ \A i \in 1..Len(A) : u[i] = A[i]
        /\ \A i \in 1..Len(r) : u[Len(A) + i] = r[i]
    BY <1>3, <2>1, Joined
  <2> QED
    BY <1>1, <1>3, <2>1, <2>2 DEF Sequence
<1>6. /\ Spares(a) /\ \A k : Row(k)' = Row(k)
      /\ \A p \in Pool : Row(Pair(p))' # NoRow => Alike(Row(Pair(p))', Old(p))
  BY <1>2, SameRows
<1>7. Ahead(n, q)'
  <2>1. Ahead(n, q)
    BY <1>1, <1>3, <1>4, AheadJoined
  <2> QED
    BY <1>2, <1>6, <2>1, AheadKept
<1>8. \A i \in 1..Len(todo[a]) : i = 1 \/ \E j \in 1..Len(q) : q[j] = todo[a][i]
  <2> SUFFICES ASSUME NEW i \in 1..Len(todo[a]), i # 1 PROVE \E j \in 1..Len(q) : q[j] = todo[a][i]
    OBVIOUS
  <2>1. i - 1 \in 1..Len(r) /\ Len(A) + (i - 1) \in 1..Len(q) /\ 1 + (i - 1) = i
    BY <1>4, <1>5
  <2> QED
    BY <1>4, <1>5, <2>1
<1>9. ASSUME NEW k, NEW c, Column(k, c), n \in SetBy(k, c), Yet(a, k, c) PROVE YetIn(q, k, c)
  <2>1. PICK i \in 1..Len(todo[a]) : Sets(todo[a][i], k, c)
    BY <1>9 DEF Yet, YetIn
  <2>2. CASE i = 1
    <3>1. PICK j \in 1..Len(A) : Sets(A[j], k, c)
      BY <1>1, <1>4, <1>9, <2>1, <2>2
    <3>2. j \in 1..Len(q) /\ q[j] = A[j]
      BY <1>5
    <3> QED
      BY <3>1, <3>2 DEF YetIn
  <2>3. CASE i # 1
    BY <1>8, <2>1, <2>3 DEF YetIn
  <2> QED
    BY <2>2, <2>3
<1>10. SettingRows' /\ \A p \in Pool : PairHolds(p)'
  BY <1>1, <1>2, <1>6, <1>9, NothingSet
<1>11. \A p \in Pool : CreatedFirst(p)'
  <2> SUFFICES ASSUME NEW p \in Pool PROVE CreatedFirst(p)'
    OBVIOUS
  <2>1. ASSUME NEW i \in 1..Len(todo[a]), todo[a][i].op \in {"save", "write"}, todo[a][i].key = Pair(p)
        PROVE  \E j \in 1..Len(q) : q[j].op \in {"save", "write"} /\ q[j].key = Pair(p)
    BY <1>2, <1>4, <1>8, <2>1
  <2> QED
    BY <1>2, <1>6, <2>1, CreatedKept
<1>12. ~At(a, {"write"})'
  <2>1. todo'[a] = q
    BY <1>2 DEF Moves, IInv, Actors
  <2>2. q # << >> => Head(q) = q[1]
    BY <1>5, TailIsSuffix
  <2> QED
    BY <1>3, <2>1, <2>2 DEF At, S
<1>13. Ahead(at[a], q)'
  BY <1>1, <1>2, <1>7 DEF Moves
<1> QED
  BY <1>2, <1>6, <1>10, <1>11, <1>12, <1>13, Onward

\* One whose answer is to do nothing, of a pair that holds nevertheless.
LEMMA Unanswered ==
  ASSUME IInv, log \in Logs(scenario), Follows, NEW a \in Actor, RunQuery(a),
         S(a).of \in {"tier", "custom"}, Answer(S(a)) = << >>,
         NEW x \in Pool, x = S(a).pool, PairHolds(x)'
  PROVE  Follows'
<1>1. PICK q, s : q = Rest(a) /\ s = S(a) /\ x = s.pool
  OBVIOUS
<1>2. todo[a] # << >> /\ s.op = "query" /\ rows' = rows /\ raced' = raced /\ log' = log
  BY <1>1 DEF RunQuery, Is, Untouched
<1>3. Moves(a, q)
  <2>1. << >> \o q = q
    BY <1>1, <1>2, AheadRest, EmptyFirst
  <2>2. Become(a, << >> \o q)
    BY <1>1 DEF RunQuery
  <2> QED
    BY <2>1, <2>2 DEF RunQuery, Become, Untouched, Moves
<1>4. /\ Spares(a) /\ \A k : Row(k)' = Row(k)
      /\ BothWhitelisted <=> BothWhitelisted'
      /\ \A p \in Pool : Row(Pair(p))' # NoRow => Alike(Row(Pair(p))', Old(p))
  BY <1>2, SameRows
<1>5. SettingRows'
  BY <1>1, <1>2, <1>3, <1>4, SettingsSame
<1>6. ASSUME NEW p \in Pool PROVE PairHolds(p)'
  <2>1. CASE p = x
    BY <1>1, <2>1
  <2>2. CASE p # x
    <3>1. \A c : ~Sets(s, Pair(p), c)
      BY <1>1, <1>2, <2>2, SetByPairs DEF Sets, Pair
    <3>2. \A c : Due(Pair(p), c) \subseteq Due(Pair(p), c)'
      BY <1>1, <1>2, <1>3, <3>1, RestGrown
    <3> QED
      BY <1>2, <1>4, <3>2, PairKept
  <2> QED
    BY <2>1, <2>2
<1> QED
  BY <1>1, <1>2, <1>3, <1>4, <1>5, <1>6, GoesOn

LEMMA InnocentQueryFollows ==
  ASSUME IInv, log \in Logs(scenario), Follows, NEW a \in Actor, RunQuery(a),
         S(a).of \notin {"tier", "custom"}
  PROVE  Follows'
<1>1. PICK A : A = Answer(S(a))
  OBVIOUS
<1>2. todo[a] # << >> /\ S(a).op = "query"
  BY DEF RunQuery, Is
<1>3. Kind(at[a]) \notin SettingTypes \cup {"created"}
  BY <1>2, QueryMeans
<1>4. All(0, A)
  <2>1. QueryFits(S(a))
    BY <1>2, AnswerFollowed
  <2> QED
    BY <1>1, <2>1, AllAnswer
<1>5. \A i \in 1..Len(A) : Means(at[a], A[i]) /\ ~(A[i].op = "upsert" /\ A[i].key[1] = "whitelisted")
  BY <1>3, <1>4 DEF All, Meanwhile, Means, Innocent, IsSetting
<1>6. \A k, c : Column(k, c) => at[a] \notin SetBy(k, c)
  BY <1>3, NoneSet
<1> QED
  BY <1>1, <1>3, <1>5, <1>6, Answered

\* One answered by an update of the pair it is about.
LEMMA AnsweredByUpdate ==
  ASSUME IInv, log \in Logs(scenario), Follows, NEW a \in Actor, RunQuery(a),
         S(a).of \in {"tier", "custom"}, NEW u, Answer(S(a)) = << u >>, u.op = "update",
         Pair(S(a).pool) \in u.keys, Means(at[a], u)
  PROVE  Follows'
<1>1. PICK A, x : A = << u >> /\ x = S(a).pool
  OBVIOUS
<1>2. Len(A) = 1 /\ A[1] = u /\ A = Answer(S(a)) /\ S(a).op = "query"
  BY <1>1, OneSequence DEF RunQuery, Is
<1>3. \A i \in 1..Len(A) : A[i] = u
  BY <1>2
<1>4. ASSUME NEW k, NEW c, Sets(S(a), k, c) PROVE \E i \in 1..Len(A) : Sets(A[i], k, c)
  <2>1. k = Pair(x) /\ c # "gauge" /\ ~IsSetting(k)
    BY <1>1, <1>2, <1>4 DEF Sets
  <2>2. Sets(u, k, c)
    BY <1>1, <2>1 DEF Sets
  <2> QED
    BY <1>2, <2>2
<1> QED
  BY <1>2, <1>3, <1>4, Answered

LEMMA TierQueryFollows ==
  ASSUME IInv, log \in Logs(scenario), Follows, NEW a \in Actor, RunQuery(a), S(a).of = "tier"
  PROVE  Follows'
<1>1. PICK s, n, p : s = S(a) /\ n = at[a] /\ p = log[n].pool
  OBVIOUS
<1>2. /\ todo[a] # << >> /\ s.op = "query" /\ rows' = rows /\ raced' = raced
      /\ UNCHANGED <<log, next, at, selected>>
  BY <1>1 DEF RunQuery, Is, Untouched
<1>3. Kind(n) = "created" /\ s.pool = p /\ ~CL(p)
  BY <1>1, <1>2, QueryMeans DEF Creates
<1>4. NoneTo(Pair(p), "own")' /\ NoneTo(Pair(p), "own") /\ p \in Pool
  BY <1>1, <1>2, <1>3, NoOwnYet
<1>5. Answer(s) = ApplyFactoryTier(p)
  BY <1>1, <1>3 DEF Answer
<1>6. CASE Row(Tiers) = NoRow \/ rows[Tiers][Class[p]] = Unset
  <2>1. Answer(s) = << >>
    BY <1>5, <1>6 DEF ApplyFactoryTier
  <2>2. PairHolds(p)'
    <3> SUFFICES ASSUME Row(Pair(p))' # NoRow, Pair(p) \notin raced'
                 PROVE  /\ ~rows'[Pair(p)].cl
                        /\ FeeHolds(p, FeeOf(rows[Pair(p)]))'
                        /\ GaugeHolds(p, rows[Pair(p)].gauge)'
      BY DEF PairHolds
    <3>1. Row(Pair(p)) # NoRow /\ Pair(p) \notin raced /\ Pair(p) \in DOMAIN rows
      BY <1>2 DEF Row
    <3>2. PICK f, g : f = FeeOf(rows[Pair(p)]) /\ g = rows[Pair(p)].gauge
      OBVIOUS
    <3>3. ~rows[Pair(p)].cl /\ FeeHolds(p, f) /\ GaugeHolds(p, g)
      BY <1>3, <1>4, <3>1, <3>2 DEF Follows, PairHolds
    <3>4. NoneTo(Pair(p), "tier")'
      BY <1>1, <1>2, <1>3, <1>4, <1>6, TierHeld
    <3>5. FeeHolds(p, f)'
      <4>1. CASE f = NoFee
        BY <1>3, <1>4, <3>4, <4>1 DEF FeeHolds
      <4>2. CASE \E j \in DOMAIN log : LastTo(j, Pair(p), "tier") /\ f = Fee(FALSE, log[j].bps, "factory_tier")
        <5>1. Due(Pair(p), "tier") \subseteq Due(Pair(p), "tier")'
          <6>1. n \notin SetBy(Pair(p), "tier")
            BY <1>3, SetByPairs DEF Kind, Typed
          <6>2. \A b \in Handlers : at[b] \notin SetBy(Pair(p), "tier")
            <7>1. Handlers \subseteq Actor
              BY DEF Handlers, Actor
            <7>2. \A b \in Actor \ {a} : at[b] = 0
              <8>1. n # 0
                BY <1>3 DEF Kind
              <8> QED
                BY <1>1, <8>1, OnlyHandler DEF Follows
            <7>3. 0 \notin SetBy(Pair(p), "tier")
              <8>1. SetBy(Pair(p), "tier") \subseteq DOMAIN log
                BY SetByEvents
              <8> QED
                BY <8>1, LogFacts DEF IInv, Actors
            <7> QED
              BY <1>1, <6>1, <7>1, <7>2, <7>3
          <6> QED
            BY <1>2, <6>2, DueGrows
        <5>2. \A j : LastTo(j, Pair(p), "tier") => LastTo(j, Pair(p), "tier")'
          BY <1>2, <5>1, HoldsKept
        <5> QED
          BY <1>2, <1>3, <1>4, <4>2, <5>2 DEF FeeHolds
      <4>3. CASE \E j \in DOMAIN log : LastTo(j, Pair(p), "own") /\ f = Fee(FALSE, log[j].bps, "factory_custom")
        <5>1. Due(Pair(p), "own") \subseteq Due(Pair(p), "own")'
          <6>1. SetBy(Pair(p), "own") \subseteq Due(Pair(p), "own")' 
            <7>1. SetBy(Pair(p), "own")' = SetBy(Pair(p), "own")
              BY <1>2, SetByKept
            <7> QED
              BY <1>4, <7>1 DEF NoneTo
          <6> QED
            BY <6>1 DEF Due
        <5>2. \A j : LastTo(j, Pair(p), "own") => LastTo(j, Pair(p), "own")'
          BY <1>2, <5>1, HoldsKept
        <5> QED
          BY <1>2, <1>3, <4>3, <5>2 DEF FeeHolds
      <4> QED
        BY <1>3, <3>3, <4>1, <4>2, <4>3 DEF FeeHolds
    <3>6. GaugeHolds(p, g)'
      <4>1. ~Sets(s, Pair(p), "gauge")
        BY <1>2, SetByPairs DEF Sets
      <4>2. PICK q : q = Rest(a)
        OBVIOUS
      <4>3. Moves(a, q)
        <5>1. << >> \o q = q
          BY <1>1, <1>2, <4>2, AheadRest, EmptyFirst
        <5>2. Become(a, << >> \o q)
          BY <1>1, <2>1, <4>2 DEF RunQuery
        <5> QED
          BY <5>1, <5>2 DEF RunQuery, Become, Untouched, Moves
      <4>4. Due(Pair(p), "gauge") \subseteq Due(Pair(p), "gauge")'
        BY <1>1, <1>2, <4>1, <4>2, <4>3, RestGrown
      <4>5. g \in BOOLEAN
        <5>1. rows[Pair(p)] \in PairRow(scenario.days)
          BY <1>4, <3>1, PairThere DEF IInv, Actors
        <5> QED
          BY <3>2, <5>1, PairRowColumns
      <4>6. BothWhitelisted <=> BothWhitelisted'
        BY <1>2, SameRows
      <4> QED
        BY <1>2, <3>3, <4>4, <4>5, <4>6, GaugeKept
    <3> QED
      BY <1>2, <3>2, <3>3, <3>5, <3>6 DEF FeeOf
  <2> QED
    BY <1>1, <1>3, <1>4, <2>1, <2>2, Unanswered
<1>7. CASE Row(Tiers) # NoRow /\ rows[Tiers][Class[p]] # Unset
  <2>1. PICK u : u = Update({Pair(p)}, AnySource, [bps |-> rows[Tiers][Class[p]], src |-> "factory_tier"])
    OBVIOUS
  <2>2. Answer(s) = << u >>
    BY <1>5, <1>7, <2>1 DEF ApplyFactoryTier
  <2>3. u.op = "update" /\ u.keys = {Pair(p)} /\ u.where = AnySource
        /\ u.patch = [bps |-> rows[Tiers][Class[p]], src |-> "factory_tier"]
    BY <2>1 DEF Update
  <2>4. Means(n, u)
    BY <1>1, <1>3, <1>7, <2>3 DEF Means, Creates, SettingTypes
  <2> QED
    BY <1>1, <1>3, <2>2, <2>3, <2>4, AnsweredByUpdate
<1> QED
  BY <1>6, <1>7

LEMMA CustomQueryFollows ==
  ASSUME IInv, log \in Logs(scenario), Follows, NEW a \in Actor, RunQuery(a), S(a).of = "custom"
  PROVE  Follows'
<1>1. PICK s, n, e, p : s = S(a) /\ n = at[a] /\ e = log[n] /\ p = e.pool
  OBVIOUS
<1>2. /\ todo[a] # << >> /\ s.op = "query" /\ rows' = rows /\ raced' = raced /\ log' = log
  BY <1>1 DEF RunQuery, Is, Untouched
<1>3. Kind(n) = "customFee" /\ s.pool = p /\ s.bps = e.bps
  BY <1>1, <1>2, QueryMeans DEF Sows
<1>4. n # 0 /\ n \in Stored /\ n \in DOMAIN log /\ e.type = "customFee" /\ p \in Pool /\ ~CL(p)
      /\ scenario \in Scenarios /\ Rows
  <2>1. n # 0
    BY <1>3 DEF Kind
  <2>2. n \in Stored /\ n \in DOMAIN log /\ scenario \in Scenarios /\ Rows
    BY <1>1, <2>1 DEF IInv, Actors, Stored
  <2>3. e.type = "customFee"
    BY <1>1, <1>3, <2>1 DEF Kind
  <2> QED
    BY <1>1, <2>1, <2>2, <2>3, LogFacts DEF EventFits
<1>5. Answer(s) = SetCustomFee(p, e.bps)
  BY <1>1, <1>3 DEF Answer
<1>6. Row(Pair(p)) # NoRow
  BY <1>1, <1>4, AbsentDue DEF PoolSettings
<1>7. CASE rows[Pair(p)].cl
  <2>1. Answer(s) = << >>
    BY <1>5, <1>7 DEF SetCustomFee
  <2>2. Pair(p) \in raced'
    BY <1>2, <1>4, <1>6, <1>7 DEF Follows, PairHolds
  <2>3. PairHolds(p)'
    BY <2>2 DEF PairHolds
  <2> QED
    BY <1>1, <1>3, <1>4, <2>1, <2>3, Unanswered
<1>8. CASE ~rows[Pair(p)].cl
  <2>1. PICK u : u = Update({Pair(p)}, AnySource, Fee(FALSE, e.bps, "factory_custom"))
    OBVIOUS
  <2>2. Answer(s) = << u >>
    BY <1>5, <1>6, <1>8, <2>1 DEF SetCustomFee
  <2>3. u.op = "update" /\ u.keys = {Pair(p)} /\ u.where = AnySource
        /\ u.patch = Fee(FALSE, e.bps, "factory_custom")
    BY <2>1 DEF Update
  <2>4. Means(n, u)
    BY <1>1, <1>3, <1>4, <2>3 DEF Means, Sows, SettingTypes
  <2> QED
    BY <1>1, <1>3, <2>2, <2>3, <2>4, AnsweredByUpdate
<1> QED
  BY <1>7, <1>8

LEMMA QueryFollows ==
  ASSUME IInv, log \in Logs(scenario), Follows, NEW a \in Actor, RunQuery(a)
  PROVE  Follows'
BY InnocentQueryFollows, TierQueryFollows, CustomQueryFollows
-----------------------------------------------------------------------------
(* Loading a row.                                                          *)

LEMMA FindFollows ==
  ASSUME IInv, log \in Logs(scenario), Follows, NEW a \in Actor, RunFind(a)
  PROVE  Follows'
<1>1. PICK s, n, r, j, q :
        /\ s = S(a) /\ n = at[a] /\ r = Rest(a)
        /\ j = (IF Row(s.key) = NoRow /\ s.skip > 0 THEN s.skip ELSE 0)
        /\ q = IF Row(s.key) = NoRow /\ s.skip > 0 THEN SubSeq(r, s.skip + 1, Len(r)) ELSE r
  OBVIOUS
<1>2. /\ todo[a] # << >> /\ s.op = "find" /\ Moves(a, q) /\ rows' = rows /\ raced' = raced /\ log' = log
  BY <1>1 DEF RunFind, Is, Become, Untouched, Moves
<1>3. /\ Program(a, todo[a]) /\ Ahead(n, todo[a]) /\ scenario \in Scenarios /\ n \in {0} \cup DOMAIN log
      /\ DOMAIN todo = Actor
  BY <1>1 DEF IInv, Actors, Follows, Stored
<1>4. /\ Sequence(r) /\ s = todo[a][1] /\ Len(r) = Len(todo[a]) - 1 /\ Len(todo[a]) \in Nat
      /\ 1 \in 1..Len(todo[a]) /\ Means(n, s) /\ StatementFits(a, s)
      /\ \A i \in 1..Len(r) : r[i] = todo[a][1 + i] /\ r[i].op # "write"
  BY <1>1, <1>2, AheadRest
<1>5. /\ s.skip \in Nat /\ (s.skip > 0 => 1 + s.skip <= Len(todo[a]))
      /\ 1 < Len(todo[a]) /\ Stores(todo[a][2]) /\ todo[a][2].key = s.key
  <2>1. s.skip \in Nat
    BY <1>2, <1>4 DEF StatementFits
  <2>2. Loads(todo[a][1]) /\ 1 + 1 = 2
    BY <1>2, <1>4 DEF Loads
  <2> QED
    BY <1>3, <1>4, <2>1, <2>2 DEF Program, Couples
<1>6. /\ j \in 0..Len(r) /\ Len(q) = Len(r) - j /\ Sequence(q)
      /\ \A i \in 1..Len(q) : q[i] = r[j + i]
  <2>1. CASE Row(s.key) = NoRow /\ s.skip > 0
    <3>1. j = s.skip /\ q = SubSeq(r, j + 1, Len(r))
      BY <1>1, <2>1
    <3>2. j \in 0..Len(r)
      <4>1. j \in Nat /\ j > 0 /\ 1 + j <= Len(todo[a])
        BY <1>5, <2>1, <3>1
      <4> QED
        BY ONLY <1>4, <4>1
    <3>3. Sequence(r) /\ q = SubSeq(r, j + 1, Len(r))
      BY <1>4, <3>1
    <3>4. Sequence(q) /\ Len(q) = Len(r) - j /\ \A i \in 1..Len(q) : q[i] = r[j + i]
      BY ONLY <3>2, <3>3, Suffix
    <3> QED
      BY <3>2, <3>4
  <2>2. CASE ~(Row(s.key) = NoRow /\ s.skip > 0)
    <3>1. j = 0 /\ q = r
      BY <1>1, <2>2
    <3> QED
      BY <1>4, <3>1 DEF Sequence
  <2> QED
    BY <2>1, <2>2
<1>7. PICK k : k = j + 1 /\ k \in 0..Len(todo[a]) /\ k >= 1
  BY <1>4, <1>6
<1>8. /\ Len(q) = Len(todo[a]) - k
      /\ \A i \in 1..Len(q) : /\ q[i] = todo[a][k + i] /\ k + i \in 1..Len(todo[a]) /\ q[i].op # "write"
                              /\ j + i \in 1..Len(r)
  <2>1. \A i \in 1..Len(q) : j + i \in 1..Len(r) /\ 1 + (j + i) = k + i /\ k + i \in 1..Len(todo[a])
    BY <1>4, <1>6, <1>7
  <2> QED
    BY <1>4, <1>6, <1>7, <2>1
<1>9. Kind(n) \notin SettingTypes
  <2> SUFFICES ASSUME Kind(n) \in SettingTypes PROVE FALSE
    OBVIOUS
  <2> QED
    BY <1>2, <1>4 DEF Means, Sows
<1>10. ASSUME NEW i \in 1..k, Kind(n) = "created"
       PROVE  /\ \A c, p \in Pool : todo[a][i].op \in {"save", "write"} => todo[a][i].key # Pair(p)
              /\ \A l, c : Column(l, c) => ~Sets(todo[a][i], l, c)
  <2>1. CASE i = 1
    <3>1. todo[a][i].op = "find"
      BY <1>2, <1>4, <2>1
    <3>2. \A l, c : ~Sets(todo[a][i], l, c)
      BY <3>1 DEF Sets
    <3> QED
      BY <3>1, <3>2
  <2>2. CASE i # 1
    <3>0. Creates(n, s)
      BY <1>4, <1>9, <1>10 DEF Means
    <3>1. s.skip = 1 /\ s.key = Totals /\ i = 2
      <4>1. s.skip \in {0, 1} /\ (s.skip = 1 => s.key = Totals)
        BY <1>2, <3>0 DEF Creates
      <4>2. j >= 1
        BY <1>6, <1>7, <2>2
      <4>3. j = s.skip
        BY <1>1, <4>2
      <4> QED
        BY <1>7, <2>2, <4>1, <4>2, <4>3
    <3>2. todo[a][i].op \in {"save", "set"} /\ todo[a][i].key = Totals
      BY <1>5, <3>1 DEF Stores
    <3>3. \A p \in Pool : Pair(p) # Totals
      BY DEF Pair, Totals
    <3>4. ASSUME NEW l, NEW c, Column(l, c), Sets(todo[a][i], l, c) PROVE FALSE
      <4>1. l = Totals
        BY <3>2, <3>4 DEF Sets
      <4>2. ~IsSetting(l)
        BY <4>1, NoSettings
      <4>3. \A x \in Cells : IsSetting(x[1])
        BY CellsAreColumns
      <4>4. <<l, c>> \in Cells => IsSetting(l)
        BY <4>3
      <4> QED
        BY <3>3, <3>4, <4>1, <4>2, <4>4 DEF Column
    <3> QED
      BY <3>2, <3>3, <3>4
  <2> QED
    BY <2>1, <2>2
<1>11. ASSUME NEW i \in 1..Len(todo[a]), i \notin 1..k
       PROVE  \E m \in 1..Len(q) : q[m] = todo[a][i]
  <2>1. i - k \in 1..Len(q) /\ k + (i - k) = i
    BY <1>7, <1>8, <1>11
  <2> QED
    BY <1>8, <2>1
<1>12. ASSUME NEW l, NEW c, Column(l, c), n \in SetBy(l, c), Yet(a, l, c) PROVE YetIn(q, l, c)
  <2>1. Kind(n) = "created"
    BY <1>3, <1>9, <1>12, SetsNothing
  <2>2. PICK i \in 1..Len(todo[a]) : Sets(todo[a][i], l, c)
    BY <1>12 DEF Yet, YetIn
  <2>3. i \notin 1..k
    BY <1>10, <1>12, <2>1, <2>2
  <2> QED
    BY <1>11, <2>2, <2>3 DEF YetIn
<1>13. /\ Spares(a) /\ \A l : Row(l)' = Row(l)
       /\ \A p \in Pool : Row(Pair(p))' # NoRow => Alike(Row(Pair(p))', Old(p))
  BY <1>2, SameRows
<1>14. SettingRows' /\ \A p \in Pool : PairHolds(p)'
  BY <1>1, <1>2, <1>12, <1>13, NothingSet
<1>15. \A p \in Pool : CreatedFirst(p)'
  <2> SUFFICES ASSUME NEW p \in Pool PROVE CreatedFirst(p)'
    OBVIOUS
  <2>1. ASSUME n \in Of("created", p, log),
               NEW i \in 1..Len(todo[a]), todo[a][i].op \in {"save", "write"}, todo[a][i].key = Pair(p)
        PROVE  \E m \in 1..Len(q) : q[m].op \in {"save", "write"} /\ q[m].key = Pair(p)
    <3>1. Kind(n) = "created"
      <4>1. n # 0
        BY <1>3, <2>1, LogFacts DEF Of
      <4> QED
        BY <2>1, <4>1 DEF Of, Kind
    <3>2. i \notin 1..k
      BY <1>10, <2>1, <3>1
    <3> QED
      BY <1>11, <2>1, <3>2
  <2>2. a = "consumer" /\ at[a] \in Of("created", p, log) /\ Row(Pair(p))' = NoRow
          /\ (\E i \in 1..Len(todo[a]) : todo[a][i].op \in {"save", "write"} /\ todo[a][i].key = Pair(p)) =>
          \E i \in 1..Len(q) : q[i].op \in {"save", "write"} /\ q[i].key = Pair(p)
    BY <1>1, <2>1
  <2> QED
    BY <1>2, <1>13, <2>2, CreatedKept
<1>16. Ahead(at[a], q)'
  <2>1. Ahead(n, q)
    <3>1. PICK p : p = todo[a]
      OBVIOUS
    <3>2. Ahead(n, p) /\ Len(p) \in Nat /\ k \in 0..Len(p) /\ Len(q) = Len(p) - k
          /\ \A i \in 1..Len(q) : q[i] = p[k + i]
      BY <1>3, <1>4, <1>7, <1>8, <3>1
    <3> QED
      BY ONLY <3>2, AheadLater
  <2>2. Ahead(n, q)'
    BY <1>2, <1>13, <2>1, AheadKept
  <2> QED
    BY <1>1, <1>2, <2>2 DEF Moves
<1>17. ~At(a, {"write"})'
  <2>1. todo'[a] = q
    BY <1>2, <1>3 DEF Moves
  <2>2. q # << >> => Head(q) = q[1] /\ 1 \in 1..Len(q)
    BY <1>6, TailIsSuffix DEF Sequence
  <2> QED
    BY <1>8, <2>1, <2>2 DEF At, S
<1> QED
  BY <1>2, <1>13, <1>14, <1>15, <1>16, <1>17, Onward
-----------------------------------------------------------------------------
(* Storing a row: what an edit makes of a pair.                            *)

LEMMA EditedAlike ==
  ASSUME NEW n \in Nat, NEW h, h \in PairRow(n) \/ h = NoRow, NEW o, o = (IF h = NoRow THEN NewPair ELSE h),
         o \in PairRow(n), NEW e, e.of \in {"mintPair", "mintUsd", "tradePair", "list"},
         e.of # "tradePair" => h # NoRow,
         e.of \in {"mintPair", "tradePair"} => e.day \in 0..n
  PROVE  Alike(Edited(e, h), o)
<1> DEFINE Kept == {"dyn", "bps", "src", "gauge", "cl"}
<1>1. o = [c \in PairColumns |-> o[c]] /\ DOMAIN o = PairColumns /\ Kept \subseteq PairColumns
  BY PairRowColumns DEF PairColumns
<1>2. SUFFICES \A c \in Kept : Edited(e, h)[c] = o[c]
  BY AlikeBy
<1>3. ASSUME NEW d \in 0..n
      PROVE  DOMAIN Rolled(o, d) = PairColumns /\ \A c \in Kept : Rolled(o, d)[c] = o[c]
  BY <1>1 DEF Rolled, OfDay
<1>4. CASE e.of = "mintPair"
  <2>1. PICK r : r = Rolled(o, e.day)
    OBVIOUS
  <2>2. PICK v, w : Edited(e, h) = [r EXCEPT !.dayTvl = v, !.liquidity = w, !.price = "token1/token0"]
    <3>1. PICK v, w : v = r.dayTvl + 1 /\ w = r.liquidity + 1
      OBVIOUS
    <3>2. o = h
      BY <1>4
    <3>3. Edited(e, h) = MintedPair(o, e.day)
      BY <1>4, <3>2, EditedIs
    <3>4. Edited(e, h) = [r EXCEPT !.dayTvl = v, !.liquidity = w, !.price = "token1/token0"]
      BY <2>1, <3>1, <3>3 DEF MintedPair
    <3> QED
      BY <3>4
  <2>3. DOMAIN r = PairColumns /\ \A c \in Kept : r[c] = o[c]
    BY <1>3, <1>4, <2>1
  <2>4. ASSUME NEW c \in Kept PROVE Edited(e, h)[c] = o[c]
    <3>1. c \in DOMAIN r /\ c \notin {"dayTvl", "liquidity", "price"}
      BY <1>1, <2>3
    <3>2. Edited(e, h)[c] = r[c]
      BY ONLY <2>2, <3>1
    <3> QED
      BY <2>3, <3>2
  <2> QED
    BY <2>4
<1>5. CASE e.of = "mintUsd"
  <2>1. Edited(e, h) = [o EXCEPT !.dayUsd = @ + 1]
    BY <1>5, EditedIs DEF MintedUsd
  <2> QED
    BY <1>1, <2>1
<1>6. CASE e.of = "tradePair"
  <2>1. PICK r : r = Rolled(o, e.day)
    OBVIOUS
  <2>2. PICK v, w : Edited(e, h) = [r EXCEPT !.fees = v, !.price = w]
    <3>1. PICK v, w : v = r.fees + 1 /\ w = QuotePerBase(o)
      OBVIOUS
    <3>2. Edited(e, h) = TradedPair(o, e.day)
      BY <1>6, EditedIs
    <3>3. Edited(e, h) = [r EXCEPT !.fees = v, !.price = w]
      BY <2>1, <3>1, <3>2 DEF TradedPair
    <3> QED
      BY <3>3
  <2>3. DOMAIN r = PairColumns /\ \A c \in Kept : r[c] = o[c]
    BY <1>3, <1>6, <2>1
  <2>4. ASSUME NEW c \in Kept PROVE Edited(e, h)[c] = o[c]
    <3>1. c \in DOMAIN r /\ c \notin {"fees", "price"}
      BY <1>1, <2>3
    <3>2. Edited(e, h)[c] = r[c]
      BY ONLY <2>2, <3>1
    <3> QED
      BY <2>3, <3>2
  <2> QED
    BY <2>4
<1>7. CASE e.of = "list"
  <2>1. Edited(e, h) = [o EXCEPT !.listed = e.listed]
    BY <1>7, EditedIs
  <2> QED
    BY <1>1, <2>1
<1> QED
  BY <1>4, <1>5, <1>6, <1>7

\* What a write of event n makes of the row o of p.
Turned(n, p, r, o) ==
  /\ FeeOf(r) = IF Kind(n) = "created" /\ CL(p) THEN DynamicFee
                ELSE IF Kind(n) = "created" THEN [FeeOf(o) EXCEPT !.dyn = FALSE] ELSE FeeOf(o)
  /\ r.gauge = o.gauge
  /\ r.cl = IF Kind(n) = "created" THEN CL(p) ELSE o.cl

LEMMA MinimalFee ==
  ASSUME NEW n \in Nat, NEW o \in PairRow(n), NEW p \in Pool, NEW r, r = Minimal(o, p)
  PROVE  /\ FeeOf(r) = IF CL(p) THEN DynamicFee ELSE [FeeOf(o) EXCEPT !.dyn = FALSE]
         /\ r.gauge = o.gauge /\ r.cl = CL(p)
<1>1. PICK fee, base :
        fee = (IF CL(p) THEN DynamicFee ELSE [dyn |-> FALSE]) /\
        base = [o EXCEPT !.cl = CL(p), !.flip = p \in Flipped]
  OBVIOUS
<1>2. r = Over(fee, base)
  BY <1>1 DEF Minimal
<1>3. DOMAIN o = PairColumns
  BY PairRowColumns
<1>4. /\ DOMAIN base = PairColumns /\ base.dyn = o.dyn /\ base.bps = o.bps /\ base.src = o.src
      /\ base.gauge = o.gauge /\ base.cl = CL(p)
  BY <1>1, <1>3 DEF PairColumns
<1>5. \A c \in PairColumns : r[c] = IF c \in DOMAIN fee THEN fee[c] ELSE base[c]
  BY <1>2, <1>4 DEF Over
<1>6. /\ DOMAIN fee = IF CL(p) THEN {"dyn", "bps", "src"} ELSE {"dyn"}
      /\ fee.dyn = CL(p) /\ (CL(p) => fee.bps = DynamicFee.bps /\ fee.src = DynamicFee.src)
  BY <1>1 DEF DynamicFee, Fee, CL
<1>7. /\ r.gauge = o.gauge /\ r.cl = CL(p) /\ r.dyn = CL(p)
      /\ r.bps = (IF CL(p) THEN DynamicFee.bps ELSE o.bps)
      /\ r.src = (IF CL(p) THEN DynamicFee.src ELSE o.src)
  BY <1>4, <1>5, <1>6 DEF PairColumns
<1>8. PICK f, g, d : f = FeeOf(r) /\ g = [FeeOf(o) EXCEPT !.dyn = FALSE] /\ d = DynamicFee
  OBVIOUS
<1>9. f = [c \in {"dyn", "bps", "src"} |-> f[c]] /\ f.dyn = r.dyn /\ f.bps = r.bps /\ f.src = r.src
  BY <1>8, FeeOfColumns
<1>10. g = [c \in {"dyn", "bps", "src"} |-> g[c]] /\ g.dyn = FALSE /\ g.bps = o.bps /\ g.src = o.src
  <2>1. PICK F : F = FeeOf(o)
    OBVIOUS
  <2>2. F = [c \in {"dyn", "bps", "src"} |-> F[c]] /\ F.bps = o.bps /\ F.src = o.src
    BY <2>1, FeeOfColumns
  <2>3. g = [F EXCEPT !.dyn = FALSE]
    BY <1>8, <2>1
  <2> QED
    BY <2>2, <2>3
<1>11. d = [c \in {"dyn", "bps", "src"} |-> d[c]] /\ d.dyn = TRUE
  BY <1>8 DEF DynamicFee, Fee
<1>12. CASE CL(p)
  <2>1. \A c \in {"dyn", "bps", "src"} : f[c] = d[c]
    BY <1>7, <1>8, <1>9, <1>11, <1>12
  <2>2. f = d
    BY ONLY <1>9, <1>11, <2>1
  <2> QED
    BY <1>7, <1>8, <1>12, <2>2
<1>13. CASE ~CL(p)
  <2>0. f.dyn = FALSE
    BY <1>7, <1>9, <1>13
  <2>1. \A c \in {"dyn", "bps", "src"} : f[c] = g[c]
    BY <1>7, <1>9, <1>10, <1>13, <2>0
  <2>2. f = g
    BY ONLY <1>9, <1>10, <2>1
  <2> QED
    BY <1>7, <1>8, <1>13, <2>2
<1> QED
  BY <1>12, <1>13

\* Who stores a pair, and how.
LEMMA StoresPair ==
  ASSUME IInv, log \in Logs(scenario), Follows, NEW a \in Actor, todo[a] # << >>,
         S(a).op \in {"save", "write"}
  PROVE  /\ Kind(at[a]) \notin SettingTypes /\ ~IsSetting(S(a).key)
         /\ \A p \in Pool : S(a).key = Pair(p) /\ Kind(at[a]) = "created" =>
              /\ p = log[at[a]].pool /\ at[a] \in Of("created", p, log) /\ a \in Handlers /\ at[a] # 0
              /\ S(a).op = "save" => S(a).edit.of = "minimal" /\ S(a).edit.pool = p
         /\ S(a).op = "save" /\ Kind(at[a]) # "created" => S(a).edit.of # "minimal"
<1>1. PICK n, s : n = at[a] /\ s = S(a)
  OBVIOUS
<1>2. Means(n, s) /\ n \in {0} \cup DOMAIN log
  BY <1>1, AheadRest DEF IInv, Actors, Stored
<1>3. Kind(n) \notin SettingTypes
  BY <1>1, <1>2 DEF Means, Sows
<1>4. CASE Kind(n) = "created"
  <2>1. Creates(n, s) /\ n # 0 /\ n \in DOMAIN log /\ log[n].type = "created"
    BY <1>2, <1>3, <1>4 DEF Means, Kind
  <2>2. a \in Handlers
    BY <1>1, <2>1, OnlyHandler DEF Follows
  <2>3. ASSUME NEW p \in Pool, s.key = Pair(p)
        PROVE  p = log[n].pool /\ (s.op = "save" => s.edit.of = "minimal" /\ s.edit.pool = p)
    <3>1. s.key[1] = "pair"
      BY <2>3 DEF Pair
    <3>2. PICK l : l = log[n].pool
      OBVIOUS
    <3>4. /\ s.op \in {"save", "write"} /\ s.key[1] = "pair" => s.key = Pair(l)
          /\ s.op = "save" /\ s.key = Pair(l) => s.edit.of = "minimal" /\ s.edit.pool = l
          /\ s.op \in {"save", "write"}
      BY <1>1, <2>1, <3>2 DEF Creates
    <3>5. s.key = Pair(l) /\ (s.op = "save" => s.edit.of = "minimal" /\ s.edit.pool = l)
      BY <3>1, <3>4
    <3>3. p = log[n].pool
      <4>1. Pair(p)[2] = p /\ Pair(l)[2] = l
        BY SetByPairs
      <4> QED
        BY <2>3, <3>2, <3>5, <4>1
    <3> QED
      BY <3>2, <3>3, <3>5
  <2>4. ~IsSetting(s.key)
    BY <1>1, <2>1 DEF Creates
  <2> QED
    BY <1>1, <1>3, <1>4, <2>1, <2>2, <2>3, <2>4 DEF Of
<1>5. CASE Kind(n) # "created"
  <2>1. Innocent(s)
    BY <1>2, <1>3, <1>5 DEF Means
  <2> QED
    BY <1>1, <1>3, <1>5, <2>1 DEF Innocent
<1> QED
  BY <1>4, <1>5

LEMMA SavedPair ==
  ASSUME IInv, log \in Logs(scenario), Follows, NEW a \in Actor, todo[a] # << >>, S(a).op = "save",
         NEW p \in Pool, S(a).key = Pair(p), Pair(p) \notin raced,
         NEW E, E = Edited(S(a).edit, held[a].row)
  PROVE  Turned(at[a], p, E, Old(p)) /\ E \in PairRow(scenario.days)
<1>1. PICK n, h, e, o, days : n = at[a] /\ h = held[a].row /\ e = S(a).edit /\ o = Old(p) /\ days = scenario.days
  OBVIOUS
<1>2. /\ h = NoRow \/ Fits(Pair(p), h)
      /\ h = Row(Pair(p)) /\ EditFits(Pair(p), e) /\ Pair(p)[1] = "pair" /\ E \in PairRow(days)
      /\ StatementFits(a, S(a))
  <2>1. Pair(p)[1] = "pair"
    BY DEF Pair
  <2>2. PICK s, k : s = S(a) /\ k = s.key
    OBVIOUS
  <2>3. s.op = "save" /\ E = Edited(e, h)
    BY <1>1, <2>2
  <2>4. /\ h = NoRow \/ Fits(k, h)
        /\ k \notin raced => h = Row(k)
        /\ StatementFits(a, s) /\ EditFits(k, e)
        /\ k[1] = "pair" => E \in PairRow(scenario.days)
    BY <1>1, <2>2, <2>3, EditedRow
  <2> QED
    BY <1>1, <2>1, <2>2, <2>4
<1>3. /\ days \in Nat /\ (h \in PairRow(days) \/ h = NoRow) /\ o = (IF h = NoRow THEN NewPair ELSE h)
      /\ o \in PairRow(days)
  <2>1. scenario \in Scenarios
    BY DEF IInv, Actors
  <2>2. days \in Nat /\ NewPair \in PairRow(days)
    BY <1>1, <2>1, ScenariosAssumption, NewRows
  <2>3. h \in PairRow(days) \/ h = NoRow
    BY <1>1, <1>2 DEF Fits
  <2>4. o = (IF h = NoRow THEN NewPair ELSE h)
    BY <1>1, <1>2 DEF Old
  <2> QED
    BY <2>2, <2>3, <2>4
<1>4. CASE Kind(n) = "created"
  <2>1. e.of = "minimal" /\ e.pool = p
    BY <1>1, <1>4, StoresPair
  <2>2. E = Minimal(o, p)
    <3>1. E = Edited(e, h)
      BY <1>1
    <3>2. Edited(e, h) = Minimal(IF h = NoRow THEN NewPair ELSE h, e.pool)
      BY <2>1, EditedIs
    <3> QED
      BY <1>3, <2>1, <3>1, <3>2
  <2>6. days \in Nat /\ o \in PairRow(days) /\ p \in Pool
    BY <1>3
  <2>3. /\ FeeOf(E) = IF CL(p) THEN DynamicFee ELSE [FeeOf(o) EXCEPT !.dyn = FALSE]
        /\ E.gauge = o.gauge /\ E.cl = CL(p)
    BY ONLY <2>2, <2>6, MinimalFee
  <2>4. CASE CL(p)
    <3>1. FeeOf(E) = DynamicFee
      BY <2>3, <2>4
    <3>2. Turned(n, p, E, o)
      BY <1>4, <2>3, <2>4, <3>1 DEF Turned
    <3> QED
      BY <1>1, <1>2, <3>2
  <2>5. CASE ~CL(p)
    <3>1. FeeOf(E) = [FeeOf(o) EXCEPT !.dyn = FALSE]
      BY <2>3, <2>5
    <3>2. Turned(n, p, E, o)
      BY <1>4, <2>3, <2>5, <3>1 DEF Turned
    <3> QED
      BY <1>1, <1>2, <3>2
  <2> QED
    BY <2>4, <2>5
<1>5. CASE Kind(n) # "created"
  <2>1. e.of # "minimal"
    BY <1>1, <1>5, StoresPair
  <2>2. e.of \in {"mintPair", "mintUsd", "tradePair", "list"}
    BY <1>2, <2>1 DEF EditFits
  <2>3. e.of # "tradePair" => h # NoRow
    <3>1. Holding(a) /\ At(a, {"save", "set", "write"}) /\ ~At(a, {"write"})
      BY DEF IInv, At
    <3> QED
      BY <1>1, <2>2, <3>1 DEF Holding, Needy
  <2>4. e.of \in {"mintPair", "tradePair"} => e.day \in 0..days
    <3>1. now \in 1..days /\ days \in Nat
      BY <1>1, <1>3 DEF IInv, Actors
    <3> QED
      BY <1>2, <3>1 DEF EditFits
  <2>5. Alike(E, o)
    BY <1>1, <1>3, <2>2, <2>3, <2>4, EditedAlike
  <2> QED
    BY <1>1, <1>2, <1>5, <2>5 DEF Turned, Alike
<1> QED
  BY <1>4, <1>5

\* But for a creation of a concentrated pool, a pair keeps its fee and its gauge.
LEMMA TurnedAlike ==
  ASSUME IInv, log \in Logs(scenario), Follows, NEW p \in Pool, Pair(p) \notin raced, NEW n, NEW r,
         Kind(n) = "created" => ~CL(p), Turned(n, p, r, Old(p))
  PROVE  Alike(r, Old(p))
<1>1. PICK o : o = Old(p)
  OBVIOUS
<1>2. CASE Kind(n) # "created"
  BY <1>2 DEF Turned, Alike
<1>3. CASE Kind(n) = "created"
  <2>1. ~CL(p) /\ FeeOf(r) = [FeeOf(o) EXCEPT !.dyn = FALSE] /\ r.gauge = o.gauge /\ r.cl = CL(p)
    BY <1>1, <1>3 DEF Turned
  <2>2. ~o.cl /\ FeeHolds(p, FeeOf(o))
    BY <1>1, <2>1, OldHolds
  <2>3. o.cl \in BOOLEAN
    <3>1. o \in PairRow(scenario.days)
      BY <1>1, NewRows, Keys DEF Old, Row, IInv, Rows, Fits, Actors
    <3> QED
      BY <3>1, PairRowColumns
  <2>4. r.cl = o.cl
    <3>1. o.cl = FALSE
      BY <2>2, <2>3
    <3>2. CL(p) = FALSE
      BY <2>1 DEF CL
    <3> QED
      BY <2>1, <3>1, <3>2
  <2>5. PICK f, g : f = FeeOf(o) /\ g = FeeOf(r)
    OBVIOUS
  <2>6. f = [c \in {"dyn", "bps", "src"} |-> f[c]]
    BY <2>5, FeeOfColumns
  <2>7. f.dyn = FALSE
    <3>1. FeeHolds(p, f) /\ ~CL(p)
      BY <2>1, <2>2, <2>5
    <3>2. \/ f = NoFee
          \/ \E m \in DOMAIN log : f = Fee(FALSE, log[m].bps, "factory_custom")
          \/ \E m \in DOMAIN log : f = Fee(FALSE, log[m].bps, "factory_tier")
      BY <3>1 DEF FeeHolds
    <3>3. \A b, s : Fee(FALSE, b, s).dyn = FALSE
      BY DEF Fee
    <3> QED
      BY <3>2, <3>3 DEF NoFee
  <2>8. g = [f EXCEPT !.dyn = FALSE]
    BY <2>1, <2>5
  <2>9. g = f
    BY ONLY <2>6, <2>7, <2>8
  <2> QED
    BY <1>1, <2>1, <2>4, <2>5, <2>9 DEF Alike
<1> QED
  BY <1>2, <1>3

\* The creation of a concentrated pool sets its fee.
LEMMA DynamicHolds ==
  ASSUME IInv, log \in Logs(scenario), Follows, NEW a \in Handlers, at[a] # 0, NEW p \in Pool, CL(p),
         UNCHANGED <<log, next, at, selected>>, raced \subseteq raced',
         Kind(at[a]) = "created", at[a] \in Of("created", p, log),
         Due(Pair(p), "gauge") \subseteq Due(Pair(p), "gauge")', BothWhitelisted <=> BothWhitelisted',
         Row(Pair(p))' # NoRow /\ Pair(p) \notin raced' => Turned(at[a], p, Row(Pair(p))', Old(p))
  PROVE  PairHolds(p)'
<1> SUFFICES ASSUME Row(Pair(p))' # NoRow, Pair(p) \notin raced'
             PROVE  FeeHolds(p, FeeOf(rows[Pair(p)]))' /\ GaugeHolds(p, rows[Pair(p)].gauge)'
  BY DEF PairHolds
<1>1. PICK f, g, n : f = DynamicFee /\ g = Old(p).gauge /\ n = at[a]
  OBVIOUS
<1>2. rows'[Pair(p)] = Row(Pair(p))' /\ Turned(n, p, rows'[Pair(p)], Old(p))
  BY <1>1 DEF Row
<1>3. FeeOf(rows'[Pair(p)]) = f /\ rows'[Pair(p)].gauge = g
  BY <1>1, <1>2 DEF Turned
<1>4. FeeOf(rows[Pair(p)])' = f
  BY <1>3 DEF FeeOf
<1>5. n \in DOMAIN log /\ log[n].type = "created"
  BY <1>1 DEF Of
<1>6. FeeHolds(p, f)'
  <2>1. n \in SetBy(Pair(p), "own")
    BY <1>1, SetByPairs
  <2>2. LastTo(n, Pair(p), "own")'
    BY <1>1, <2>1, LaterDue DEF Follows
  <2>3. f = Charged(n)'
    BY <1>1, <1>5 DEF Charged
  <2> QED
    BY <1>5, <2>2, <2>3 DEF FeeHolds
<1>7. g \in BOOLEAN
  <2>1. Old(p) \in PairRow(scenario.days)
    BY NewRows, Keys DEF Old, Row, IInv, Rows, Fits, Actors
  <2> QED
    BY <1>1, <2>1, PairRowColumns
<1>8. GaugeHolds(p, g)'
  <2>1. GaugeHolds(p, g)
    BY <1>1, OldHolds
  <2> QED
    BY <1>7, <2>1, GaugeKept
<1> QED
  BY <1>3, <1>4, <1>6, <1>8

\* What takes the place of a save: its write, and the count of a bucket.
InItsPlace(s, x, c, X) == X = Following(s, x \o c)

Placed(k, t, x, c, X) ==
  /\ Sequence(X)
  /\ \A i \in 1..Len(X) : (X[i].op = "write" /\ X[i].key = k) \/ Harmless(X[i])
  /\ x = << t >> => Len(X) >= 1 /\ X[1].op = "write" /\ X[1].key = k
  /\ x = << >> /\ c = << >> => X = << >>

LEMMA SavedParts ==
  ASSUME NEW s, NEW k, NEW t, Writes(t), t.key = k,
         NEW x, WriteOrNone(t, x), NEW c, CountOrNone(c), NEW X, InItsPlace(s, x, c, X)
  PROVE  Placed(k, t, x, c, X)
<1>0. t.op = "write" /\ t.key = k /\ DOMAIN t = {"op", "key", "patch", "insert"}
  BY DEF Writes
<1>1. PICK Y, C : Y = Following(s, x) /\ C = Following(s, c)
  OBVIOUS
<1>2. Sequence(x) /\ (x = << >> => Len(x) = 0) /\ (x = << t >> => Len(x) = 1 /\ x[1] = t)
  BY OneSequence, EmptyIsSequence DEF WriteOrNone
<1>3. /\ Sequence(c) /\ Sequence(C) /\ (c = << >> => Len(C) = 0)
      /\ \A i \in 1..Len(C) : Harmless(C[i])
  <2>1. CASE c = << >>
    <3>1. Sequence(c) /\ Len(c) = 0
      BY <2>1, EmptyIsSequence
    <3>2. Sequence(C) /\ Len(C) = 0
      BY <1>1, <3>1, FollowingColumns
    <3> QED
      BY <3>1, <3>2
  <2>2. CASE c # << >>
    <3>1. PICK res : c = CountBucket(res)
      BY <2>2 DEF CountOrNone
    <3>2. Sequence(c)
      BY <3>1, CountPlain
    <3>3. Sequence(C)
      BY <1>1, <3>2, FollowingColumns
    <3>4. \A i \in 1..Len(C) : Harmless(C[i])
      BY <1>1, <3>1, AllCount
    <3> QED
      BY <2>2, <3>2, <3>3, <3>4
  <2> QED
    BY <2>1, <2>2
<1>4. X = Y \o C
  BY <1>1, <1>2, <1>3, FollowingJoin DEF InItsPlace
<1>5. /\ Sequence(Y) /\ Len(Y) = Len(x)
      /\ \A i \in 1..Len(Y) : Y[i].op = "write" /\ Y[i].key = k
  <2>1. /\ Sequence(Y) /\ Len(Y) = Len(x)
        /\ \A i \in 1..Len(x) : Y[i] = IF Tagged(s) THEN InRollup(x[i]) ELSE x[i]
    BY <1>1, <1>2, FollowingColumns
  <2>2. InRollup(t).op = "write" /\ InRollup(t).key = k
    <3>1. \A z \in DOMAIN t : z # "rollup" => InRollup(t)[z] = t[z]
      BY OverColumn DEF InRollup, Over
    <3> QED
      BY <1>0, <3>1
  <2>3. \A i \in 1..Len(x) : x[i] = t
    <3>1. \A i \in 1..1 : i = 1
      OBVIOUS
    <3>2. \A i : i \notin 1..0
      OBVIOUS
    <3> QED
      BY <1>2, <3>1, <3>2 DEF WriteOrNone
  <2> QED
    BY <1>0, <2>1, <2>2, <2>3
<1>6. /\ Sequence(X) /\ Len(X) = Len(Y) + Len(C)
      /\ \A i \in 1..Len(Y) : X[i] = Y[i]
      /\ \A i \in 1..Len(C) : X[Len(Y) + i] = C[i]
  <2>1. Sequence(Y) /\ Sequence(C)
    BY <1>3, <1>5
  <2> QED
    BY ONLY <1>4, <2>1, Joined
<1>7. Len(Y) \in Nat /\ Len(C) \in Nat
  BY <1>3, <1>5 DEF Sequence
<1>8. ASSUME NEW i \in 1..Len(X) PROVE (X[i].op = "write" /\ X[i].key = k) \/ Harmless(X[i])
  <2>1. CASE i <= Len(Y)
    <3>1. i \in 1..Len(Y)
      BY <1>6, <1>7, <2>1
    <3> QED
      BY <1>5, <1>6, <3>1
  <2>2. CASE i > Len(Y)
    <3>1. i - Len(Y) \in 1..Len(C) /\ Len(Y) + (i - Len(Y)) = i
      BY <1>6, <1>7, <2>2
    <3>2. X[i] = C[i - Len(Y)]
      BY <1>6, <3>1
    <3> QED
      BY <1>3, <3>1, <3>2
  <2> QED
    BY <1>6, <1>7, <2>1, <2>2
<1>9. ASSUME x = << t >> PROVE Len(X) >= 1 /\ X[1].op = "write" /\ X[1].key = k
  <2>1. Len(Y) = 1 /\ 1 \in 1..Len(Y)
    BY <1>2, <1>5, <1>9
  <2> QED
    BY <1>5, <1>6, <1>7, <2>1
<1>10. ASSUME x = << >>, c = << >> PROVE X = << >>
  <2>1. Len(X) = 0
    BY <1>2, <1>3, <1>5, <1>6, <1>10
  <2> QED
    BY <1>6, <2>1, EmptyOnly
<1> QED
  BY <1>6, <1>8, <1>9, <1>10 DEF Placed

\* A basic pool's tier is asked for after its pair is stored: that sets its fee.
LEMMA TierAsked ==
  ASSUME IInv, log \in Logs(scenario), Follows, NEW a \in Actor, todo[a] # << >>,
         S(a).op \in {"save", "write"}, S(a).key[1] = "pair", Kind(at[a]) = "created",
         NEW p, p = log[at[a]].pool, ~CL(p)
  PROVE  \E j \in 1..Len(Rest(a)) :
           Rest(a)[j].op = "query" /\ Rest(a)[j].of = "tier" /\ Rest(a)[j].pool = p
<1>1. PICK n, s, r : n = at[a] /\ s = S(a) /\ r = Rest(a)
  OBVIOUS
<1>2. /\ s = todo[a][1] /\ Len(r) = Len(todo[a]) - 1 /\ Len(todo[a]) \in Nat /\ 1 \in 1..Len(todo[a])
      /\ Ahead(n, r) /\ \A i \in 1..Len(r) : r[i] = todo[a][1 + i]
  BY <1>1, AheadRest
<1>3. Followed(n, todo[a])
  BY <1>1 DEF Follows, Ahead
<1>4. PICK j \in (1 + 1)..Len(todo[a]) : todo[a][j].op = "query"
  BY <1>1, <1>2, <1>3 DEF Followed
<1>5. PICK m : m = j - 1 /\ m \in 1..Len(r) /\ 1 + m = j
  BY <1>2, <1>4
<1>6. r[m].op = "query"
  BY <1>2, <1>4, <1>5
<1>7. Means(n, r[m])
  BY <1>2, <1>5 DEF Ahead
<1>8. r[m].of = "tier" /\ r[m].pool = p
  BY <1>1, <1>6, <1>7 DEF Means, Creates, SettingTypes
<1> QED
  BY <1>1, <1>5, <1>6, <1>8

LEMMA StoreSets ==
  ASSUME IInv, log \in Logs(scenario), Follows, NEW a \in Actor, todo[a] # << >>,
         S(a).op \in {"save", "write"},
         ~\E p \in Pool : S(a).key = Pair(p) /\ Kind(at[a]) = "created" /\ CL(p),
         NEW k, NEW c, Column(k, c), at[a] \in SetBy(k, c), Sets(S(a), k, c)
  PROVE  YetIn(Rest(a), k, c) /\ S(a).key = k /\ ~IsSetting(k) /\ c # "gauge"
<1>1. PICK n, s, r : n = at[a] /\ s = S(a) /\ r = Rest(a)
  OBVIOUS
<1>2. ~IsSetting(k) /\ c # "gauge" /\ s.key = k
  BY <1>1 DEF Sets
<1>3. Kind(n) \notin SettingTypes /\ scenario \in Scenarios
  BY <1>1, StoresPair DEF IInv, Actors
<1>4. /\ Kind(n) = "created" /\ k = Pair(log[n].pool) /\ c \in {"created", "own"}
      /\ n \in DOMAIN log /\ (c = "own" => CL(log[n].pool))
  BY <1>1, <1>3, SetsNothing
<1>5. PICK p : p = log[n].pool
  OBVIOUS
<1>6. p \in Pool
  <2>1. n \in DOMAIN log /\ log[n].type = "created"
    BY <1>1, <1>3, <1>4, SetsNothing
  <2>2. EventFits(log[n])
    BY <1>3, <2>1, LogFacts
  <2> QED
    BY <1>5, <2>1, <2>2 DEF EventFits
<1>7. ~CL(p)
  BY <1>1, <1>2, <1>4, <1>5, <1>6
<1>8. k[1] = "pair"
  BY <1>4 DEF Pair
<1>9. PICK j \in 1..Len(r) : r[j].op = "query" /\ r[j].of = "tier" /\ r[j].pool = p
  BY <1>1, <1>2, <1>4, <1>5, <1>7, <1>8, TierAsked
<1>10. Sets(r[j], k, c)
  BY <1>2, <1>4, <1>5, <1>9 DEF Sets
<1> QED
  BY <1>1, <1>2, <1>10 DEF YetIn

LEMMA DynamicStored ==
  ASSUME IInv, log \in Logs(scenario), Follows, NEW a \in Actor, todo[a] # << >>,
         S(a).op \in {"save", "write"}, NEW q, q = Rest(a), Moves(a, q), raced \subseteq raced',
         NEW p \in Pool, S(a).key = Pair(p), Kind(at[a]) = "created", CL(p),
         \A k : k # Pair(p) => Row(k)' = Row(k),
         Row(Pair(p))' # NoRow /\ Pair(p) \notin raced' => Turned(at[a], p, Row(Pair(p))', Old(p))
  PROVE  SettingRows' /\ \A m \in Pool : PairHolds(m)'
<1>1. PICK n, s : n = at[a] /\ s = S(a)
  OBVIOUS
<1>2. n \in Of("created", p, log) /\ a \in Handlers /\ n # 0
  BY <1>1, StoresPair
<1>3. SettingRows' /\ (BothWhitelisted <=> BothWhitelisted')
  <2>1. \A k : IsSetting(k) => Row(k)' = Row(k)
    BY SetByPairs
  <2> QED
    BY <2>1, SettingsSame
<1>4. ASSUME NEW m \in Pool, NEW d \in {"own", "tier", "created", "gauge"}, m # p \/ d = "gauge"
      PROVE  Due(Pair(m), d) \subseteq Due(Pair(m), d)'
  <2>1. ~Sets(s, Pair(m), d)
    <3>1. ~IsSetting(Pair(m)) /\ Pair(m)[2] = m /\ Pair(p)[2] = p
      BY SetByPairs
    <3>2. d = "gauge" \/ Pair(m) # Pair(p)
      BY <1>4, <3>1
    <3> QED
      BY <1>1, <3>1, <3>2 DEF Sets
  <2> QED
    BY <1>1, <2>1, RestGrown
<1>5. UNCHANGED <<log, next, at, selected>>
  BY DEF Moves
<1>6. ASSUME NEW m \in Pool, m # p PROVE PairHolds(m)'
  <2>1. \A d \in {"own", "tier", "created", "gauge"} : Due(Pair(m), d) \subseteq Due(Pair(m), d)'
    BY <1>4, <1>6
  <2>2. Row(Pair(m))' = Row(Pair(m))
    <3>1. Pair(m)[2] = m /\ Pair(p)[2] = p
      BY SetByPairs
    <3> QED
      BY <1>6, <3>1
  <2>3. Row(Pair(m))' # NoRow => Alike(Row(Pair(m))', Old(m))
    BY <2>2, AlikeItself
  <2> QED
    BY <1>3, <1>5, <2>1, <2>3, PairKept
<1>7. PairHolds(p)'
  <2>1. Due(Pair(p), "gauge") \subseteq Due(Pair(p), "gauge")'
    BY <1>4
  <2> QED
    BY <1>1, <1>2, <1>3, <1>5, <2>1, DynamicHolds
<1> QED
  BY <1>3, <1>6, <1>7

LEMMA SaveFollows ==
  ASSUME IInv, log \in Logs(scenario), Follows, NEW a \in Actor, RunSave(a)
  PROVE  Follows'
<1>1. PICK s, h, k, e, E, n :
        s = S(a) /\ h = held[a].row /\ k = s.key /\ e = s.edit /\ E = Edited(e, h) /\ n = at[a]
  OBVIOUS
<1>2. PICK row, f, t, x, c, r, X, q :
        /\ row = (IF h = NoRow /\ Generated(k) THEN NoRow ELSE Row(k))
        /\ f = Difference(E, row)
        /\ t = [op |-> "write", key |-> k, patch |-> f, insert |-> row = NoRow]
        /\ x = (IF DOMAIN f = {} THEN << >> ELSE << t >>)
        /\ c = (IF IsBucket(k) /\ h = NoRow THEN CountBucket(k[1]) ELSE << >>)
        /\ r = Rest(a) /\ X = Following(s, x \o c) /\ q = X \o r
  OBVIOUS
<1>3. /\ todo[a] # << >> /\ s.op = "save" /\ Moves(a, q)
      /\ rows' = rows /\ raced' = raced /\ log' = log
  BY <1>1, <1>2 DEF RunSave, Is, Untouched, Become, Moves
<1>4. /\ Program(a, todo[a]) /\ scenario \in Scenarios /\ n \in {0} \cup DOMAIN log /\ DOMAIN todo = Actor
  BY <1>1 DEF IInv, Actors, Stored
<1>5. /\ Sequence(r) /\ s = todo[a][1] /\ Len(r) = Len(todo[a]) - 1 /\ Len(todo[a]) \in Nat
      /\ 1 \in 1..Len(todo[a]) /\ Means(n, s) /\ StatementFits(a, s) /\ Ahead(n, r)
      /\ \A i \in 1..Len(r) : r[i] = todo[a][1 + i] /\ r[i].op # "write"
  BY <1>1, <1>2, <1>3, AheadRest
<1>6. /\ Kind(n) \notin SettingTypes /\ ~IsSetting(k)
      /\ \A p \in Pool : k = Pair(p) /\ Kind(n) = "created" =>
           /\ p = log[n].pool /\ n \in Of("created", p, log) /\ a \in Handlers /\ n # 0
  BY <1>1, <1>3, StoresPair
<1>7. /\ Sequence(X)
      /\ \A i \in 1..Len(X) : (X[i].op = "write" /\ X[i].key = k) \/ Harmless(X[i])
      /\ x = << t >> => Len(X) >= 1 /\ X[1].op = "write" /\ X[1].key = k
      /\ x = << >> /\ c = << >> => X = << >>
  <2>1. Writes(t) /\ t.key = k
    <3>1. t.op = "write" /\ t.key = k /\ DOMAIN t = {"op", "key", "patch", "insert"} /\ t.insert \in BOOLEAN
      BY <1>2
    <3> QED
      BY <3>1 DEF Writes
  <2>2. WriteOrNone(t, x) /\ CountOrNone(c)
    BY <1>2 DEF WriteOrNone, CountOrNone
  <2>3. InItsPlace(s, x, c, X)
    BY <1>2 DEF InItsPlace
  <2>4. Placed(k, t, x, c, X)
    BY ONLY <2>1, <2>2, <2>3, SavedParts
  <2> QED
    BY <2>4 DEF Placed
<1>8. /\ Sequence(q) /\ Len(q) = Len(X) + Len(r) /\ Len(X) \in Nat /\ Len(r) \in Nat
      /\ \A i \in 1..Len(X) : q[i] = X[i]
      /\ \A i \in 1..Len(r) : q[Len(X) + i] = r[i]
  <2>1. q = X \o r /\ Sequence(X) /\ Sequence(r)
    BY <1>2, <1>5, <1>7
  <2>2. Len(X) \in Nat /\ Len(r) \in Nat
    BY <2>1 DEF Sequence
  <2> QED
    BY ONLY <2>1, <2>2, Joined
<1>9. /\ Spares(a) /\ \A l : Row(l)' = Row(l)
      /\ BothWhitelisted <=> BothWhitelisted'
      /\ \A p \in Pool : Row(Pair(p))' # NoRow => Alike(Row(Pair(p))', Old(p))
  BY <1>3, SameRows
\* What is in the rest is still ahead, and so is what s would have done.
<1>10. ASSUME NEW i \in 1..Len(todo[a]), i # 1
       PROVE  \E m \in 1..Len(q) : q[m] = todo[a][i]
  <2>1. PICK j : j = i - 1 /\ j \in 1..Len(r) /\ 1 + j = i
    BY <1>5, <1>10
  <2>2. Len(X) + j \in 1..Len(q)
    BY <1>8, <2>1
  <2> QED
    BY <1>5, <1>8, <2>1, <2>2
<1>11. x = << t >> => 1 \in 1..Len(q) /\ q[1].op = "write" /\ q[1].key = k
  <2> SUFFICES ASSUME x = << t >> PROVE 1 \in 1..Len(q) /\ q[1].op = "write" /\ q[1].key = k
    OBVIOUS
  <2>1. Len(X) >= 1 /\ X[1].op = "write" /\ X[1].key = k
    BY <1>7
  <2>2. 1 \in 1..Len(X) /\ 1 \in 1..Len(q)
    BY <1>8, <2>1
  <2> QED
    BY <1>8, <2>1, <2>2
<1>12. ASSUME k[1] = "pair", Kind(n) = "created", ~CL(log[n].pool)
       PROVE  \E j \in 1..Len(r) : r[j].op = "query"
  BY <1>1, <1>2, <1>3, <1>12, TierAsked
<1>13. Ahead(at[a], q)'
  <2>1. ASSUME NEW i \in 1..Len(X)
        PROVE  /\ Means(n, X[i]) /\ ~(X[i].op = "upsert" /\ X[i].key[1] = "whitelisted")
               /\ X[i].op \in {"save", "write"} /\ X[i].key[1] = "pair" /\ Kind(n) = "created"
                    /\ ~CL(log[n].pool) => \E j \in 1..Len(r) : r[j].op = "query"
    <3>1. CASE Harmless(X[i])
      <4>1. Means(n, X[i])
        <5>1. Innocent(X[i])
          BY <3>1, HarmlessMeans DEF Meanwhile
        <5>2. n # 0 => Creates(n, X[i])
          BY <3>1, HarmlessMeans DEF Meanwhile
        <5> QED
          BY <1>6, <5>1, <5>2 DEF Means, Kind
      <4>2. X[i].op \notin {"write"} /\ (X[i].op = "save" => X[i].key[1] # "pair")
            /\ (X[i].op = "upsert" => ~IsSetting(X[i].key))
        BY <3>1 DEF Harmless
      <4> QED
        BY <4>1, <4>2 DEF IsSetting
    <3>2. CASE X[i].op = "write" /\ X[i].key = k
      <4>1. Means(n, X[i])
        <5>1. CASE Kind(n) = "created"
          <6>1. Creates(n, s)
            BY <1>5, <1>6, <5>1 DEF Means
          <6>2. k[1] = "pair" => k = Pair(log[n].pool)
            BY <1>1, <1>3, <6>1 DEF Creates
          <6>3. Creates(n, X[i])
            BY <1>6, <3>2, <6>2 DEF Creates
          <6> QED
            BY <1>6, <5>1, <6>3 DEF Means
        <5>2. CASE Kind(n) # "created"
          <6>1. Innocent(X[i])
            BY <1>6, <3>2 DEF Innocent
          <6> QED
            BY <1>6, <5>2, <6>1 DEF Means
        <5> QED
          BY <5>1, <5>2
      <4> QED
        BY <1>12, <3>2, <4>1
    <3> QED
      BY <1>7, <3>1, <3>2
  <2>2. q = X \o r /\ Sequence(X) /\ Sequence(r) /\ Ahead(n, r)
    BY <1>2, <1>5, <1>7
  <2>3. Ahead(n, q)
    BY <2>1, <2>2, AheadJoined
  <2>4. Ahead(n, q)'
    BY <1>3, <1>9, <2>3, AheadKept
  <2> QED
    BY <1>1, <1>3, <2>4 DEF Moves
<1>14. ASSUME row = NoRow, NEW p \in Pool, k = Pair(p) PROVE x = << t >>
  <2>1. E \in PairRow(scenario.days)
    <3>1. k[1] = "pair"
      BY <1>14 DEF Pair
    <3> QED
      BY <1>1, <1>3, <3>1, EditedRow
  <2>2. DOMAIN E = PairColumns
    BY <2>1, PairRowColumns
  <2>3. f = E
    BY <1>2, <1>14 DEF Difference
  <2>4. DOMAIN f # {}
    BY <2>2, <2>3 DEF PairColumns
  <2> QED
    BY <1>2, <2>4
<1>15. \A p \in Pool : CreatedFirst(p)'
  <2> SUFFICES ASSUME NEW p \in Pool PROVE CreatedFirst(p)'
    OBVIOUS
  <2>1. ASSUME Row(Pair(p))' = NoRow,
               NEW i \in 1..Len(todo[a]), todo[a][i].op \in {"save", "write"}, todo[a][i].key = Pair(p)
        PROVE  \E m \in 1..Len(q) : q[m].op \in {"save", "write"} /\ q[m].key = Pair(p)
    <3>1. CASE i = 1
      <4>1. k = Pair(p)
        BY <1>1, <1>5, <2>1, <3>1
      <4>2. row = NoRow
        BY <1>2, <1>9, <2>1, <4>1
      <4> QED
        BY <1>11, <1>14, <4>1, <4>2
    <3>2. CASE i # 1
      BY <1>10, <2>1, <3>2
    <3> QED
      BY <3>1, <3>2
  <2>2. a = "consumer" /\ at[a] \in Of("created", p, log) /\ Row(Pair(p))' = NoRow
          /\ (\E i \in 1..Len(todo[a]) : todo[a][i].op \in {"save", "write"} /\ todo[a][i].key = Pair(p)) =>
          \E i \in 1..Len(q) : q[i].op \in {"save", "write"} /\ q[i].key = Pair(p)
    BY <2>1
  <2> QED
    BY <1>3, <1>9, <2>2, CreatedKept
<1>16. \A p \in Pool : At(a, {"write"})' /\ S(a)'.key = Pair(p) => PairSteps(a)'
  <2> SUFFICES ASSUME At(a, {"write"})' PROVE PairSteps(a)'
    OBVIOUS
  <2>1. todo'[a] = q
    BY <1>3, <1>4 DEF Moves
  <2>2. q # << >> /\ S(a)' = Head(q) /\ Head(q).op = "write"
    BY <2>1 DEF At, S
  <2>3. Head(q) = q[1] /\ 1 \in 1..Len(q)
    BY <1>8, <2>2, TailIsSuffix DEF Sequence
  <2>4. PICK T : T = q[1]
    OBVIOUS
  <2>5. T.op = "write" /\ T.key = k /\ T.patch = f
    <3>1. Replaced(s, x, c, r, q)
      BY <1>2 DEF Replaced
    <3>2. Program(a, r) /\ Opens(r)
      BY <1>1, <1>2, <1>3, <1>4, RestStep DEF Loads
    <3>3. StatementFits(a, t) /\ Writes(t) /\ WriteOrNone(t, x) /\ CountOrNone(c)
      <4>1. /\ t.op = "write" /\ t.key = k /\ t.patch = f /\ t.insert = (row = NoRow)
            /\ t.insert \in BOOLEAN /\ DOMAIN t = {"op", "key", "patch", "insert"}
        BY <1>2
      <4>2. /\ EditFits(k, e) /\ Fits(k, E) /\ k # Discount
        BY <1>1, <1>3, EditedRow
      <4>3. k # Tiers
        BY <4>2 DEF EditFits
      <4>4. row = NoRow => Fits(k, f)
        BY <1>2, <4>2 DEF Difference
      <4>5. Amends(k, f)
        BY <1>2, <4>2, <4>3, DifferenceAmends
      <4>6. row # NoRow => Row(k) # NoRow
        BY <1>2
      <4>7. StatementFits(a, t)
        BY <4>1, <4>2, <4>3, <4>4, <4>5, <4>6 DEF StatementFits
      <4>8. WriteOrNone(t, x) /\ CountOrNone(c)
        BY <1>2 DEF WriteOrNone, CountOrNone
      <4> QED
        BY <4>1, <4>7, <4>8 DEF Writes
    <3>4. /\ x = << >> => Opens(q)
          /\ x = << t >> => q[1].op = "write" /\ q[1].key = t.key /\ q[1].patch = t.patch
      BY ONLY <3>1, <3>2, <3>3, SavedProgram
    <3>5. x # << >>
      BY <2>2, <2>3, <3>4 DEF Opens
    <3>6. x = << t >> /\ t.key = k /\ t.patch = f
      BY <1>2, <3>5
    <3> QED
      BY <2>2, <2>3, <2>4, <3>4, <3>6
  <2>6. S(a)' = T
    BY <2>2, <2>3, <2>4
  <2>7. ASSUME NEW p \in Pool, S(a)'.key = Pair(p), Pair(p) \notin raced'
        PROVE  Turned(at[a], p, Result(a)', Old(p))
    <3>1. k = Pair(p) /\ Pair(p) \notin raced
      BY <1>3, <2>5, <2>6, <2>7
    <3>2. Turned(n, p, E, Old(p)) /\ E \in PairRow(scenario.days)
      BY <1>1, <1>3, <3>1, SavedPair
    <3>3. row = Row(k)
      <4>1. ~Generated(k)
        BY <3>1 DEF Generated, Pair
      <4> QED
        BY <1>2, <4>1
    <3>4. row = NoRow \/ row \in PairRow(scenario.days)
      <4>1. row # NoRow => Fits(k, row) /\ k[1] = "pair"
        BY <3>1, <3>3 DEF Row, IInv, Rows, Pair
      <4> QED
        BY <4>1 DEF Fits
    <3>5. Patched(f, row) = E
      <4>1. E = [z \in PairColumns |-> E[z]]
        BY <3>2, PairRowColumns
      <4>2. row = NoRow \/ row = [z \in PairColumns |-> row[z]]
        BY <3>4, PairRowColumns
      <4>3. f = Difference(E, row)
        BY <1>2
      <4> QED
        BY ONLY <4>1, <4>2, <4>3, DifferencePatched
    <3>6. Result(a)' = E
      <4>1. \A j, y : j = k /\ y = f => Patched(y, Row(j))' = Patched(y, Row(j))
        BY <1>9 DEF Patched, Over
      <4> QED
        BY <2>5, <2>6, <3>3, <3>5, <4>1 DEF Result
    <3> QED
      BY <1>1, <3>2, <3>6
  <2>8. Kind(at[a])' = Kind(at[a]) /\ \A p \in Pool : Row(Pair(p))' = Row(Pair(p))
    BY <1>3, <1>9 DEF Kind, Moves
  <2>9. PICK R : R = Result(a)'
    OBVIOUS
  <2>10. ASSUME NEW p \in Pool, S(a)'.key = Pair(p), Pair(p) \notin raced'
         PROVE  LET old == IF Row(Pair(p))' = NoRow THEN NewPair ELSE Row(Pair(p))' IN
                /\ FeeOf(R) =
                     IF Kind(at[a])' = "created" /\ CL(p) THEN DynamicFee
                     ELSE IF Kind(at[a])' = "created" THEN [FeeOf(old) EXCEPT !.dyn = FALSE] ELSE FeeOf(old)
                /\ R.gauge = old.gauge
                /\ R.cl = IF Kind(at[a])' = "created" THEN CL(p) ELSE old.cl
    <3>1. Turned(at[a], p, R, Old(p))
      BY <2>7, <2>9, <2>10
    <3>2. Old(p) = IF Row(Pair(p))' = NoRow THEN NewPair ELSE Row(Pair(p))'
      BY <2>8 DEF Old
    <3> QED
      BY <2>8, <3>1, <3>2 DEF Turned
  <2> QED
    BY <2>9, <2>10 DEF PairSteps, FeeOf
\* Of what the event sets.
<1>17. CASE x = << t >> \/ ~(\E p \in Pool : k = Pair(p) /\ Kind(n) = "created" /\ CL(p))
  <2>1. ASSUME NEW l, NEW d, Column(l, d), n \in SetBy(l, d), Yet(a, l, d) PROVE YetIn(q, l, d)
    <3>1. PICK i \in 1..Len(todo[a]) : Sets(todo[a][i], l, d)
      BY <2>1 DEF Yet, YetIn
    <3>2. CASE i # 1
      BY <1>10, <3>1, <3>2 DEF YetIn
    <3>3. CASE i = 1
      <4>1. Sets(s, l, d)
        BY <1>5, <3>1, <3>3
      <4>2. ~IsSetting(l) /\ d # "gauge" /\ k = l
        BY <1>1, <1>3, <4>1 DEF Sets
      <4>3. CASE x = << t >>
        <5>1. Sets(q[1], l, d)
          BY <1>11, <4>2, <4>3 DEF Sets
        <5> QED
          BY <1>11, <4>3, <5>1 DEF YetIn
      <4>4. CASE x # << t >>
        <5>1. YetIn(r, l, d)
          BY <1>1, <1>2, <1>3, <1>17, <2>1, <4>1, <4>4, StoreSets
        <5>2. PICK j \in 1..Len(r) : Sets(r[j], l, d)
          BY <5>1 DEF YetIn
        <5>3. Len(X) + j \in 1..Len(q)
          BY <1>8
        <5> QED
          BY <1>8, <5>2, <5>3 DEF YetIn
      <4> QED
        BY <4>3, <4>4
    <3> QED
      BY <3>2, <3>3
  <2>2. SettingRows' /\ \A p \in Pool : PairHolds(p)'
    BY <1>1, <1>3, <1>9, <2>1, NothingSet
  <2> QED
    BY <1>3, <1>9, <1>13, <1>15, <1>16, <2>2, Onward
\* A creation of a concentrated pool that finds the row as it would write it.
<1>18. CASE ~(x = << t >> \/ ~(\E p \in Pool : k = Pair(p) /\ Kind(n) = "created" /\ CL(p)))
  <2>1. PICK p \in Pool : k = Pair(p) /\ Kind(n) = "created" /\ CL(p)
    BY <1>18
  <2>2. x = << >> /\ row # NoRow /\ DOMAIN f = {}
    BY <1>2, <1>14, <1>18, <2>1
  <2>3. c = << >>
    <3>1. ~IsBucket(k)
      BY <2>1, Keys
    <3> QED
      BY <1>2, <3>1
  <2>4. q = r
    <3>1. X = << >>
      BY <1>7, <2>2, <2>3
    <3>2. << >> \o r = r
      BY <1>5, EmptyFirst
    <3> QED
      BY <1>2, <3>1, <3>2
  <2>5. Pair(p) \notin raced' => Turned(n, p, Row(Pair(p))', Old(p))
    <3> SUFFICES ASSUME Pair(p) \notin raced' PROVE Turned(n, p, Row(Pair(p))', Old(p))
      OBVIOUS
    <3>1. Turned(n, p, E, Old(p)) /\ E \in PairRow(scenario.days)
      BY <1>1, <1>3, <2>1, SavedPair
    <3>2. row = Row(k) /\ row \in PairRow(scenario.days)
      <4>1. ~Generated(k)
        BY <2>1 DEF Generated, Pair
      <4>2. row = Row(k)
        BY <1>2, <4>1
      <4>3. Fits(k, row) /\ k[1] = "pair"
        BY <2>1, <2>2, <4>2 DEF Row, IInv, Rows, Pair
      <4> QED
        BY <4>2, <4>3 DEF Fits
    <3>3. E = [z \in PairColumns |-> E[z]] /\ row = [z \in PairColumns |-> row[z]]
      BY <3>1, <3>2, PairRowColumns
    <3>4. f = [z \in {y \in DOMAIN E : E[y] # row[y]} |-> E[z]]
      BY <1>2, <2>2 DEF Difference, Changed
    <3>5. \A z \in PairColumns : E[z] = row[z]
      BY <2>2, <3>3, <3>4
    <3>6. E = row
      BY ONLY <3>3, <3>5
    <3> QED
      BY <1>9, <2>1, <3>1, <3>2, <3>6
  <2>6. SettingRows' /\ \A m \in Pool : PairHolds(m)'
    BY <1>1, <1>2, <1>3, <1>9, <2>1, <2>4, <2>5, DynamicStored
  <2> QED
    BY <1>3, <1>9, <1>13, <1>15, <1>16, <2>6, Onward
<1> QED
  BY <1>17, <1>18

LEMMA WriteFollows ==
  ASSUME IInv, IInv', log \in Logs(scenario), Follows, NEW a \in Actor, RunWrite(a)
  PROVE  Follows'
<1>1. PICK q, s, k, R, w :
        q = Rest(a) /\ s = S(a) /\ k = s.key /\ R = Result(a) /\ w = One(k, R)
  OBVIOUS
<1>2. todo[a] # << >> /\ s.op = "write" /\ Moves(a, q) /\ Write(a, w) /\ scenario' = scenario
  BY <1>1 DEF RunWrite, Is, Become, Untouched, Moves, Result
<1>3. /\ Spares(a) /\ Row(k)' = R /\ \A j : j # k => Row(j)' = Row(j)
      /\ \A p \in Pool : Row(Pair(p))' = NoRow => Row(Pair(p)) = NoRow
  <2>1. DOMAIN w = {k} /\ w[k] = R
    BY <1>1 DEF One
  <2>2. /\ Spares(a)
        /\ \A j : Row(j)' = IF j \in DOMAIN w THEN w[j] ELSE Row(j)
        /\ \A p \in Pool : Row(Pair(p))' = NoRow => Row(Pair(p)) = NoRow
    BY <1>2, Effect
  <2> QED
    BY <2>1, <2>2
<1>4. raced \subseteq raced'
  BY <1>3 DEF Spares
<1>5. Kind(at[a]) \notin SettingTypes /\ ~IsSetting(k)
  BY <1>1, <1>2, StoresPair
<1>6. \A j : IsSetting(j) => Row(j)' = Row(j)
  BY <1>3, <1>5
<1>7. Row(Tiers)' = Row(Tiers)
  BY <1>6 DEF IsSetting, Tiers
<1>8. ASSUME NEW p \in Pool, k = Pair(p) PROVE Row(Pair(p))' # NoRow
  <2>1. k \in DOMAIN rows'
    BY <1>1, <1>2 DEF Write, Over, One
  <2>2. Fits(k, rows[k])'
    BY <2>1 DEF IInv, Rows
  <2>3. rows'[k] \in PairRow(scenario'.days)
    BY <1>8, <2>2, Keys DEF Fits, PairRow
  <2>4. rows'[k] # NoRow
    BY <2>3, ScenariosAssumption DEF IInv, Actors
  <2> QED
    BY <1>8, <2>1, <2>4 DEF Row
<1>9. ASSUME NEW p \in Pool, k = Pair(p), Pair(p) \notin raced
      PROVE  Turned(at[a], p, R, Old(p))
  <2>1. PairSteps(a) /\ At(a, {"write"}) /\ S(a).key = Pair(p)
    BY <1>1, <1>2, <1>9 DEF Follows, At
  <2> QED
    BY <1>1, <1>9, <2>1 DEF PairSteps, Turned, Old
<1>10. SettingRows' /\ \A p \in Pool : PairHolds(p)'
  <2>1. CASE \E p \in Pool : k = Pair(p) /\ Kind(at[a]) = "created" /\ CL(p)
    <3>1. PICK p \in Pool : k = Pair(p) /\ Kind(at[a]) = "created" /\ CL(p)
      BY <2>1
    <3>2. /\ \A j : j # Pair(p) => Row(j)' = Row(j)
          /\ Row(Pair(p))' # NoRow /\ Pair(p) \notin raced' => Turned(at[a], p, Row(Pair(p))', Old(p))
      BY <1>3, <1>4, <1>9, <3>1
    <3> QED
      BY <1>1, <1>2, <1>4, <3>1, <3>2, DynamicStored
  <2>2. CASE ~\E p \in Pool : k = Pair(p) /\ Kind(at[a]) = "created" /\ CL(p)
    <3>1. ASSUME NEW l, NEW d, Column(l, d), at[a] \in SetBy(l, d), Yet(a, l, d) PROVE YetIn(q, l, d)
      <4>1. CASE Sets(S(a), l, d)
        BY <1>1, <1>2, <2>2, <3>1, <4>1, StoreSets
      <4>2. CASE ~Sets(S(a), l, d)
        BY <1>1, <1>2, <3>1, <4>2, YetRest DEF IInv
      <4> QED
        BY <4>1, <4>2
    <3>2. ASSUME NEW p \in Pool, Row(Pair(p))' # NoRow, Pair(p) \notin raced'
          PROVE  Alike(Row(Pair(p))', Old(p))
      <4>1. CASE Pair(p) = k
        <5>1. Turned(at[a], p, R, Old(p)) /\ Pair(p) \notin raced
          BY <1>4, <1>9, <3>2, <4>1
        <5>2. Alike(R, Old(p))
          BY <2>2, <4>1, <5>1, TurnedAlike
        <5> QED
          BY <1>3, <4>1, <5>2
      <4>2. CASE Pair(p) # k
        BY <1>3, <3>2, <4>2, AlikeItself
      <4> QED
        BY <4>1, <4>2
    <3> QED
      BY <1>2, <1>4, <1>6, <3>1, <3>2, NothingSet
  <2> QED
    BY <2>1, <2>2
<1>11. \A p \in Pool : S(a).op \in {"save", "write"} /\ S(a).key = Pair(p) => Row(Pair(p))' # NoRow
  BY <1>1, <1>8
<1> QED
  BY <1>1, <1>2, <1>3, <1>7, <1>10, <1>11, GoesOn

\* Each statement keeps what is followed, unless an error ends its handler.
LEMMA StatementFollows ==
  ASSUME IInv, IInv', log \in Logs(scenario), Follows, ~dropped', NEW a \in Actor, Step(a) \/ Fail(a)
  PROVE  Follows'
<1>1. CASE RunQuery(a)   BY <1>1, QueryFollows
<1>2. CASE RunFind(a)    BY <1>2, FindFollows
<1>3. CASE RunSave(a)    BY <1>3, SaveFollows
<1>4. CASE RunWrite(a)   BY <1>4, WriteFollows
<1>5. CASE RunSet(a)     BY <1>5, SetFollows
<1>6. CASE RunUpsert(a)  BY <1>6, UpsertFollows
<1>7. CASE RunUpdate(a)  BY <1>7, UpdateFollows
<1>8. CASE RunCompute(a) BY <1>8, ComputeFollows
<1>9. CASE RunDelete(a)  BY <1>9, DeleteFollows
<1>10. CASE RunCandle(a) BY <1>10, CandleFollows
<1>11. CASE Refused(a) \/ Fail(a)
  BY <1>11 DEF Refused, Fail, Abandon
<1> QED
  BY <1>1, <1>2, <1>3, <1>4, <1>5, <1>6, <1>7, <1>8, <1>9, <1>10, <1>11 DEF Step
-----------------------------------------------------------------------------
(* The steps of the actors themselves.                                     *)

LEMMA EmptyAhead == ASSUME NEW n PROVE Ahead(n, << >>) /\ Opens(<< >>)
<1>1. Len(<< >>) = 0
  BY EmptyIsSequence
<1> QED
  BY <1>1 DEF Ahead, Followed, Opens

LEMMA GreatestIn ==
  ASSUME NEW m \in Nat, NEW T, T \subseteq 1..m, T # {}
  PROVE  Max(T) \in T /\ \A y \in T : y <= Max(T)
<1>1. PICK D : D = {m - y : y \in T}
  OBVIOUS
<1>2. D \subseteq Nat /\ D # {}
  <2>1. \A y \in T : m - y \in Nat
    OBVIOUS
  <2> QED
    BY <1>1, <2>1
<1>3. Min(D) \in D /\ \A d \in D : Min(D) <= d
  BY <1>2, LeastOf
<1>4. PICK x \in T : Min(D) = m - x
  BY <1>1, <1>3
<1>5. \A y \in T : x >= y
  <2> TAKE y \in T
  <2>1. m - y \in D
    BY <1>1
  <2>2. m - x <= m - y
    BY <1>3, <1>4, <2>1
  <2> QED
    BY <2>2
<1> QED
  BY <1>5 DEF Max

\* The tables stay; actors begin or end, and what was due stays so.
LEMMA ActorsFollow ==
  ASSUME IInv, log \in Logs(scenario), Follows, UNCHANGED <<scenario, log, rows, raced>>, Ordered',
         \A k, c : Column(k, c) => Due(k, c) \subseteq Due(k, c)',
         \A p \in Pool : CreatedFirst(p)',
         \A b \in Actor : \/ todo'[b] = todo[b] /\ at'[b] = at[b]
                          \/ Ahead(at'[b], todo'[b]) /\ Opens(todo'[b])
  PROVE  Follows'
<1>1. /\ SettingRows /\ \A k : Row(k)' = Row(k)
      /\ BothWhitelisted <=> BothWhitelisted'
      /\ \A p \in Pool : Row(Pair(p))' # NoRow => Alike(Row(Pair(p))', Old(p))
  <2>1. "admin" \in Actor
    BY DEF Actor
  <2> QED
    BY <2>1, SameRows DEF Follows
<1>2. SettingRows'
  BY <1>1, CellsAreColumns, SettingsOn
<1>3. ASSUME NEW p \in Pool PROVE PairHolds(p)'
  <2>1. \A c \in {"own", "tier", "created", "gauge"} : Due(Pair(p), c) \subseteq Due(Pair(p), c)'
    BY CellsAreColumns
  <2> QED
    BY <1>1, <2>1, PairKept
<1>4. ASSUME NEW b \in Actor PROVE Ahead(at[b], todo[b])' /\ PairSteps(b)'
  <2>1. PICK n, p : n = at'[b] /\ p = todo'[b]
    OBVIOUS
  <2>2. Ahead(n, p)
    BY <2>1 DEF Follows
  <2>3. Ahead(n, p)'
    BY <1>1, <2>2, AheadKept
  <2>4. CASE Opens(p)
    <3>1. ~At(b, {"write"})'
      <4>1. p # << >> => Head(p) = p[1]
        OBVIOUS
      <4> QED
        BY <2>1, <2>4, <4>1 DEF Opens, At, S
    <3> QED
      BY <2>1, <2>3, <3>1 DEF PairSteps
  <2>5. CASE todo'[b] = todo[b] /\ at'[b] = at[b]
    <3>1. /\ S(b)' = S(b) /\ (At(b, {"write"}) <=> At(b, {"write"})') /\ Kind(at[b])' = Kind(at[b])
          /\ PairSteps(b)
      BY <2>5 DEF S, At, Kind, Follows
    <3>2. Result(b)' = Result(b)
      BY <1>1, <3>1 DEF Result, Patched
    <3>3. PairSteps(b)'
      BY <1>1, <3>1, <3>2 DEF PairSteps, FeeOf
    <3> QED
      BY <2>1, <2>3, <3>3
  <2> QED
    BY <2>1, <2>4, <2>5
<1> QED
  BY <1>2, <1>3, <1>4 DEF Follows

\* What an actor begins with.
LEMMA Begun ==
  ASSUME IInv, log \in Logs(scenario), Follows, log' = log, scenario' = scenario, NEW a \in Handlers,
         NEW n \in DOMAIN log, log[n].day <= now, Begin(a, n)
  PROVE  /\ a \in Actor /\ n # 0 /\ at'[a] = n
         /\ \A b \in Actor \ {a} : todo'[b] = todo[b] /\ at'[b] = at[b]
         /\ Ahead(at'[a], todo'[a]) /\ Opens(todo'[a])
         /\ \A k, c : Column(k, c) /\ n \in SetBy(k, c) => Yet(a, k, c)'
         /\ log[n].type = "created" =>
              \E i \in 1..Len(todo'[a]) :
                todo'[a][i].op = "save" /\ todo'[a][i].key = Pair(log[n].pool)
         /\ Stored' = Stored \cup {n}
<1>1. a \in Actor /\ scenario \in Scenarios /\ DOMAIN todo = Actor
  BY DEF Handlers, Actor, IInv, Actors
<1>2. /\ Fresh(a, todo'[a]) /\ at'[a] = n
      /\ \A b \in Actor \ {a} : todo'[b] = todo[b] /\ at'[b] = at[b]
  BY <1>1, BeginStep
<1>3. PICK p \in Programs(Over([id |-> n], log[n])) : todo' = [todo EXCEPT ![a] = p]
  BY DEF Begin, Become
<1>4. todo'[a] = p
  BY <1>1, <1>3
<1>5. /\ Ahead(n, p)
      /\ \A k, c : Column(k, c) /\ n \in SetBy(k, c) => YetIn(p, k, c)
      /\ log[n].type = "created" =>
           \E i \in 1..Len(p) : p[i].op = "save" /\ p[i].key = Pair(log[n].pool)
  BY <1>1, BeginsAhead
<1>6. n # 0
  BY <1>1, LogFacts
<1>7. \A k, c : YetIn(p, k, c) => Yet(a, k, c)'
  BY <1>4 DEF Yet, YetIn, Sets, IsSetting
<1>8. Stored' = Stored \cup {n}
  <2>1. started \in [DOMAIN log -> Nat] /\ started' = [started EXCEPT ![n] = @ + 1]
    BY DEF Begin, IInv, Actors
  <2> QED
    BY <2>1 DEF Stored
<1> QED
  BY <1>1, <1>2, <1>4, <1>5, <1>6, <1>7, <1>8 DEF Fresh

LEMMA DeliverFollows ==
  ASSUME IInv, IInv', log \in Logs(scenario), Follows, ~unordered', Deliver
  PROVE  Follows'
<1>1. /\ at["consumer"] = 0 /\ next \in DOMAIN log /\ log[next].day <= now /\ Begin("consumer", next)
      /\ UNCHANGED <<scenario, log, rows, next, selected, raced>> /\ at["replay"] = 0
  BY DEF Deliver, Idle
<1>2. /\ at'["consumer"] = next /\ next # 0
      /\ \A b \in Actor \ {"consumer"} : todo'[b] = todo[b] /\ at'[b] = at[b]
      /\ Ahead(at'["consumer"], todo'["consumer"]) /\ Opens(todo'["consumer"])
      /\ \A k, c : Column(k, c) /\ next \in SetBy(k, c) => Yet("consumer", k, c)'
      /\ log[next].type = "created" =>
           \E i \in 1..Len(todo'["consumer"]) :
             todo'["consumer"][i].op = "save" /\ todo'["consumer"][i].key = Pair(log[next].pool)
      /\ Stored' = Stored \cup {next}
  BY <1>1, Begun DEF Handlers
<1>3. /\ Ordered /\ "replay" \in Actor \ {"consumer"} /\ "consumer" \in Actor
      /\ next \in Nat /\ \A n \in DOMAIN log : n \in Nat \ {0}
  BY LogFacts DEF Follows, Actor, IInv, Actors
<1>4. at'["replay"] = 0 /\ todo'["replay"] = todo["replay"]
  BY <1>1, <1>2, <1>3
<1>5. Ordered'
  BY <1>1, <1>2, <1>3, <1>4 DEF Ordered, Handlers
<1>6. ASSUME NEW k, NEW c, Column(k, c) PROVE Due(k, c) \subseteq Due(k, c)'
  <2>1. SetBy(k, c)' = SetBy(k, c) /\ SetBy(k, c) \subseteq DOMAIN log
    BY <1>1, SetByKept, SetByEvents
  <2> QED
    BY <1>1, <1>2, <1>3, <1>6, <2>1 DEF Due
<1>7. ASSUME NEW p \in Pool PROVE CreatedFirst(p)'
  <2> SUFFICES ASSUME Row(Pair(p))' = NoRow, NEW n \in Of("created", p, log)
               PROVE  /\ next <= n /\ \A m \in Stored' : m <= n
                      /\ next = n =>
                           \E i \in 1..Len(todo'["consumer"]) :
                             /\ todo'["consumer"][i].op \in {"save", "write"}
                             /\ todo'["consumer"][i].key = Pair(p)
    BY <1>1, <1>2 DEF CreatedFirst, Of
  <2>1. Row(Pair(p)) = NoRow /\ CreatedFirst(p)
    BY <1>1 DEF Row, Follows
  <2>2. next <= n /\ \A m \in Stored : m <= n
    BY <2>1 DEF CreatedFirst
  <2>3. next = n => log[next].type = "created" /\ log[next].pool = p
    BY DEF Of
  <2> QED
    BY <1>2, <2>2, <2>3
<1> QED
  BY <1>1, <1>2, <1>5, <1>6, <1>7, ActorsFollow

LEMMA AcknowledgeFollows ==
  ASSUME IInv, IInv', log \in Logs(scenario), Follows, Acknowledge
  PROVE  Follows'
<1>1. /\ at["consumer"] # 0 /\ todo["consumer"] = << >> /\ next' = next + 1
      /\ at' = [at EXCEPT !["consumer"] = 0]
      /\ UNCHANGED <<scenario, log, rows, selected, todo, started, raced>>
  BY DEF Acknowledge
<1>2. /\ Ordered /\ "replay" \in Actor /\ "consumer" \in Actor /\ DOMAIN at = Actor
      /\ next \in Nat /\ at["consumer"] = next /\ next \in Stored
      /\ \A n \in DOMAIN log : n \in Nat \ {0}
  BY <1>1, LogFacts DEF Follows, Actor, IInv, Actors
<1>3. at["replay"] = 0 /\ Stored' = Stored /\ Len(<< >>) = 0
  BY <1>1, <1>2, EmptyIsSequence DEF Ordered, Stored
<1>4. at'["consumer"] = 0 /\ \A b \in Actor \ {"consumer"} : at'[b] = at[b]
  BY <1>1, <1>2
<1>5. Ordered'
  <2>1. \A n \in DOMAIN log : n < next' => n < next \/ n = next
    BY <1>1, <1>2
  <2>2. \A n \in DOMAIN log : n < next' => n \in Stored'
    BY <1>2, <1>3, <2>1 DEF Ordered
  <2>3. at'["replay"] = 0
    BY <1>2, <1>3, <1>4
  <2> QED
    BY <1>1, <1>2, <1>3, <1>4, <2>2, <2>3 DEF Ordered, Handlers
<1>6. ASSUME NEW k, NEW c, Column(k, c) PROVE Due(k, c) \subseteq Due(k, c)'
  <2>1. SetBy(k, c)' = SetBy(k, c) /\ SetBy(k, c) \subseteq DOMAIN log
    BY <1>1, SetByKept, SetByEvents
  <2>2. ~Yet("consumer", k, c)
    BY <1>1, <1>3 DEF Yet, YetIn
  <2>3. ASSUME NEW n \in Due(k, c) PROVE n \in Due(k, c)'
    <3>1. n \in SetBy(k, c) /\ n \in Nat \ {0}
      BY <1>2, <2>1 DEF Due
    <3>2. CASE n >= next
      <4>1. n # next
        BY <1>2, <1>3, <2>2, <2>3, <3>1 DEF Due, Ordered
      <4> QED
        BY <1>1, <1>2, <1>4, <2>1, <3>1, <3>2, <4>1 DEF Due
    <3>3. CASE ~(n >= next)
      BY <1>1, <1>2, <1>3, <2>1, <2>3, <3>1, <3>3 DEF Due, Ordered
    <3> QED
      BY <3>2, <3>3
  <2> QED
    BY <2>3
<1>7. ASSUME NEW p \in Pool PROVE CreatedFirst(p)'
  <2> SUFFICES ASSUME Row(Pair(p))' = NoRow, NEW n \in Of("created", p, log)
               PROVE  next' <= n /\ (\A m \in Stored' : m <= n) /\ at'["consumer"] # n
    BY <1>1 DEF CreatedFirst, Of
  <2>1. Row(Pair(p)) = NoRow /\ CreatedFirst(p) /\ n \in Nat \ {0}
    BY <1>1, <1>2 DEF Row, Follows, Of
  <2>2. next <= n /\ (\A m \in Stored : m <= n) /\ next # n
    BY <1>1, <1>2, <1>3, <2>1 DEF CreatedFirst
  <2> QED
    BY <1>1, <1>2, <1>3, <1>4, <2>1, <2>2
<1>8. Ahead(at'["consumer"], todo'["consumer"]) /\ Opens(todo'["consumer"])
  BY <1>1, EmptyAhead
<1> QED
  BY <1>1, <1>4, <1>5, <1>6, <1>7, <1>8, ActorsFollow

\* The consumer lets go of its event; what was published may come again.
LEMMA BackFollows ==
  ASSUME IInv, IInv', log \in Logs(scenario), Follows, Restart \/ Rewind
  PROVE  Follows'
<1>1. /\ UNCHANGED <<scenario, log, rows, selected, started, raced>>
      /\ next' \in Nat /\ next' <= next /\ at'["consumer"] = 0 /\ at'["replay"] = at["replay"]
      /\ \A b \in Actor : at'[b] \in {0, at[b]} /\ todo'[b] \in {todo[b], << >>}
      /\ \A b \in Actor : (todo'[b] = todo[b] /\ at'[b] = at[b]) \/ todo'[b] = << >>
      /\ todo'["consumer"] = << >> /\ todo'["replay"] = todo["replay"]
  <2>1. "consumer" \in Actor /\ "replay" \in Actor /\ next \in Nat /\ DOMAIN todo = Actor /\ DOMAIN at = Actor
    BY DEF Actor, IInv, Actors
  <2>2. CASE Restart
    <3>1. "consumer" \in Broker /\ "replay" \notin Broker
      BY DEF Broker, Actor
    <3> QED
      BY <2>1, <2>2, <3>1 DEF Restart, history
  <2>3. CASE Rewind
    BY <2>1, <2>3 DEF Rewind, Idle, jobVars, history
  <2> QED
    BY <2>2, <2>3
<1>2. /\ Ordered /\ next \in Nat /\ \A n \in DOMAIN log : n \in Nat \ {0}
      /\ Handlers \subseteq Actor
  BY LogFacts DEF Follows, IInv, Actors, Handlers, Actor
<1>3. Stored' = Stored
  BY <1>1 DEF Stored
<1>4. Ordered'
  <2>1. \A n \in DOMAIN log : n < next' => n < next
    BY <1>1, <1>2
  <2>2. \A n \in DOMAIN log : n >= next => n >= next'
    BY <1>1, <1>2
  <2>3. \A b \in Handlers : at'[b] = 0 => todo'[b] = << >>
    BY <1>1, <1>2 DEF Ordered, Handlers
  <2>4. \A b \in Actor \ Handlers : at'[b] = 0
    BY <1>1, <1>2 DEF Ordered
  <2> QED
    BY <1>1, <1>2, <1>3, <2>1, <2>2, <2>3, <2>4 DEF Ordered
<1>5. ASSUME NEW k, NEW c, Column(k, c) PROVE Due(k, c) \subseteq Due(k, c)'
  <2>1. SetBy(k, c)' = SetBy(k, c) /\ SetBy(k, c) \subseteq DOMAIN log
    BY <1>1, SetByKept, SetByEvents
  <2>2. Yet("replay", k, c) => Yet("replay", k, c)'
    BY <1>1 DEF Yet, YetIn, Sets, IsSetting
  <2> QED
    BY <1>1, <1>2, <2>1, <2>2 DEF Due
<1>6. ASSUME NEW p \in Pool PROVE CreatedFirst(p)'
  <2> SUFFICES ASSUME Row(Pair(p))' = NoRow, NEW n \in Of("created", p, log)
               PROVE  next' <= n /\ (\A m \in Stored' : m <= n) /\ at'["consumer"] # n
    BY <1>1 DEF CreatedFirst, Of
  <2>1. Row(Pair(p)) = NoRow /\ CreatedFirst(p) /\ n \in Nat \ {0}
    BY <1>1, <1>2 DEF Row, Follows, Of
  <2>2. next <= n /\ (\A m \in Stored : m <= n)
    BY <2>1 DEF CreatedFirst
  <2> QED
    BY <1>1, <1>2, <1>3, <2>1, <2>2
<1>7. \A b \in Actor : \/ todo'[b] = todo[b] /\ at'[b] = at[b]
                       \/ Ahead(at'[b], todo'[b]) /\ Opens(todo'[b])
  BY <1>1, EmptyAhead
<1> QED
  BY <1>1, <1>4, <1>5, <1>6, <1>7, ActorsFollow

LEMMA StartReplayFollows ==
  ASSUME IInv, IInv', log \in Logs(scenario), Follows, ~unordered', StartReplay
  PROVE  Follows'
<1>1. PICK m \in Stored, n \in Stored :
        /\ Begin("replay", m) /\ selected' = {k \in Stored : m < k /\ k <= n}
        /\ n = Max(Stored) /\ at["consumer"] = 0
  BY DEF StartReplay, Idle
<1>2. /\ at["replay"] = 0 /\ UNCHANGED <<scenario, log, rows, next, raced>>
  BY DEF StartReplay, MayStart, Idle
<1>3. /\ Ordered /\ "consumer" \in Actor \ {"replay"} /\ "replay" \in Actor
      /\ next \in Nat /\ (\A k \in DOMAIN log : k \in Nat \ {0}) /\ Len(scenario.shape) \in Nat
      /\ DOMAIN log = 1..Len(scenario.shape) /\ Stored \subseteq DOMAIN log
      /\ m \in DOMAIN log /\ log[m].day <= now
  BY LogFacts DEF Follows, Actor, IInv, Actors, Stored
<1>4. \A k \in Stored : k <= n
  BY <1>1, <1>3, GreatestIn
<1>5. /\ at'["replay"] = m /\ m # 0
      /\ \A b \in Actor \ {"replay"} : todo'[b] = todo[b] /\ at'[b] = at[b]
      /\ Ahead(at'["replay"], todo'["replay"]) /\ Opens(todo'["replay"])
      /\ Stored' = Stored
  <2>1. /\ at'["replay"] = m /\ m # 0
        /\ \A b \in Actor \ {"replay"} : todo'[b] = todo[b] /\ at'[b] = at[b]
        /\ Ahead(at'["replay"], todo'["replay"]) /\ Opens(todo'["replay"])
        /\ Stored' = Stored \cup {m}
    BY <1>1, <1>2, <1>3, Begun DEF Handlers
  <2> QED
    BY <1>1, <2>1
<1>6. at'["consumer"] = 0 /\ todo'["consumer"] = todo["consumer"]
  BY <1>1, <1>3, <1>5
<1>7. Ordered'
  <2>1. \A k \in DOMAIN log : k > m => k \in selected' \/ k >= next
    <3> SUFFICES ASSUME NEW k \in DOMAIN log, k > m, ~(k >= next) PROVE k \in selected'
      OBVIOUS
    <3>1. k \in Stored
      BY <1>3 DEF Ordered
    <3> QED
      BY <1>1, <1>3, <1>4, <3>1
  <2>2. \A k \in selected' : k > m
    BY <1>1, <1>3
  <2>3. \A b \in Handlers : at'[b] = 0 => todo'[b] = << >>
    BY <1>1, <1>3, <1>5, <1>6 DEF Ordered, Handlers
  <2>4. \A b \in Actor \ Handlers : at'[b] = 0
    BY <1>3, <1>5 DEF Ordered, Handlers
  <2> QED
    BY <1>2, <1>3, <1>5, <1>6, <2>1, <2>2, <2>3, <2>4 DEF Ordered
<1>8. ASSUME NEW k, NEW c, Column(k, c) PROVE Due(k, c) \subseteq Due(k, c)'
  <2>1. SetBy(k, c)' = SetBy(k, c) /\ SetBy(k, c) \subseteq DOMAIN log
    BY <1>2, SetByKept, SetByEvents
  <2>2. selected = {} /\ \A x \in DOMAIN log : x # 0
    BY <1>2, <1>3 DEF Ordered
  <2> QED
    BY <1>1, <1>2, <1>3, <1>6, <2>1, <2>2 DEF Due
<1>9. ASSUME NEW p \in Pool PROVE CreatedFirst(p)'
  <2> SUFFICES ASSUME Row(Pair(p))' = NoRow, NEW x \in Of("created", p, log)
               PROVE  next <= x /\ (\A y \in Stored' : y <= x) /\ at'["consumer"] # x
    BY <1>2 DEF CreatedFirst, Of
  <2>1. Row(Pair(p)) = NoRow /\ CreatedFirst(p) /\ x \in Nat \ {0}
    BY <1>2, <1>3 DEF Row, Follows, Of
  <2> QED
    BY <1>5, <1>6, <2>1 DEF CreatedFirst
<1> QED
  BY <1>2, <1>5, <1>7, <1>8, <1>9, ActorsFollow

LEMMA ReplayNextFollows ==
  ASSUME IInv, IInv', log \in Logs(scenario), Follows, ReplayNext
  PROVE  Follows'
<1>1. /\ at["replay"] # 0 /\ todo["replay"] = << >>
      /\ UNCHANGED <<scenario, log, rows, next, raced>>
  BY DEF ReplayNext
<1>2. /\ Ordered /\ "consumer" \in Actor \ {"replay"} /\ "replay" \in Actor
      /\ next \in Nat /\ (\A k \in DOMAIN log : k \in Nat \ {0}) /\ DOMAIN at = Actor
      /\ Stored \subseteq DOMAIN log /\ selected \subseteq Stored /\ at["replay"] \in DOMAIN log
      /\ (\A k \in Stored : log[k].day <= now) /\ Len(<< >>) = 0
  BY <1>1, LogFacts, EmptyIsSequence DEF Follows, Actor, IInv, Actors, Stored
<1>3. at["consumer"] = 0
  BY <1>1, <1>2 DEF Ordered
<1>4. PICK m \in {0} \cup DOMAIN log :
        /\ at'["replay"] = m /\ \A b \in Actor \ {"replay"} : todo'[b] = todo[b] /\ at'[b] = at[b]
        /\ Ahead(at'["replay"], todo'["replay"]) /\ Opens(todo'["replay"]) /\ Stored' = Stored
        /\ IF m = 0 THEN selected = {} /\ selected' = {} /\ todo'["replay"] = << >>
           ELSE /\ m \in selected /\ selected' = selected \ {m} /\ \A k \in selected : m <= k
                /\ \A k, c : Column(k, c) /\ m \in SetBy(k, c) => Yet("replay", k, c)'
  <2>1. CASE selected = {}
    <3>1. /\ at' = [at EXCEPT !["replay"] = 0] /\ UNCHANGED <<todo, started, selected>>
      BY <2>1 DEF ReplayNext
    <3>2. Ahead(0, << >>) /\ Opens(<< >>)
      BY EmptyAhead
    <3> QED
      BY <1>1, <1>2, <2>1, <3>1, <3>2 DEF Stored
  <2>2. CASE selected # {}
    <3>1. PICK m : m = Min(selected)
      OBVIOUS
    <3>2. Begin("replay", m) /\ selected' = selected \ {m}
      BY <2>2, <3>1 DEF ReplayNext
    <3>3. m \in selected /\ \A k \in selected : m <= k
      BY <1>2, <2>2, <3>1, LeastOf
    <3>4. m \in DOMAIN log /\ log[m].day <= now /\ m \in Stored
      BY <1>2, <3>3
    <3>5. /\ at'["replay"] = m /\ m # 0
          /\ \A b \in Actor \ {"replay"} : todo'[b] = todo[b] /\ at'[b] = at[b]
          /\ Ahead(at'["replay"], todo'["replay"]) /\ Opens(todo'["replay"])
          /\ \A k, c : Column(k, c) /\ m \in SetBy(k, c) => Yet("replay", k, c)'
          /\ Stored' = Stored \cup {m}
      BY <1>1, <3>2, <3>4, Begun DEF Handlers
    <3> QED
      BY <3>2, <3>3, <3>4, <3>5
  <2> QED
    BY <2>1, <2>2
<1>5. at'["consumer"] = 0 /\ todo'["consumer"] = todo["consumer"]
  BY <1>2, <1>3, <1>4
<1>6. Ordered'
  <2>1. m # 0 => \A k \in DOMAIN log : k > m => k \in selected' \/ k >= next
    <3> SUFFICES ASSUME m # 0, NEW k \in DOMAIN log, k > m, ~(k >= next) PROVE k \in selected'
      OBVIOUS
    <3>1. m \in selected /\ m > at["replay"]
      BY <1>1, <1>2, <1>4 DEF Ordered
    <3>2. k > at["replay"]
      BY <1>2, <1>4, <3>1
    <3> QED
      BY <1>1, <1>2, <1>4, <3>2 DEF Ordered
  <2>2. m # 0 => \A k \in selected' : k > m
    BY <1>2, <1>4
  <2>3. \A b \in Handlers : at'[b] = 0 => todo'[b] = << >>
    BY <1>2, <1>3, <1>4, <1>5 DEF Ordered, Handlers
  <2>4. \A b \in Actor \ Handlers : at'[b] = 0
    BY <1>2, <1>4 DEF Ordered, Handlers
  <2> QED
    BY <1>1, <1>2, <1>4, <1>5, <2>1, <2>2, <2>3, <2>4 DEF Ordered
<1>7. ASSUME NEW k, NEW c, Column(k, c) PROVE Due(k, c) \subseteq Due(k, c)'
  <2>1. SetBy(k, c)' = SetBy(k, c) /\ SetBy(k, c) \subseteq DOMAIN log
    BY <1>1, SetByKept, SetByEvents
  <2>2. ~Yet("replay", k, c)
    BY <1>1, <1>2 DEF Yet, YetIn
  <2>3. ASSUME NEW n \in Due(k, c) PROVE n \in Due(k, c)'
    <3>1. n \in SetBy(k, c) /\ n \in Nat \ {0} /\ (n >= next \/ n \in selected)
      BY <1>2, <2>1, <2>2, <2>3 DEF Due
    <3>2. CASE n >= next
      BY <1>1, <1>5, <2>1, <3>1, <3>2 DEF Due
    <3>3. CASE n \in selected /\ n \in selected'
      BY <2>1, <3>1, <3>3 DEF Due
    <3>4. CASE n \in selected /\ n \notin selected'
      <4>1. n = m /\ Yet("replay", k, c)'
        BY <1>4, <1>7, <3>1, <3>4
      <4> QED
        BY <1>4, <2>1, <3>1, <4>1 DEF Due
    <3> QED
      BY <3>1, <3>2, <3>3, <3>4
  <2> QED
    BY <2>3
<1>8. ASSUME NEW p \in Pool PROVE CreatedFirst(p)'
  <2> SUFFICES ASSUME Row(Pair(p))' = NoRow, NEW x \in Of("created", p, log)
               PROVE  next <= x /\ (\A y \in Stored' : y <= x) /\ at'["consumer"] # x
    BY <1>1 DEF CreatedFirst, Of
  <2>1. Row(Pair(p)) = NoRow /\ CreatedFirst(p) /\ x \in Nat \ {0}
    BY <1>1, <1>2 DEF Row, Follows, Of
  <2> QED
    BY <1>4, <1>5, <2>1 DEF CreatedFirst
<1> QED
  BY <1>1, <1>4, <1>6, <1>7, <1>8, ActorsFollow

\* Neither the consumer nor the replay takes part.
LEMMA BesideFollows ==
  ASSUME IInv, IInv', log \in Logs(scenario), Follows,
         UNCHANGED <<scenario, log, rows, next, at, selected, started, raced>>,
         \A b \in Actor : \/ todo'[b] = todo[b]
                          \/ b \notin Handlers /\ Ahead(0, todo'[b]) /\ Opens(todo'[b])
  PROVE  Follows'
<1>1. /\ Ordered /\ Handlers \subseteq Actor /\ Stored' = Stored
      /\ todo'["consumer"] = todo["consumer"] /\ todo'["replay"] = todo["replay"]
  BY DEF Follows, Handlers, Actor, Stored
<1>2. Ordered'
  BY <1>1 DEF Ordered, Handlers
<1>3. ASSUME NEW k, NEW c PROVE Due(k, c) \subseteq Due(k, c)'
  <2>1. \A b \in Handlers : Yet(b, k, c) => Yet(b, k, c)'
    BY <1>1 DEF Handlers, Yet, YetIn, Sets, IsSetting
  <2> QED
    BY <2>1, DueGrows
<1>4. ASSUME NEW p \in Pool PROVE CreatedFirst(p)'
  <2>1. CreatedFirst(p) /\ (Row(Pair(p))' = NoRow <=> Row(Pair(p)) = NoRow)
    BY DEF Follows, Row
  <2> QED
    BY <1>1, <2>1 DEF CreatedFirst, Of
<1>5. \A b \in Actor : \/ todo'[b] = todo[b] /\ at'[b] = at[b]
                       \/ Ahead(at'[b], todo'[b]) /\ Opens(todo'[b])
  BY <1>1 DEF Ordered
<1> QED
  BY <1>2, <1>3, <1>4, <1>5, ActorsFollow

LEMMA BystanderFollows ==
  ASSUME IInv, IInv', log \in Logs(scenario), Follows,
         (\E c \in Cron : StartCron(c)) \/ Administer \/ Midnight \/ UNCHANGED vars
  PROVE  Follows'
<1>1. /\ UNCHANGED <<scenario, log, rows, next, at, selected, started, raced>>
      /\ DOMAIN todo = Actor /\ now \in Nat \ {0}
  BY DEF StartCron, Administer, Midnight, vars, jobVars, history, IInv, Actors
<1>2. ASSUME NEW b \in Actor, b \notin Handlers, NEW p, Become(b, p), All(0, p), Opens(p) PROVE Follows'
  <2>1. Ahead(0, p)
    BY <1>2, AllAhead
  <2>2. \A d \in Actor : d # b => todo'[d] = todo[d]
    BY <1>1, <1>2 DEF Become
  <2>3. todo'[b] = p
    BY <1>1, <1>2 DEF Become
  <2> QED
    BY <1>1, <1>2, <2>1, <2>2, <2>3, BesideFollows
<1>3. ASSUME NEW c \in Cron, StartCron(c) PROVE Follows'
  <2>1. c \in Actor /\ c \notin Handlers /\ Become(c, ensureWallClockBuckets(now))
    BY <1>3 DEF StartCron, Actor, Cron, Handlers
  <2>2. All(0, ensureWallClockBuckets(now)) /\ Opens(ensureWallClockBuckets(now))
    BY <1>1, AllCron, CronFresh DEF Fresh
  <2> QED
    BY <1>2, <2>1, <2>2
<1>4. CASE Administer
  <2>1. PICK v \in BOOLEAN :
          \/ Become("admin", setTokenListed(v))
          \/ \E p \in Pool : Become("admin", setPairListed(p, v)) \/ Become("admin", setListed(p, v))
    BY <1>4 DEF Administer
  <2>2. \A p : /\ All(0, setTokenListed(v)) /\ All(0, setPairListed(p, v)) /\ All(0, setListed(p, v))
               /\ Opens(setTokenListed(v)) /\ Opens(setPairListed(p, v)) /\ Opens(setListed(p, v))
    BY AllCatalog, CatalogPlain DEF Plain
  <2>3. "admin" \in Actor /\ "admin" \notin Handlers
    BY DEF Actor, Handlers
  <2> QED
    BY <1>2, <2>1, <2>2, <2>3
<1>5. CASE Midnight \/ UNCHANGED vars
  <2>1. todo' = todo
    BY <1>5 DEF Midnight, vars, jobVars
  <2> QED
    BY <1>1, <2>1, BesideFollows
<1> QED
  BY <1>3, <1>4, <1>5
-----------------------------------------------------------------------------
(* The invariant.                                                          *)

LEMMA FollowsAtFirst == Init => FollowInv
<1> SUFFICES ASSUME Init PROVE FollowInv
  OBVIOUS
<1>1. /\ scenario \in Scenarios /\ log \in Logs(scenario) /\ rows = << >> /\ next = 1
      /\ at = [a \in Actor |-> 0] /\ selected = {} /\ todo = [a \in Actor |-> << >>]
      /\ started = [n \in DOMAIN log |-> 0]
  BY DEF Init
<1>2. /\ (\A k : Row(k) = NoRow) /\ Stored = {} /\ \A n \in DOMAIN log : n \in Nat \ {0}
  <2>1. DOMAIN << >> = {}
    BY EmptyIsSequence
  <2> QED
    BY <1>1, <2>1, LogFacts DEF Row, Stored
<1>3. "consumer" \in Actor /\ "replay" \in Actor /\ Handlers \subseteq Actor
  BY DEF Actor, Handlers
<1>4. Ordered
  BY <1>1, <1>2, <1>3 DEF Ordered
<1>5. SettingRows
  <2> SUFFICES ASSUME NEW x \in Cells PROVE CellHolds(x[1], x[2])
    BY <1>2 DEF SettingRows
  <2>1. PICK k, c : k = x[1] /\ c = x[2]
    OBVIOUS
  <2>2. NoneTo(k, c)
    <3>1. SetBy(k, c) \subseteq DOMAIN log
      BY SetByEvents
    <3> QED
      BY <1>1, <1>2, <1>3, <3>1 DEF NoneTo, Due
  <2>3. Seen(k) = Blank(k)
    BY <1>2 DEF Seen, Shown
  <2> QED
    BY <2>1, <2>2, <2>3 DEF CellHolds
<1>6. ASSUME NEW p \in Pool PROVE CreatedFirst(p) /\ PairHolds(p)
  <2>1. \A n \in Of("created", p, log) : n \in DOMAIN log
    BY DEF Of
  <2>2. CreatedFirst(p)
    BY <1>1, <1>2, <1>3, <2>1 DEF CreatedFirst
  <2> QED
    BY <1>2, <2>2 DEF PairHolds
<1>7. ASSUME NEW a \in Actor PROVE Ahead(at[a], todo[a]) /\ PairSteps(a)
  BY <1>1, EmptyAhead DEF PairSteps, At
<1> QED
  BY <1>1, <1>4, <1>5, <1>6, <1>7 DEF Follows, FollowInv

LEMMA FollowStep ==
  ASSUME IInv, IInv', FollowInv, [Next]_vars
  PROVE  FollowInv'
<1>1. UNCHANGED <<scenario, log>> /\ (dropped => dropped') /\ (unordered => unordered')
  <2>1. ASSUME NEW a \in Actor, Step(a) \/ Fail(a)
        PROVE  UNCHANGED <<scenario, log>> /\ (dropped => dropped') /\ (unordered => unordered')
    BY <2>1 DEF Step, Fail, Refused, Abandon, Untouched, RunQuery, RunFind, RunSave, RunWrite, RunSet,
                RunUpsert, RunUpdate, RunCompute, RunDelete, RunCandle
  <2>2. ASSUME \/ Deliver \/ Acknowledge \/ Restart \/ Rewind \/ Lose
               \/ StartReplay \/ ReplayNext \/ StopReplay
               \/ (\E c \in Cron : StartCron(c)) \/ Administer \/ Midnight \/ UNCHANGED vars
        PROVE  UNCHANGED <<scenario, log>> /\ (dropped => dropped') /\ (unordered => unordered')
    <3>1. CASE Deliver BY <3>1 DEF Deliver
    <3>2. CASE Acknowledge BY <3>2 DEF Acknowledge
    <3>3. CASE Restart \/ Rewind \/ Lose BY <3>3 DEF Restart, Rewind, Lose, history
    <3>4. CASE StartReplay BY <3>4 DEF StartReplay
    <3>5. CASE ReplayNext BY <3>5 DEF ReplayNext
    <3>6. CASE StopReplay BY <3>6 DEF StopReplay
    <3>7. CASE (\E c \in Cron : StartCron(c)) \/ Administer \/ Midnight \/ UNCHANGED vars
      BY <3>7 DEF StartCron, Administer, Midnight, vars, history
    <3> QED
      BY <2>2, <3>1, <3>2, <3>3, <3>4, <3>5, <3>6, <3>7
  <2> QED
    BY <2>1, <2>2 DEF Next
<1>2. log \in Logs(scenario) /\ (log \in Logs(scenario))'
  BY <1>1 DEF FollowInv
<1>3. ASSUME Calm' PROVE Follows'
  <2>1. ~dropped' /\ ~unordered' /\ Follows
    BY <1>1, <1>3 DEF Calm, FollowInv
  <2>2. ASSUME NEW a \in Actor, Step(a) \/ Fail(a) PROVE Follows'
    BY <1>2, <2>1, <2>2, StatementFollows
  <2>3. CASE Deliver BY <1>2, <2>1, <2>3, DeliverFollows
  <2>4. CASE Acknowledge BY <1>2, <2>1, <2>4, AcknowledgeFollows
  <2>5. CASE Restart \/ Rewind BY <1>2, <2>1, <2>5, BackFollows
  <2>6. CASE Lose \/ StopReplay BY <2>1, <2>6 DEF Lose, StopReplay
  <2>7. CASE StartReplay BY <1>2, <2>1, <2>7, StartReplayFollows
  <2>8. CASE ReplayNext BY <1>2, <2>1, <2>8, ReplayNextFollows
  <2>9. CASE (\E c \in Cron : StartCron(c)) \/ Administer \/ Midnight \/ UNCHANGED vars
    BY <1>2, <2>1, <2>9, BystanderFollows
  <2> QED
    BY <2>2, <2>3, <2>4, <2>5, <2>6, <2>7, <2>8, <2>9 DEF Next
<1> QED
  BY <1>2, <1>3 DEF FollowInv

LEMMA FollowsAlways == Spec => [](IInv /\ FollowInv)
<1>1. Init => FollowInv
  BY FollowsAtFirst
<1>2. IInv /\ IInv' /\ FollowInv /\ [Next]_vars => FollowInv'
  BY FollowStep
<1> QED
  BY <1>1, <1>2, Inductive, PTL DEF Spec
-----------------------------------------------------------------------------
(* Once the log is handled, nothing is due.                                *)

\* What was set last is set by the last event there is.
LEMMA NothingDue ==
  ASSUME IInv, log \in Logs(scenario), Follows, Settled, NEW k, NEW c, NEW E, E = SetBy(k, c)
  PROVE  /\ \A n : LastTo(n, k, c) => E # {} /\ n \in E /\ Max(E) = n /\ \A m \in E : m <= n
         /\ NoneTo(k, c) => E = {}
         /\ Due(k, c) = {}
<1>1. PICK m : m = Len(scenario.shape)
  OBVIOUS
<1>2. m \in Nat /\ DOMAIN log = 1..m /\ (\A n \in DOMAIN log : n \in Nat \ {0}) /\ next \in Nat
  BY <1>1, LogFacts DEF IInv, Actors
<1>3. Len(log) = m
  <2>1. log = [n \in DOMAIN log |-> log[n]]
    BY DEF Logs
  <2> QED
    BY <1>2, <2>1, MadeSequence
<1>4. next > m /\ at["consumer"] = 0 /\ at["replay"] = 0 /\ selected = {}
  BY <1>3 DEF Settled, Idle, Follows, Ordered
<1>5. E \subseteq DOMAIN log
  BY SetByEvents
<1>6. Due(k, c) = {}
  <2>1. \A n \in E : ~(n >= next) /\ n # 0
    BY <1>2, <1>4, <1>5
  <2> QED
    BY <1>4, <2>1 DEF Due
<1>7. NoneTo(k, c) => E = {}
  BY <1>6 DEF NoneTo
<1>8. ASSUME NEW n, LastTo(n, k, c) PROVE E # {} /\ n \in E /\ Max(E) = n /\ \A x \in E : x <= n
  <2>1. n \in E /\ \A x \in E : ~(x > n)
    BY <1>6, <1>8 DEF LastTo
  <2>2. n \in Nat /\ \A x \in E : x \in Nat /\ x <= n
    BY <1>2, <1>5, <2>1
  <2>3. Max(E) \in E /\ \A x \in E : x <= Max(E)
    BY <1>2, <1>5, <2>1, GreatestIn
  <2>4. PICK l : l = Max(E)
    OBVIOUS
  <2>5. l \in Nat /\ n <= l /\ l <= n
    BY <2>1, <2>2, <2>3, <2>4
  <2>6. l = n
    BY <2>2, <2>5
  <2> QED
    BY <2>1, <2>2, <2>4, <2>6
<1> QED
  BY <1>6, <1>7, <1>8

LEMMA CellSettled ==
  ASSUME IInv, log \in Logs(scenario), Follows, Settled, NEW k, NEW c, <<k, c>> \in Cells
  PROVE  /\ k[1] # "whitelisted" => Seen(k)[c] = LastSet(SetBy(k, c))
         /\ \A side : k = Whitelisted(side) => Seen(k)[c] = OnChain(side)
<1>1. PICK E, x : E = SetBy(k, c) /\ x = <<k, c>>
  OBVIOUS
<1>2. x \in Cells /\ x[1] = k /\ x[2] = c /\ scenario \in Scenarios
  BY <1>1 DEF IInv, Actors
<1>3. CellHolds(k, c) /\ c \in DOMAIN Blank(k) /\ Column(k, c) /\ IsSetting(k)
  <2>1. c \in DOMAIN Blank(k) /\ Column(k, c) /\ IsSetting(k)
    BY <1>2, CellsAreColumns
  <2>2. CellHolds(k, c)
    BY <1>2 DEF Follows, SettingRows
  <2> QED
    BY <2>1, <2>2
<1>4. Blank(k)[c] = IF k[1] = "whitelisted" THEN FALSE ELSE Unset
  BY <1>2, <1>3, BlankCells
<1>5. \/ Seen(k)[c] = Blank(k)[c] /\ E = {}
      \/ \E n \in DOMAIN log : E # {} /\ n \in E /\ Max(E) = n /\ Seen(k)[c] = Given(n)
  BY <1>1, <1>3, NothingDue DEF CellHolds
<1>6. ASSUME k[1] # "whitelisted" PROVE Seen(k)[c] = LastSet(E)
  <2>1. CASE Seen(k)[c] = Blank(k)[c] /\ E = {}
    BY <1>4, <1>6, <2>1 DEF LastSet
  <2>2. ASSUME NEW n \in E, Max(E) = n, E # {}, Seen(k)[c] = Given(n) PROVE Seen(k)[c] = LastSet(E)
    <3>1. log[n].type # "whitelist"
      <4>1. \A p : Pair(p) # k
        BY <1>3, NoSettings
      <4> QED
        BY <1>1, <1>3, <1>6, <4>1, SetOf DEF Whitelisted, Defaults, Discount, Tiers, Curve
    <3> QED
      BY <2>2, <3>1 DEF LastSet, Given
  <2> QED
    BY <1>5, <2>1, <2>2
<1>7. ASSUME NEW side, k = Whitelisted(side) PROVE Seen(k)[c] = OnChain(side)
  <2>1. k[1] = "whitelisted" /\ c = "on"
    BY <1>3, <1>7 DEF Whitelisted, Blank
  <2>2. E = {n \in Typed({"whitelist"}) : log[n].side = side}
    BY <1>1, <1>7, <2>1, SetByCells
  <2>3. CASE Seen(k)[c] = Blank(k)[c] /\ E = {}
    BY <1>4, <2>1, <2>2, <2>3 DEF OnChain
  <2>4. ASSUME NEW n \in E, Max(E) = n, E # {}, Seen(k)[c] = Given(n) PROVE Seen(k)[c] = OnChain(side)
    <3>1. log[n].type = "whitelist" /\ n \in DOMAIN log
      BY <2>2 DEF Typed
    <3>2. log[n].on \in BOOLEAN /\ Given(n) = log[n].on
      BY <1>2, <3>1, LogFacts DEF Given
    <3>3. OnChain(side) = log[n].on
      BY <2>2, <2>4, <3>2 DEF OnChain
    <3> QED
      BY <2>4, <3>2, <3>3
  <2> QED
    BY <1>5, <2>3, <2>4
<1> QED
  BY <1>1, <1>6, <1>7

LEMMA CurveSettled ==
  ASSUME IInv, log \in Logs(scenario), Follows, Settled, NEW p \in Pool
  PROVE  Shown(Curve(p), NoCurve) = ChainCurve(p)
<1>1. PICK k, r, f : k = Curve(p) /\ r = Seen(k) /\ f = ChainCurve(p)
  OBVIOUS
<1>2. <<k, "base">> \in Cells /\ <<k, "cap">> \in Cells /\ k[1] = "curve" /\ Blank(k) = NoCurve
  BY <1>1 DEF Cells, Curve, Blank
<1>3. r.base = LastSet(SetBy(k, "base")) /\ r.cap = LastSet(SetBy(k, "cap"))
  BY <1>1, <1>2, CellSettled
<1>4. r = [c \in {"base", "cap"} |-> r[c]]
  <2>1. CASE Row(k) = NoRow
    BY <1>1, <1>2, <2>1 DEF Seen, Shown, NoCurve
  <2>2. CASE Row(k) # NoRow
    <3>1. \A x \in Cells : x[1] = k => SettingFits(k, Row(k))
      BY <2>2 DEF Follows, SettingRows
    <3>2. PICK x : x = <<k, "base">>
      OBVIOUS
    <3>3. SettingFits(k, Row(k))
      BY <1>2, <3>1, <3>2
    <3>4. r = Row(k) /\ DOMAIN NoCurve = {"base", "cap"}
      BY <1>1, <2>2 DEF Seen, Shown, Row, NoCurve
    <3> QED
      BY <1>2, <3>3, <3>4 DEF SettingFits
  <2> QED
    BY <2>1, <2>2
<1>5. f = [c \in {"base", "cap"} |-> f[c]] /\ f.base = r.base /\ f.cap = r.cap
  <2>1. /\ f.base = LastSet(Of("moduleFee", p, log))
        /\ f.cap = LastSet(Of("capSet", p, log) \cup Of("feeReset", p, log))
        /\ f = [c \in {"base", "cap"} |-> f[c]]
    BY <1>1 DEF ChainCurve
  <2> QED
    BY <1>1, <1>3, <2>1, SetByCells
<1>6. \A c \in {"base", "cap"} : f[c] = r[c]
  BY <1>5
<1>7. f = r
  BY ONLY <1>4, <1>5, <1>6
<1>8. r = Shown(Curve(p), NoCurve)
  BY <1>1, <1>2 DEF Seen
<1> QED
  BY <1>1, <1>7, <1>8

LEMMA FeeSettled ==
  ASSUME IInv, log \in Logs(scenario), Follows, Settled, NEW p \in Pool, Of("created", p, log) # {},
         NEW f, FeeHolds(p, f)
  PROVE  f = ChainFee(p)
<1>1. PICK k, C, own, tier :
        /\ k = Pair(p) /\ C = Of("created", p, log) /\ tier = SetBy(k, "tier")
        /\ own = IF CL(p) THEN Of("moduleFee", p, log) \cup Of("feeReset", p, log)
                 ELSE Of("customFee", p, log)
  OBVIOUS
<1>2. /\ SetBy(k, "own") = (IF CL(p) THEN C \cup own ELSE own) /\ SetBy(k, "created") = C
      /\ tier = {n \in DOMAIN log : log[n].type = "setFee" /\ log[n].class = Class[p]}
  <2>1. tier = {n \in Typed({"setFee"}) : log[n].class = Class[p]}
    BY <1>1, SetByPairs
  <2>2. SetBy(k, "own") = (IF CL(p) THEN C \cup own ELSE own) /\ SetBy(k, "created") = C
    BY <1>1, SetByPairs
  <2> QED
    BY <2>1, <2>2 DEF Typed
<1>3. scenario \in Scenarios /\ \A n \in DOMAIN log : n \in Nat \ {0} /\ Kind(n) = log[n].type
  BY LogFacts DEF IInv, Actors
<1>4. ASSUME CL(p) PROVE f = ChainFee(p)
  <2>1. ChainFee(p) = IF own = {} \/ log[Max(own)].type = "feeReset" THEN DynamicFee
                      ELSE Fee(FALSE, log[Max(own)].bps, "cl_module_fixed")
    BY <1>1, <1>4 DEF ChainFee
  <2>2. PICK n \in DOMAIN log : LastTo(n, k, "own") /\ f = Charged(n)
    <3>1. ~NoneTo(k, "own")
      BY <1>1, <1>2, <1>4, NothingDue
    <3> QED
      BY <1>1, <1>4, <3>1 DEF FeeHolds
  <2>3. n \in C \cup own /\ \A m \in C \cup own : m <= n
    BY <1>2, <1>4, <2>2, NothingDue
  <2>4. CASE n \in own
    <3>1. Max(own) = n
      <4>1. own \subseteq Nat /\ n \in Nat /\ own \subseteq DOMAIN log
        BY <1>1, <1>3, <1>4 DEF Of
      <4>2. PICK l : l = Max(own)
        OBVIOUS
      <4>3. l \in own /\ \A y \in own : y <= l
        BY <2>4, <4>1, <4>2, LogFacts, GreatestIn, <1>3
      <4>4. l \in Nat /\ n <= l /\ l <= n
        BY <2>3, <2>4, <4>1, <4>3
      <4> QED
        BY <4>1, <4>2, <4>4
    <3>2. log[n].type \in {"moduleFee", "feeReset"}
      BY <1>1, <1>4, <2>4 DEF Of
    <3> QED
      BY <2>1, <2>2, <2>4, <3>1, <3>2 DEF Charged
  <2>5. CASE n \notin own
    <3>1. n \in C /\ log[n].type = "created"
      BY <1>1, <2>3, <2>5 DEF Of
    <3>2. ASSUME NEW m \in own PROVE FALSE
      <4>1. m \in DOMAIN log /\ log[m].type \in PoolSettings /\ log[m].pool = p
        BY <1>1, <1>4, <3>2 DEF Of, PoolSettings
      <4>2. n < m
        BY <1>1, <1>3, <3>1, <4>1, CreatedOnce
      <4>3. m <= n /\ m \in Nat /\ n \in Nat
        BY <1>3, <2>3, <3>2, <4>1
      <4> QED
        BY <4>2, <4>3
    <3>3. own = {}
      BY <3>2
    <3> QED
      BY <2>1, <2>2, <3>1, <3>3 DEF Charged
  <2> QED
    BY <2>4, <2>5
<1>5. ASSUME ~CL(p) PROVE f = ChainFee(p)
  <2>1. ChainFee(p) = IF own # {} THEN Fee(FALSE, log[Max(own)].bps, "factory_custom")
                      ELSE IF tier # {} THEN Fee(FALSE, log[Max(tier)].bps, "factory_tier")
                      ELSE NoFee
    BY <1>1, <1>2, <1>5 DEF ChainFee
  <2>2. ASSUME NEW n \in DOMAIN log, LastTo(n, k, "own"), f = Fee(FALSE, log[n].bps, "factory_custom")
        PROVE  f = ChainFee(p)
    <3>1. own # {} /\ Max(own) = n
      BY <1>2, <1>5, <2>2, NothingDue
    <3> QED
      BY <2>1, <2>2, <3>1
  <2>3. ASSUME NoneTo(k, "own"), NEW n \in DOMAIN log, LastTo(n, k, "tier"),
               f = Fee(FALSE, log[n].bps, "factory_tier")
        PROVE  f = ChainFee(p)
    <3>1. own = {}
      BY <1>2, <1>5, <2>3, NothingDue
    <3>2. tier # {} /\ Max(tier) = n
      BY <1>1, <2>3, NothingDue
    <3> QED
      BY <2>1, <2>3, <3>1, <3>2
  <2>4. ASSUME NoneTo(k, "own"), f = NoFee, NoneTo(k, "created") \/ NoneTo(k, "tier")
        PROVE  f = ChainFee(p)
    <3>1. own = {}
      BY <1>2, <1>5, <2>4, NothingDue
    <3>2. ~NoneTo(k, "created")
      BY <1>1, <1>2, NothingDue
    <3>3. tier = {}
      BY <1>1, <2>4, <3>2, NothingDue
    <3> QED
      BY <2>1, <2>4, <3>1, <3>3
  <2> QED
    BY <1>1, <1>5, <2>2, <2>3, <2>4 DEF FeeHolds
<1> QED
  BY <1>4, <1>5

LEMMA GaugeSettled ==
  ASSUME IInv, log \in Logs(scenario), Follows, Settled, NEW p \in Pool, Of("created", p, log) # {},
         NEW g \in BOOLEAN, GaugeHolds(p, g)
  PROVE  WhitelistShown(p, g)
<1>1. PICK C, both : C = Of("created", p, log) /\ both = \A side \in Side : OnChain(side)
  OBVIOUS
<1>2. BothWhitelisted <=> both
  <2>1. ASSUME NEW side \in Side PROVE Seen(Whitelisted(side)).on = OnChain(side)
    <3>1. <<Whitelisted(side), "on">> \in Cells
      BY DEF Cells
    <3> QED
      BY <3>1, CellSettled
  <2> QED
    BY <1>1, <2>1, BothSeen
<1>3. Due(Pair(p), "gauge") = {}
  BY NothingDue
<1>4. CASE g = BothWhitelisted
  BY <1>1, <1>2, <1>4 DEF WhitelistShown
<1>5. CASE ~g /\ \A n \in SetBy(Pair(p), "gauge"), m \in C : n < m
  <2>1. SetBy(Pair(p), "gauge") = Typed({"whitelist"})
    BY SetByPairs
  <2>2. C \subseteq Nat /\ \A n \in Typed({"whitelist"}) : n \in Nat
    BY <1>1, LogFacts DEF Of, Typed, IInv, Actors
  <2>3. Min(C) \in C
    BY <1>1, <2>2, LeastOf
  <2>4. PICK l : l = Min(C)
    OBVIOUS
  <2>5. \A n \in Typed({"whitelist"}) : ~(n > l)
    <3> TAKE n \in Typed({"whitelist"})
    <3>1. n \in Nat /\ l \in Nat /\ n < l
      BY <1>5, <2>1, <2>2, <2>3, <2>4
    <3> QED
      BY <3>1
  <2> QED
    BY <1>1, <1>5, <2>4, <2>5 DEF WhitelistShown
<1> QED
  BY <1>1, <1>3, <1>4, <1>5 DEF GaugeHolds

LEMMA PairSettled ==
  ASSUME IInv, log \in Logs(scenario), Follows, Settled, NEW p \in Pool, Of("created", p, log) # {},
         Pair(p) \notin raced
  PROVE  /\ [c \in DOMAIN NoFee |-> rows[Pair(p)][c]] = ChainFee(p)
         /\ WhitelistShown(p, rows[Pair(p)].gauge)
<1>1. Row(Pair(p)) # NoRow
  <2> SUFFICES ASSUME Row(Pair(p)) = NoRow PROVE FALSE
    OBVIOUS
  <2>1. NoneTo(Pair(p), "created")
    BY AbsentDue
  <2> QED
    BY <2>1, NothingDue, SetByPairs
<1>2. PairHolds(p) /\ Pair(p) \in DOMAIN rows /\ scenario \in Scenarios /\ Rows
  BY <1>1 DEF Follows, Row, IInv, Actors
<1>3. FeeHolds(p, FeeOf(rows[Pair(p)])) /\ GaugeHolds(p, rows[Pair(p)].gauge)
  BY <1>1, <1>2 DEF PairHolds
<1>4. rows[Pair(p)].gauge \in BOOLEAN
  BY <1>2, PairThere DEF PairRow
<1> QED
  BY <1>3, <1>4, FeeSettled, GaugeSettled DEF FeeOf

(***************************************************************************)
(* Once the consumer has handled the log and the replay tool is at rest,   *)
(* the fee of every pool, the curve it comes from, the defaults, the       *)
(* discount and what is said of a pair's tokens are as the chain has set   *)
(* them last: SwapLiquidityGraphService, DynamicSwapFeeReadModelService    *)
(* and the whitelist of BrokerAppService, over every interleaving with the *)
(* cron and the administrators, over restarts, repeated deliveries and     *)
(* replays of a suffix.                                                    *)
(***************************************************************************)
THEOREM SettingsFollow == Spec => []SettingsFollowChain
<1>1. IInv /\ FollowInv => SettingsFollowChain
  <2> SUFFICES ASSUME IInv, FollowInv, Settled, ~dropped, ~unordered
               PROVE  /\ \A p \in Pool :
                           /\ Shown(Curve(p), NoCurve) = ChainCurve(p)
                           /\ Of("created", p, log) # {} /\ Pair(p) \notin raced =>
                                /\ [c \in DOMAIN NoFee |-> rows[Pair(p)][c]] = ChainFee(p)
                                /\ WhitelistShown(p, rows[Pair(p)].gauge)
                      /\ Shown(Defaults, [value |-> Unset]).value = LastSet(Typed({"default"}))
                      /\ Shown(Discount, [value |-> Unset]).value =
                           LastSet(Typed({"discount", "undiscount"}))
    BY DEF SettingsFollowChain
  <2>1. log \in Logs(scenario) /\ Follows
    BY DEF FollowInv, Calm
  <2>2. /\ <<Defaults, "value">> \in Cells /\ <<Discount, "value">> \in Cells
        /\ Defaults[1] # "whitelisted" /\ Discount[1] # "whitelisted"
        /\ Blank(Defaults) = [value |-> Unset] /\ Blank(Discount) = [value |-> Unset]
    BY DEF Cells, Defaults, Discount, Blank
  <2>3. /\ Seen(Defaults)["value"] = LastSet(Typed({"default"}))
        /\ Seen(Discount)["value"] = LastSet(Typed({"discount", "undiscount"}))
    BY <2>1, <2>2, CellSettled, SetByCells
  <2>4. /\ Shown(Defaults, [value |-> Unset]).value = LastSet(Typed({"default"}))
        /\ Shown(Discount, [value |-> Unset]).value = LastSet(Typed({"discount", "undiscount"}))
    BY <2>2, <2>3 DEF Seen
  <2> QED
    BY <2>1, <2>4, CurveSettled, PairSettled
<1> QED
  BY <1>1, FollowsAlways, PTL
=============================================================================
