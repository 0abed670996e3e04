------------------------- MODULE ReadModels_proofs --------------------------
(***************************************************************************)
(* The types of the read models' rows, that each column has its writer and *)
(* that a day volume never exceeds the candle of its day, for any log, any *)
(* scenario and any number of pools and resolutions.                       *)
(***************************************************************************)
EXTENDS ReadModels, FiniteSetTheorems, SequenceTheorems, WellFoundedInduction, TLAPS

(***************************************************************************)
(* The form of what an actor has yet to run.  Of p, whose first statement  *)
(* may be about the row in hand: each load is followed by the edit it is   *)
(* for, each other edit follows its load, and what a load passes over does *)
(* not end within such a couple.                                           *)
(***************************************************************************)
Tagged(s) == "rollup" \in DOMAIN s
Loads(s) == s.op = "find"
Stores(s) == s.op \in {"save", "set"}

\* The edits of a row that exists.
Needy(s) == s.op = "set" \/ s.edit.of \in {"mintPair", "mintUsd", "backfill", "measure", "list", "count"}

Sequence(p) == Len(p) \in Nat /\ p = [i \in 1..Len(p) |-> p[i]]

Couples(p) ==
  /\ \A i \in 1..Len(p) :
       Loads(p[i]) =>
         /\ i < Len(p) /\ Stores(p[i + 1]) /\ p[i + 1].key = p[i].key
         /\ (Tagged(p[i + 1]) <=> Tagged(p[i])) /\ "beside" \notin DOMAIN p[i]
         /\ Needy(p[i + 1]) => p[i].skip > 0
         /\ p[i].skip > 0 => i + p[i].skip <= Len(p) /\ ~Loads(p[i + p[i].skip])
  /\ \A i \in 1..Len(p) :
       i > 1 => p[i].op \notin {"write", "candle"} /\ (Stores(p[i]) => Loads(p[i - 1]))

(***************************************************************************)
(* At most one swap is in an actor's hands, and its candle comes first.    *)
(***************************************************************************)
Trade(s) == s.op = "save" /\ s.edit.of = "tradeToken"

Asks(s, what) == s.op = "query" /\ s.of = what
Swaps(s) == Trade(s) \/ Asks(s, "trade")

OneTrade(p) ==
  \A i, j \in 1..Len(p) :
    /\ Swaps(p[i]) /\ Swaps(p[j]) => i = j
    /\ Swaps(p[j]) => ~Asks(p[i], "candles")
    /\ Trade(p[j]) /\ p[i].op = "candle" => p[i].count = 1 /\ p[i].day = p[j].edit.day

(***************************************************************************)
(* The values: statements of actor a.                                      *)
(***************************************************************************)
Days == 0..scenario.days
TiersRow == [volatile : FeeBps \cup {Unset}, stable : FeeBps \cup {Unset}]

Profile(k) == k[1] = "pair" \/ k = SpotToken \/ IsBucket(k)

Fits(k, r) ==
  /\ k[1] = "pair" => r \in PairRow(scenario.days)
  /\ k = SpotToken => r \in TokenRow(scenario.days)
  /\ IsBucket(k) => r \in BucketRow
  /\ k = Tiers => r \in TiersRow

\* Columns that fit.
Amends(k, patch) == \A r : Fits(k, r) => Fits(k, Over(patch, r))

QueryFits(q) ==
  /\ q.of \in {"tier", "custom", "mint", "claim", "swap", "trade", "candles", "backfill", "measure"}
  /\ q.of \in {"tier", "custom", "mint", "claim", "swap"} => q.pool \in Pool
  /\ q.of = "tier" => ~CL(q.pool)
  /\ q.of = "custom" => q.bps \in FeeBps
  /\ q.of \in {"mint", "trade", "candles", "measure"} => q.day \in 1..now
  /\ q.of = "mint" /\ CL(q.pool) => q.lo \in Int /\ q.hi \in Int

EditFits(k, e) ==
  /\ k[1] = "pair" => e.of \in {"minimal", "mintPair", "mintUsd", "tradePair", "list"}
  /\ k = SpotToken => e.of \in {"tokenInfo", "mintToken", "tradeToken", "backfill", "measure", "list"}
  /\ IsBucket(k) => e.of = "bump" /\ e.delta \in BucketRow
  /\ k # Tiers
  /\ e.of = "minimal" => e.pool \in Pool
  /\ e.of \in {"mintPair", "tradePair", "mintToken", "tradeToken", "measure"} => e.day \in 1..now
  /\ e.of \in {"tradeToken", "measure"} => k = SpotToken
  /\ e.of = "measure" => e.volume \in Nat
  /\ e.of = "list" => e.listed \in BOOLEAN

StatementFits(a, s) ==
  /\ s.op \in {"query", "find", "save", "write", "set", "upsert", "update", "compute", "delete",
               "candle", "raise"}
  /\ s.op = "query" => QueryFits(s) /\ (s.of = "measure" => a \in Cron)
  /\ s.op = "find" => s.skip \in Nat
  /\ s.op \in {"find", "save", "write", "set"} => s.key # Discount
  /\ s.op = "save" => /\ EditFits(s.key, s.edit) /\ (s.edit.of = "list" => a = "admin")
                      /\ s.edit.of = "measure" => a \in Cron
  /\ s.op = "write" =>
       /\ s.key # Tiers
       /\ IF s.insert THEN Fits(s.key, s.patch)
          ELSE Amends(s.key, s.patch) /\ (Profile(s.key) => Row(s.key) # NoRow)
  /\ s.op = "set" => s.key[1] = "pair" /\ s.cols = {"liquidity", "price"} /\ s.edit = [of |-> "swap"]
  /\ s.op = "upsert" =>
       /\ s.key[1] # "pair" /\ s.key # SpotToken /\ ~IsBucket(s.key)
       /\ Fits(s.key, s.new) /\ Amends(s.key, s.patch)
  /\ s.op = "update" =>
       /\ \A k \in s.keys : k[1] = "pair" /\ Amends(k, s.patch)
       /\ DOMAIN s.patch \cap {"dayTvl", "day"} = {}
       /\ "listed" \in DOMAIN s.patch => a = "admin"
  /\ s.op = "compute" => \/ s.keys = {Account}
                         \/ (\A k \in s.keys : k[1] = "pair") /\ s.expr = [of |-> "gauge"]
  /\ s.op = "delete" => s.key = Discount
  /\ s.op = "candle" => /\ s.day \in 1..now /\ s.count \in Nat
                        /\ ~Tagged(s) /\ "beside" \notin DOMAIN s

\* What a may have to run, and what it may be given to run next.
Program(a, p) ==
  Sequence(p) /\ Couples(p) /\ OneTrade(p) /\ \A i \in 1..Len(p) : StatementFits(a, p[i])
Opens(p) == p = << >> \/ p[1].op \notin {"save", "set", "write", "candle"}
Quiet(p) == \A i \in 1..Len(p) : ~Swaps(p[i]) /\ ~Asks(p[i], "candles") /\ p[i].op # "candle"
Plain(a, p) == Program(a, p) /\ Opens(p) /\ Quiet(p)

(***************************************************************************)
(* The row in hand: the one the next statement is about, and none else;    *)
(* as it is in the table unless it was raced on.                           *)
(***************************************************************************)
At(a, ops) == todo[a] # << >> /\ S(a).op \in ops

Holding(a) ==
  IF At(a, {"save", "set", "write"})
    THEN /\ held[a].key = S(a).key
         /\ held[a].row = NoRow \/ Fits(held[a].key, held[a].row)
         /\ held[a].row # NoRow /\ Profile(held[a].key) => Row(held[a].key) # NoRow
         /\ ~At(a, {"write"}) /\ Needy(S(a)) => held[a].row # NoRow
         /\ held[a].key \notin raced => held[a].row = Row(held[a].key)
  ELSE held[a] = NoHold

\* What a write makes of its row.
Result(a) == Patched(S(a).patch, Row(S(a).key))

OwnResult(a) ==
  At(a, {"write"}) /\ S(a).key \notin raced /\ Row(S(a).key) # NoRow
     /\ (S(a).key[1] = "pair" \/ S(a).key = SpotToken) =>
    LET old == Row(S(a).key) IN
    /\ Result(a).listed # old.listed => a = "admin"
    /\ Result(a).dayTvl < old.dayTvl => Result(a).day # old.day

(***************************************************************************)
(* The day volume.                                                         *)
(***************************************************************************)
Owes(a, d) ==
  /\ todo[a] # << >> /\ S(a).op # "candle"
  /\ \E i \in 1..Len(todo[a]) : Trade(todo[a][i]) /\ todo[a][i].edit.day = d
Owing(d) == Cardinality({a \in Actor : Owes(a, d)})

Room(d) == IF d \in DOMAIN candle THEN candle[d] ELSE 0
Late(d) == d \notin DOMAIN candle /\ \E e \in DOMAIN candle : d < e
Volume(row, d) == IF row = NoRow \/ row.day # d THEN 0 ELSE row.dayVol

Candled ==
  /\ candle = << >> \/ \E lo, hi \in 1..now : lo <= hi /\ DOMAIN candle = lo..hi
  /\ \A d \in DOMAIN candle : candle[d] \in Nat

\* What a statement copies from the candle, and what the row would then hold.
Copies(s) == s.op = "save" /\ s.edit.of = "measure"
CopiesFit(p, d, n) ==
  \A i \in 1..Len(p) : Copies(p[i]) /\ p[i].edit.day = d => p[i].edit.volume \in 0..n
Storing(a) == At(a, {"write"}) /\ S(a).key = SpotToken

\* What the candle leaves to the row.
Free(d) == Room(d) - Owing(d)

Covered ==
  ~ahead =>
    \A d \in Days :
      ~Late(d) =>
        /\ \A a \in Actor : CopiesFit(todo[a], d, Free(d))
        /\ SpotToken \notin raced =>
             /\ Volume(Row(SpotToken), d) \in 0..Free(d)
             /\ \A a \in Actor : Storing(a) => Volume(Result(a), d) \in 0..Free(d)

(***************************************************************************)
(* The log and the actors.                                                 *)
(***************************************************************************)
EventFits(e) ==
  /\ {"type", "day"} \subseteq DOMAIN e /\ e.type \in EventTypes /\ e.day \in 1..scenario.days
  /\ e.type \in {"created", "customFee", "moduleFee", "capSet", "feeReset", "mint", "swap", "gauge",
                 "claim", "stake"} => "pool" \in DOMAIN e /\ e.pool \in Pool
  /\ e.type \in {"setFee", "customFee", "moduleFee", "capSet", "default", "discount"} =>
       "bps" \in DOMAIN e /\ e.bps \in FeeBps
  /\ e.type = "created" => "info" \in DOMAIN e /\ e.info \in BOOLEAN
  /\ e.type = "setFee" => "class" \in DOMAIN e /\ e.class \in {"volatile", "stable"}
  /\ e.type = "mint" /\ CL(e.pool) => {"lo", "hi"} \subseteq DOMAIN e /\ e.lo \in Int /\ e.hi \in Int

Actors ==
  /\ scenario \in Scenarios /\ now \in 1..scenario.days /\ next \in Nat \ {0}
  /\ DOMAIN log = DOMAIN scenario.shape
  /\ \A n \in DOMAIN log : EventFits(log[n])
  /\ started \in [DOMAIN log -> Nat]
  /\ \A n \in Stored : log[n].day <= now
  /\ at \in [Actor -> {0} \cup Stored] /\ at["consumer"] \in {0, next}
  /\ selected \subseteq Stored
  /\ DOMAIN todo = Actor /\ DOMAIN held = Actor

Rows == \A k \in DOMAIN rows : Fits(k, rows[k])

IInv ==
  /\ Actors /\ Rows /\ Candled /\ Covered
  /\ \A a \in Actor : Program(a, todo[a]) /\ Holding(a) /\ OwnResult(a)
-----------------------------------------------------------------------------
(* Sequences.                                                              *)

LEMMA SequenceIsSeq ==
  ASSUME NEW p, Sequence(p), NEW T, \A i \in 1..Len(p) : p[i] \in T
  PROVE  p \in Seq(T)
<1>1. Len(p) \in Nat /\ p = [i \in 1..Len(p) |-> p[i]]
  BY DEF Sequence
<1>2. [i \in 1..Len(p) |-> p[i]] \in [1..Len(p) -> T]
  OBVIOUS
<1> QED
  BY <1>1, <1>2

LEMMA SeqIsSequence ==
  ASSUME NEW T, NEW p \in Seq(T)
  PROVE  Sequence(p)
BY DEF Sequence

\* A sequence given as a function.
LEMMA MadeSequence ==
  ASSUME NEW n \in Nat, NEW p, p = [i \in 1..n |-> p[i]]
  PROVE  Sequence(p) /\ Len(p) = n
<1> DEFINE T == {p[i] : i \in 1..n}
<1>1. p \in [1..n -> T]
  <2>1. [i \in 1..n |-> p[i]] \in [1..n -> T]
    OBVIOUS
  <2> QED
    BY <2>1
<1>2. p \in Seq(T) /\ DOMAIN p = 1..n
  BY <1>1
<1>3. Len(p) = n
  BY <1>2
<1> QED
  BY <1>2, <1>3, SeqIsSequence

LEMMA Joined ==
  ASSUME NEW p, NEW r, Sequence(p), Sequence(r)
  PROVE  /\ Sequence(p \o r) /\ Len(p \o r) = Len(p) + Len(r)
         /\ \A i \in 1..Len(p) : (p \o r)[i] = p[i]
         /\ \A i \in 1..Len(r) : (p \o r)[Len(p) + i] = r[i]
<1> DEFINE T == {p[i] : i \in 1..Len(p)} \cup {r[i] : i \in 1..Len(r)}
<1>1. p \in Seq(T) /\ r \in Seq(T)
  <2>1. \A i \in 1..Len(p) : p[i] \in T
    OBVIOUS
  <2>2. \A i \in 1..Len(r) : r[i] \in T
    OBVIOUS
  <2> HIDE DEF T
  <2> QED
    BY <2>1, <2>2, SequenceIsSeq
<1> HIDE DEF T
<1>2. p \o r \in Seq(T)
  BY <1>1
<1>3. Sequence(p \o r)
  BY <1>2, SeqIsSequence
<1> QED
  BY <1>1, <1>3

LEMMA Suffix ==
  ASSUME NEW p, Sequence(p), NEW k \in 0..Len(p), NEW q, q = SubSeq(p, k + 1, Len(p))
  PROVE  /\ Sequence(q) /\ Len(q) = Len(p) - k
         /\ \A i \in 1..Len(q) : q[i] = p[k + i]
<1> DEFINE T == {p[i] : i \in 1..Len(p)}
<1>1. p \in Seq(T)
  <2>1. \A i \in 1..Len(p) : p[i] \in T
    OBVIOUS
  <2> HIDE DEF T
  <2> QED
    BY <2>1, SequenceIsSeq
<1> HIDE DEF T
<1>2. Len(p) \in Nat
  BY DEF Sequence
<1>3. q \in Seq(T)
  BY <1>1, <1>2
<1>4. Sequence(q)
  BY <1>3, SeqIsSequence
<1> QED
  BY <1>1, <1>2, <1>4

LEMMA TailIsSuffix ==
  ASSUME NEW p, Sequence(p), p # << >>
  PROVE  /\ Sequence(Tail(p)) /\ Len(Tail(p)) = Len(p) - 1 /\ Len(p) >= 1 /\ Head(p) = p[1]
         /\ \A i \in 1..Len(Tail(p)) : Tail(p)[i] = p[1 + i]
<1> DEFINE T == {p[i] : i \in 1..Len(p)}
<1>1. p \in Seq(T)
  <2>1. \A i \in 1..Len(p) : p[i] \in T
    OBVIOUS
  <2> HIDE DEF T
  <2> QED
    BY <2>1, SequenceIsSeq
<1> HIDE DEF T
<1>2. Tail(p) \in Seq(T)
  BY <1>1
<1>3. Sequence(Tail(p))
  BY <1>2, SeqIsSequence
<1> QED
  BY <1>1, <1>3

LEMMA EmptyIsSequence == Sequence(<< >>) /\ Len(<< >>) = 0
<1>1. << >> \in Seq({})
  OBVIOUS
<1> QED
  BY <1>1, SeqIsSequence

LEMMA EmptyOnly ==
  ASSUME NEW p, Sequence(p)
  PROVE  p = << >> <=> Len(p) = 0
<1> DEFINE T == {p[i] : i \in 1..Len(p)}
<1>1. p \in Seq(T)
  <2>1. \A i \in 1..Len(p) : p[i] \in T
    OBVIOUS
  <2> HIDE DEF T
  <2> QED
    BY <2>1, SequenceIsSeq
<1> HIDE DEF T
<1> QED
  BY <1>1
-----------------------------------------------------------------------------
(* Programs: what is left of one, and one after another.                   *)

LEMMA SuffixProgram ==
  ASSUME NEW a, NEW p, Program(a, p), NEW k \in 0..Len(p), NEW q,
         Sequence(q), Len(q) = Len(p) - k, \A i \in 1..Len(q) : q[i] = p[k + i]
  PROVE  /\ Program(a, q) /\ (Quiet(p) => Quiet(q))
         /\ k > 0 => \A i \in 1..Len(q) : q[i].op \notin {"write", "candle"}
         /\ k > 0 /\ ~Loads(p[k]) => Opens(q)
<1>1. Len(p) \in Nat /\ Len(q) \in Nat /\ \A i \in 1..Len(q) : k + i \in 1..Len(p)
  BY DEF Program, Sequence
<1>2. Couples(q)
  <2>1. ASSUME NEW i \in 1..Len(q), Loads(q[i])
        PROVE  /\ i < Len(q) /\ Stores(q[i + 1]) /\ q[i + 1].key = q[i].key
               /\ (Tagged(q[i + 1]) <=> Tagged(q[i])) /\ "beside" \notin DOMAIN q[i]
               /\ Needy(q[i + 1]) => q[i].skip > 0
               /\ q[i].skip > 0 => i + q[i].skip <= Len(q) /\ ~Loads(q[i + q[i].skip])
    <3>1. q[i] = p[k + i] /\ Loads(p[k + i]) /\ k + i \in 1..Len(p)
      BY <1>1, <2>1
    <3>2. k + i < Len(p)
      BY <3>1 DEF Program, Couples
    <3>3. i + 1 \in 1..Len(q) /\ q[i + 1] = p[(k + i) + 1]
      BY <1>1, <3>2
    <3>4. q[i].skip \in Nat
      BY <3>1 DEF Program, StatementFits, Loads
    <3>5. ASSUME q[i].skip > 0 PROVE i + q[i].skip <= Len(q) /\ ~Loads(q[i + q[i].skip])
      <4>1. (k + i) + q[i].skip <= Len(p) /\ ~Loads(p[(k + i) + q[i].skip])
        BY <3>1, <3>5 DEF Program, Couples
      <4>2. i + q[i].skip \in 1..Len(q) /\ q[i + q[i].skip] = p[(k + i) + q[i].skip]
        <5>1. i + q[i].skip \in 1..Len(q)
          BY <1>1, <3>4, <4>1
        <5> HIDE <1>1
        <5>2. q[i + q[i].skip] = p[k + (i + q[i].skip)]
          BY <5>1
        <5> QED
          BY <3>4, <5>1, <5>2
      <4> QED
        BY <4>1, <4>2
    <3> QED
      BY <3>1, <3>2, <3>3, <3>5, <1>1 DEF Program, Couples
  <2>2. ASSUME NEW i \in 1..Len(q), i > 1
        PROVE  q[i].op \notin {"write", "candle"} /\ (Stores(q[i]) => Loads(q[i - 1]))
    <3>1. q[i] = p[k + i] /\ q[i - 1] = p[(k + i) - 1] /\ k + i \in 1..Len(p) /\ k + i > 1
      <4>1. i - 1 \in 1..Len(q)
        BY <2>2, <1>1
      <4>2. q[i - 1] = p[k + (i - 1)] /\ k + (i - 1) = (k + i) - 1
        BY <4>1
      <4> QED
        BY <1>1, <2>2, <4>2
    <3> QED
      BY <3>1 DEF Program, Couples
  <2> QED
    BY <2>1, <2>2 DEF Couples
<1>3. OneTrade(q)
  <2> SUFFICES ASSUME NEW i \in 1..Len(q), NEW j \in 1..Len(q)
               PROVE  /\ Swaps(q[i]) /\ Swaps(q[j]) => i = j
                      /\ Swaps(q[j]) => ~Asks(q[i], "candles")
                      /\ Trade(q[j]) /\ q[i].op = "candle" => q[i].count = 1 /\ q[i].day = q[j].edit.day
    BY DEF OneTrade
  <2>1. q[i] = p[k + i] /\ q[j] = p[k + j] /\ k + i \in 1..Len(p) /\ k + j \in 1..Len(p)
    BY <1>1
  <2>2. k + i = k + j => i = j
    BY <1>1
  <2> QED
    BY <2>1, <2>2 DEF Program, OneTrade
<1>4. \A i \in 1..Len(q) : StatementFits(a, q[i])
  BY <1>1 DEF Program
<1>5. Quiet(p) => Quiet(q)
  BY <1>1 DEF Quiet
<1>6. ASSUME k > 0 PROVE \A i \in 1..Len(q) : q[i].op \notin {"write", "candle"}
  <2>1. \A i \in 1..Len(q) : q[i] = p[k + i] /\ k + i \in 1..Len(p) /\ k + i > 1
    BY <1>1, <1>6
  <2> QED
    BY <2>1 DEF Program, Couples
<1>7. ASSUME k > 0, ~Loads(p[k]) PROVE Opens(q)
  <2>1. CASE Len(q) = 0
    BY <2>1, EmptyOnly DEF Opens
  <2>2. CASE Len(q) # 0
    <3>1. 1 \in 1..Len(q) /\ q[1] = p[k + 1] /\ k + 1 \in 1..Len(p) /\ k + 1 > 1 /\ (k + 1) - 1 = k
      BY <1>1, <1>7, <2>2
    <3>2. ~Stores(q[1]) /\ q[1].op \notin {"write", "candle"}
      BY <1>7, <3>1 DEF Program, Couples
    <3> QED
      BY <3>2 DEF Opens, Stores
  <2> QED
    BY <2>1, <2>2
<1> QED
  BY <1>2, <1>3, <1>4, <1>5, <1>6, <1>7 DEF Program

\* Between two programs: no swap in both, none before a candle of no swap.
Apart(p, r) ==
  \A i \in 1..Len(p), j \in 1..Len(r) :
    /\ Swaps(p[i]) => ~Swaps(r[j]) /\ ~Asks(r[j], "candles")
    /\ Swaps(r[j]) => ~Asks(p[i], "candles")
    /\ Trade(r[j]) /\ p[i].op = "candle" => p[i].count = 1 /\ p[i].day = r[j].edit.day

LEMMA JoinedProgram ==
  ASSUME NEW a, NEW p, NEW r, Program(a, p), Program(a, r), Opens(r), Apart(p, r)
  PROVE  /\ Program(a, p \o r)
         /\ Opens(p) => Opens(p \o r)
         /\ Quiet(p) /\ Quiet(r) => Quiet(p \o r)
<1> DEFINE q == p \o r
<1>1. /\ Sequence(q) /\ Len(q) = Len(p) + Len(r) /\ Len(p) \in Nat /\ Len(r) \in Nat
      /\ \A i \in 1..Len(p) : q[i] = p[i]
      /\ \A i \in 1..Len(r) : q[Len(p) + i] = r[i]
  BY Joined DEF Program, Sequence
<1> HIDE DEF q
<1>2. \A i \in 1..Len(q) : \/ i \in 1..Len(p) /\ q[i] = p[i]
                           \/ i - Len(p) \in 1..Len(r) /\ q[i] = r[i - Len(p)]
  <2> TAKE i \in 1..Len(q)
  <2>1. CASE i <= Len(p)
    BY <1>1, <2>1
  <2>2. CASE i > Len(p)
    <3>1. i - Len(p) \in 1..Len(r) /\ Len(p) + (i - Len(p)) = i
      BY <1>1, <2>2
    <3> QED
      BY <1>1, <3>1
  <2> QED
    BY <1>1, <2>1, <2>2
<1>3. r = << >> \/ (~Stores(r[1]) /\ r[1].op \notin {"write", "candle"})
  BY DEF Opens, Stores
<1>4. \A i \in 1..Len(q) : StatementFits(a, q[i])
  BY <1>2 DEF Program
<1>5. Couples(q)
  <2>1. ASSUME NEW i \in 1..Len(q), Loads(q[i])
        PROVE  /\ i < Len(q) /\ Stores(q[i + 1]) /\ q[i + 1].key = q[i].key
               /\ (Tagged(q[i + 1]) <=> Tagged(q[i])) /\ "beside" \notin DOMAIN q[i]
               /\ Needy(q[i + 1]) => q[i].skip > 0
               /\ q[i].skip > 0 => i + q[i].skip <= Len(q) /\ ~Loads(q[i + q[i].skip])
    <3>1. q[i].skip \in Nat
      BY <1>4, <2>1 DEF StatementFits, Loads
    <3>2. CASE i \in 1..Len(p) /\ q[i] = p[i]
      <4>1. /\ i < Len(p) /\ Stores(p[i + 1]) /\ p[i + 1].key = p[i].key
            /\ (Tagged(p[i + 1]) <=> Tagged(p[i])) /\ "beside" \notin DOMAIN p[i]
            /\ Needy(p[i + 1]) => p[i].skip > 0
            /\ p[i].skip > 0 => i + p[i].skip <= Len(p) /\ ~Loads(p[i + p[i].skip])
        BY <2>1, <3>2 DEF Program, Couples
      <4>2. i + 1 \in 1..Len(p) /\ q[i + 1] = p[i + 1] /\ i < Len(q)
        BY <1>1, <3>2, <4>1
      <4>3. p[i].skip > 0 => i + p[i].skip \in 1..Len(p) /\ i + p[i].skip <= Len(q)
        BY <1>1, <3>1, <3>2, <4>1
      <4>4. p[i].skip > 0 => q[i + p[i].skip] = p[i + p[i].skip]
        BY <1>1, <4>3
      <4> QED
        BY <3>2, <4>1, <4>2, <4>3, <4>4
    <3>3. CASE i - Len(p) \in 1..Len(r) /\ q[i] = r[i - Len(p)]
      <4> DEFINE j == i - Len(p)
      <4>1. j \in 1..Len(r) /\ i = Len(p) + j /\ q[i] = r[j]
        BY <1>1, <3>3
      <4> HIDE DEF j
      <4>2. /\ j < Len(r) /\ Stores(r[j + 1]) /\ r[j + 1].key = r[j].key
            /\ (Tagged(r[j + 1]) <=> Tagged(r[j])) /\ "beside" \notin DOMAIN r[j]
            /\ Needy(r[j + 1]) => r[j].skip > 0
            /\ r[j].skip > 0 => j + r[j].skip <= Len(r) /\ ~Loads(r[j + r[j].skip])
        BY <2>1, <4>1 DEF Program, Couples
      <4>3. j + 1 \in 1..Len(r) /\ q[i + 1] = r[j + 1] /\ i < Len(q)
        <5>1. j + 1 \in 1..Len(r) /\ i + 1 = Len(p) + (j + 1) /\ i < Len(q)
          BY <1>1, <4>1, <4>2
        <5> QED
          BY <1>1, <5>1
      <4>4. ASSUME r[j].skip > 0
            PROVE  i + r[j].skip <= Len(q) /\ q[i + r[j].skip] = r[j + r[j].skip]
        <5>1. j + r[j].skip \in 1..Len(r) /\ i + r[j].skip = Len(p) + (j + r[j].skip)
          BY <1>1, <3>1, <4>1, <4>2, <4>4
        <5>2. i + r[j].skip <= Len(q)
          BY <1>1, <3>1, <4>1, <5>1
        <5> QED
          BY <1>1, <5>1, <5>2
      <4> QED
        BY <4>1, <4>2, <4>3, <4>4
    <3> QED
      BY <1>2, <3>2, <3>3
  <2>2. ASSUME NEW i \in 1..Len(q), i > 1
        PROVE  q[i].op \notin {"write", "candle"} /\ (Stores(q[i]) => Loads(q[i - 1]))
    <3>1. CASE i \in 1..Len(p) /\ q[i] = p[i]
      <4>1. i - 1 \in 1..Len(p) /\ q[i - 1] = p[i - 1]
        BY <1>1, <2>2, <3>1
      <4> QED
        BY <2>2, <3>1, <4>1 DEF Program, Couples
    <3>2. CASE i - Len(p) \in 1..Len(r) /\ q[i] = r[i - Len(p)]
      <4>1. CASE i - Len(p) = 1
        <5>1. r # << >>
          BY <1>1, <3>2, EmptyOnly DEF Program
        <5> QED
          BY <1>3, <3>2, <4>1, <5>1
      <4>2. CASE i - Len(p) > 1
        <5>1. (i - Len(p)) - 1 \in 1..Len(r) /\ Len(p) + ((i - Len(p)) - 1) = i - 1
          BY <1>1, <3>2, <4>2
        <5>2. q[i - 1] = r[(i - Len(p)) - 1]
          BY <1>1, <5>1
        <5> QED
          BY <3>2, <4>2, <5>2 DEF Program, Couples
      <4> QED
        BY <1>1, <3>2, <4>1, <4>2
    <3> QED
      BY <1>2, <3>1, <3>2
  <2> QED
    BY <2>1, <2>2 DEF Couples
<1>6. OneTrade(q)
  <2> SUFFICES ASSUME NEW i \in 1..Len(q), NEW j \in 1..Len(q)
               PROVE  /\ Swaps(q[i]) /\ Swaps(q[j]) => i = j
                      /\ Swaps(q[j]) => ~Asks(q[i], "candles")
                      /\ Trade(q[j]) /\ q[i].op = "candle" => q[i].count = 1 /\ q[i].day = q[j].edit.day
    BY DEF OneTrade
  <2>1. CASE i \in 1..Len(p) /\ q[i] = p[i] /\ j \in 1..Len(p) /\ q[j] = p[j]
    BY <2>1 DEF Program, OneTrade
  <2>2. CASE i \in 1..Len(p) /\ q[i] = p[i] /\ j - Len(p) \in 1..Len(r) /\ q[j] = r[j - Len(p)]
    BY <2>2 DEF Apart
  <2>3. CASE i - Len(p) \in 1..Len(r) /\ q[i] = r[i - Len(p)] /\ j \in 1..Len(p) /\ q[j] = p[j]
    <3>1. q[i].op # "candle"
      <4>1. CASE i > 1
        BY <1>5, <4>1 DEF Couples
      <4>2. CASE i = 1
        <5>1. i - Len(p) = 1
          BY <1>1, <2>3, <4>2
        <5> QED
          BY <1>1, <1>3, <2>3, <5>1, EmptyOnly DEF Program
      <4> QED
        BY <4>1, <4>2
    <3> QED
      BY <2>3, <3>1 DEF Apart
  <2>4. CASE /\ i - Len(p) \in 1..Len(r) /\ q[i] = r[i - Len(p)]
             /\ j - Len(p) \in 1..Len(r) /\ q[j] = r[j - Len(p)]
    <3>1. i - Len(p) = j - Len(p) => i = j
      BY <1>1
    <3> QED
      BY <2>4, <3>1 DEF Program, OneTrade
  <2> QED
    BY <1>2, <2>1, <2>2, <2>3, <2>4
<1>7. ASSUME Opens(p) PROVE Opens(q)
  <2>1. CASE p = << >>
    <3>1. Len(p) = 0
      BY <2>1, EmptyOnly DEF Program
    <3>2. Len(q) = Len(r) /\ (Len(r) # 0 => q[1] = r[1])
      BY <1>1, <3>1
    <3> QED
      BY <1>1, <3>2, EmptyOnly DEF Opens, Program
  <2>2. CASE p # << >>
    <3>1. 1 \in 1..Len(p)
      BY <1>1, <2>2, EmptyOnly DEF Program
    <3> QED
      BY <1>1, <1>7, <2>2, <3>1 DEF Opens
  <2> QED
    BY <2>1, <2>2
<1>8. Quiet(p) /\ Quiet(r) => Quiet(q)
  BY <1>2 DEF Quiet
<1>9. Program(a, q)
  BY <1>1, <1>4, <1>5, <1>6 DEF Program
<1> QED
  BY <1>7, <1>8, <1>9 DEF q

LEMMA JoinedPlain ==
  ASSUME NEW a, NEW p, NEW r, Plain(a, p), Plain(a, r)
  PROVE  Plain(a, p \o r)
<1>1. Apart(p, r)
  BY DEF Plain, Apart, Quiet
<1> QED
  BY <1>1, JoinedProgram DEF Plain

\* Given in the place of a query.
LEMMA PlainFirst ==
  ASSUME NEW a, NEW p, NEW r, Plain(a, p), Program(a, r), Opens(r)
  PROVE  Program(a, p \o r) /\ Opens(p \o r)
<1>1. Apart(p, r)
  BY DEF Plain, Apart, Quiet
<1> QED
  BY <1>1, JoinedProgram DEF Plain
-----------------------------------------------------------------------------
(* The statements programs are made of.                                    *)

LEMMA OverColumn ==
  ASSUME NEW f, NEW g, NEW c \in DOMAIN f \cup DOMAIN g
  PROVE  Over(f, g)[c] = (IF c \in DOMAIN f THEN f[c] ELSE g[c]) /\ DOMAIN Over(f, g) = DOMAIN f \cup DOMAIN g
BY DEF Over

LEMMA OnePlain ==
  ASSUME NEW a, NEW s, StatementFits(a, s), s.op \notin {"find", "save", "set", "write", "candle"},
         s.op = "query" => s.of \notin {"trade", "candles"}
  PROVE  Plain(a, << s >>)
<1>1. Sequence(<< s >>) /\ Len(<< s >>) = 1 /\ << s >>[1] = s
  <2>1. << s >> \in Seq({s})
    OBVIOUS
  <2> QED
    BY <2>1, SeqIsSequence
<1>2. Couples(<< s >>)
  BY <1>1 DEF Couples, Loads
<1>3. Quiet(<< s >>)
  BY <1>1 DEF Quiet, Swaps, Trade, Asks
<1>4. OneTrade(<< s >>)
  BY <1>1, <1>3 DEF OneTrade, Quiet
<1> QED
  BY <1>1, <1>2, <1>3, <1>4 DEF Plain, Program, Opens

\* Finds and saves in turn.
LEMMA FindFits ==
  ASSUME NEW a, NEW s, s.op = "find", s.skip \in Nat, s.key # Discount
  PROVE  StatementFits(a, s)
BY DEF StatementFits

LEMMA TurnsProgram ==
  ASSUME NEW a, NEW n \in Nat, NEW p, Sequence(p), Len(p) = 2 * n,
         \A j \in 1..n :
           /\ p[2 * j - 1].op = "find" /\ p[2 * j - 1].skip = 0
           /\ p[2 * j].op = "save" /\ StatementFits(a, p[2 * j]) /\ ~Needy(p[2 * j])
           /\ p[2 * j].edit.of # "tradeToken" /\ p[2 * j].key = p[2 * j - 1].key
           /\ (Tagged(p[2 * j]) <=> Tagged(p[2 * j - 1])) /\ "beside" \notin DOMAIN p[2 * j - 1]
  PROVE  Plain(a, p)
<1>1. \A i \in 1..Len(p) : \E j \in 1..n : i = 2 * j - 1 \/ i = 2 * j
  <2> TAKE i \in 1..Len(p)
  <2>1. (i + 1) \div 2 \in 1..n /\ (i = 2 * ((i + 1) \div 2) - 1 \/ i = 2 * ((i + 1) \div 2))
    OBVIOUS
  <2> QED
    BY <2>1
<1>2. \A i \in 1..Len(p) : StatementFits(a, p[i]) /\ p[i].op \in {"find", "save"}
  <2> TAKE i \in 1..Len(p)
  <2>1. PICK j \in 1..n : i = 2 * j - 1 \/ i = 2 * j
    BY <1>1
  <2>2. /\ StatementFits(a, p[2 * j]) /\ p[2 * j].op = "save" /\ p[2 * j - 1].op = "find"
        /\ p[2 * j - 1].skip = 0 /\ p[2 * j].key = p[2 * j - 1].key
    OBVIOUS
  <2>3. StatementFits(a, p[2 * j - 1])
    <3>1. p[2 * j].key # Discount
      BY <2>2 DEF StatementFits
    <3>2. p[2 * j - 1].skip \in Nat /\ p[2 * j - 1].key # Discount
      BY ONLY <2>2, <3>1
    <3> QED
      BY <2>2, <3>2, FindFits
  <2> QED
    BY <2>1, <2>2, <2>3
<1>3. ASSUME NEW i \in 1..Len(p), Loads(p[i])
      PROVE  /\ i < Len(p) /\ Stores(p[i + 1]) /\ p[i + 1].key = p[i].key
             /\ (Tagged(p[i + 1]) <=> Tagged(p[i])) /\ "beside" \notin DOMAIN p[i]
             /\ ~Needy(p[i + 1]) /\ p[i].skip = 0
  <2>1. PICK j \in 1..n : i = 2 * j - 1 \/ i = 2 * j
    BY <1>1
  <2>2. i = 2 * j - 1
    BY <1>3, <2>1 DEF Loads
  <2>3. i + 1 = 2 * j /\ i < Len(p)
    BY <2>2
  <2> QED
    BY <2>2, <2>3 DEF Stores
<1>4. ASSUME NEW i \in 1..Len(p), i > 1 PROVE Stores(p[i]) => Loads(p[i - 1])
  <2>1. PICK j \in 1..n : i = 2 * j - 1 \/ i = 2 * j
    BY <1>1
  <2> QED
    BY <2>1 DEF Stores, Loads
<1>5. Couples(p)
  <2>1. \A i \in 1..Len(p) : p[i].op \notin {"write", "candle"}
    BY <1>2
  <2>2. \A i \in 1..Len(p) : Loads(p[i]) => ~(p[i].skip > 0)
    BY <1>3
  <2> QED
    BY <1>3, <1>4, <2>1, <2>2 DEF Couples
<1>6. Quiet(p)
  <2> SUFFICES ASSUME NEW i \in 1..Len(p)
               PROVE  ~Swaps(p[i]) /\ ~Asks(p[i], "candles") /\ p[i].op # "candle"
    BY DEF Quiet
  <2>1. PICK j \in 1..n : i = 2 * j - 1 \/ i = 2 * j
    BY <1>1
  <2> QED
    BY <2>1 DEF Swaps, Trade, Asks
<1>7. OneTrade(p)
  BY <1>6 DEF OneTrade, Quiet
<1>8. Opens(p)
  <2>1. CASE n = 0
    BY <2>1, EmptyOnly DEF Opens
  <2>2. CASE n # 0
    <3>1. 1 \in 1..n /\ 2 * 1 - 1 = 1
      BY <2>2
    <3>2. p[1].op = "find"
      BY <3>1
    <3> QED
      BY <3>2 DEF Opens
  <2> QED
    BY <2>1, <2>2
<1> QED
  BY <1>2, <1>5, <1>6, <1>7, <1>8 DEF Plain, Program

LEMMA ChangePlain ==
  ASSUME NEW a, NEW k, NEW e, k # Discount, EditFits(k, e),
         e.of \notin {"mintPair", "mintUsd", "backfill", "measure", "list", "count", "tradeToken"}
  PROVE  Plain(a, Change(k, e))
<1> DEFINE p == Change(k, e)
<1>1. p = << Find(k), Save(k, e) >>
  BY DEF Change
<1>2. Sequence(p) /\ Len(p) = 2 * 1 /\ p[1] = Find(k) /\ p[2] = Save(k, e)
  <2>1. p \in Seq({Find(k), Save(k, e)})
    BY <1>1
  <2>2. Len(p) = 2 /\ p[1] = Find(k) /\ p[2] = Save(k, e)
    BY <1>1
  <2>3. Sequence(p)
    BY <2>1, SeqIsSequence
  <2> QED
    BY <2>2, <2>3
<1> HIDE DEF p
<1>3. \A j \in 1..1 : 2 * j - 1 = 1 /\ 2 * j = 2
  OBVIOUS
<1>4. /\ p[1].op = "find" /\ p[1].skip = 0 /\ p[2].op = "save" /\ p[2].edit = e
      /\ p[1].key = k /\ p[2].key = k /\ ~Tagged(p[1]) /\ ~Tagged(p[2]) /\ "beside" \notin DOMAIN p[1]
  BY <1>2 DEF Find, Save, Tagged
<1>5. StatementFits(a, p[2]) /\ ~Needy(p[2])
  BY <1>4 DEF StatementFits, Needy
<1>6. \A j \in 1..1 :
        /\ p[2 * j - 1].op = "find" /\ p[2 * j - 1].skip = 0
        /\ p[2 * j].op = "save" /\ StatementFits(a, p[2 * j]) /\ ~Needy(p[2 * j])
        /\ p[2 * j].edit.of # "tradeToken" /\ p[2 * j].key = p[2 * j - 1].key
        /\ (Tagged(p[2 * j]) <=> Tagged(p[2 * j - 1])) /\ "beside" \notin DOMAIN p[2 * j - 1]
  BY <1>3, <1>4, <1>5
<1>7. Plain(a, p)
  <2>1. 1 \in Nat
    OBVIOUS
  <2> QED
    BY <1>2, <1>6, <2>1, TurnsProgram
<1> QED
  BY <1>7 DEF p

\* A row that must be there for what follows.
LEMMA NeedingPlain ==
  ASSUME NEW a, NEW s, NEW r, Plain(a, r), StatementFits(a, s), Stores(s), ~Tagged(s), ~Trade(s)
  PROVE  Plain(a, Needing(s.key, << s >> \o r))
<1> DEFINE f == [Find(s.key) EXCEPT !.skip = Len(<< s >> \o r)]
           p == << f >> \o (<< s >> \o r)
<1>1. Sequence(<< s >>) /\ Len(<< s >>) = 1 /\ << s >>[1] = s
  <2>1. << s >> \in Seq({s})
    OBVIOUS
  <2> QED
    BY <2>1, SeqIsSequence
<1>2. /\ Sequence(<< s >> \o r) /\ Len(<< s >> \o r) = 1 + Len(r) /\ (<< s >> \o r)[1] = s
      /\ \A i \in 1..Len(r) : (<< s >> \o r)[1 + i] = r[i]
  BY <1>1, Joined DEF Plain, Program
<1>3. /\ f.op = "find" /\ f.key = s.key /\ f.skip = 1 + Len(r) /\ DOMAIN f = {"op", "key", "skip"}
  BY <1>2 DEF Find
<1>4. Needing(s.key, << s >> \o r) = p
  BY DEF Needing
<1> HIDE DEF f
<1>5. Sequence(<< f >>) /\ Len(<< f >>) = 1 /\ << f >>[1] = f
  <2>1. << f >> \in Seq({f})
    OBVIOUS
  <2> QED
    BY <2>1, SeqIsSequence
<1>6. /\ Sequence(p) /\ Len(p) = 2 + Len(r) /\ Len(r) \in Nat /\ p[1] = f /\ p[2] = s
      /\ \A i \in 1..Len(r) : p[2 + i] = r[i]
  <2>1. /\ Sequence(p) /\ Len(p) = 1 + (1 + Len(r)) /\ p[1] = f /\ Len(r) \in Nat
        /\ \A i \in 1..Len(<< s >> \o r) : p[1 + i] = (<< s >> \o r)[i]
    BY <1>2, <1>5, Joined DEF Plain, Program, Sequence
  <2>2. p[1 + 1] = s
    BY <1>2, <2>1
  <2>3. ASSUME NEW i \in 1..Len(r) PROVE p[2 + i] = r[i]
    <3>1. 1 + i \in 1..Len(<< s >> \o r) /\ 1 + (1 + i) = 2 + i
      BY <1>2, <2>1
    <3>2. p[1 + (1 + i)] = (<< s >> \o r)[1 + i]
      BY <2>1, <3>1
    <3> QED
      BY <1>2, <3>1, <3>2
  <2> QED
    BY <2>1, <2>2, <2>3
<1> HIDE DEF p
<1>7. \A i \in 1..Len(p) : i = 1 \/ i = 2 \/ (i - 2 \in 1..Len(r) /\ p[i] = r[i - 2])
  <2> TAKE i \in 1..Len(p)
  <2>1. CASE i > 2
    <3>1. i - 2 \in 1..Len(r) /\ 2 + (i - 2) = i
      BY <1>6, <2>1
    <3> QED
      BY <1>6, <3>1
  <2> QED
    BY <1>6, <2>1
<1>8. \A i \in 1..Len(p) : StatementFits(a, p[i])
  <2>1. StatementFits(a, f)
    BY <1>3, <1>6 DEF StatementFits, Stores
  <2> QED
    BY <1>6, <1>7, <2>1 DEF Plain, Program
<1>9. Couples(p)
  <2>1. ASSUME NEW i \in 1..Len(p), Loads(p[i])
        PROVE  /\ i < Len(p) /\ Stores(p[i + 1]) /\ p[i + 1].key = p[i].key
               /\ (Tagged(p[i + 1]) <=> Tagged(p[i])) /\ "beside" \notin DOMAIN p[i]
               /\ Needy(p[i + 1]) => p[i].skip > 0
               /\ p[i].skip > 0 => i + p[i].skip <= Len(p) /\ ~Loads(p[i + p[i].skip])
    <3>1. CASE i = 1
      <4>1. ~Loads(p[2 + Len(r)])
        <5>1. CASE Len(r) = 0
          BY <1>6, <5>1 DEF Loads, Stores
        <5>2. CASE Len(r) # 0
          <6>1. Len(r) \in 1..Len(r) /\ p[2 + Len(r)] = r[Len(r)]
            BY <1>6, <5>2
          <6> QED
            BY <6>1 DEF Plain, Program, Couples
        <5> QED
          BY <5>1, <5>2
      <4>2. ~Tagged(f) /\ "beside" \notin DOMAIN f
        BY <1>3 DEF Tagged
      <4> QED
        BY <1>3, <1>6, <3>1, <4>1, <4>2 DEF Tagged
    <3>2. CASE i - 2 \in 1..Len(r) /\ p[i] = r[i - 2]
      <4> DEFINE j == i - 2
      <4>1. j \in 1..Len(r) /\ i = 2 + j /\ p[i] = r[j]
        BY <1>6, <3>2
      <4> HIDE DEF j
      <4>2. /\ j < Len(r) /\ Stores(r[j + 1]) /\ r[j + 1].key = r[j].key
            /\ (Tagged(r[j + 1]) <=> Tagged(r[j])) /\ "beside" \notin DOMAIN r[j]
            /\ Needy(r[j + 1]) => r[j].skip > 0
            /\ r[j].skip > 0 => j + r[j].skip <= Len(r) /\ ~Loads(r[j + r[j].skip])
        BY <2>1, <4>1 DEF Plain, Program, Couples
      <4>3. i < Len(p) /\ p[i + 1] = r[j + 1]
        <5>1. j + 1 \in 1..Len(r) /\ i + 1 = 2 + (j + 1) /\ i < Len(p)
          BY <1>6, <4>1, <4>2
        <5> QED
          BY <1>6, <5>1
      <4>4. ASSUME r[j].skip > 0
            PROVE  i + r[j].skip <= Len(p) /\ p[i + r[j].skip] = r[j + r[j].skip]
        <5> DEFINE m == r[j].skip
        <5>1. m \in Nat /\ m > 0 /\ j + m <= Len(r)
          BY <2>1, <4>1, <4>2, <4>4 DEF Plain, Program, StatementFits, Loads
        <5> HIDE DEF m
        <5>2. j + m \in 1..Len(r) /\ i + m = 2 + (j + m) /\ i + m <= Len(p)
          BY <1>6, <4>1, <5>1
        <5>3. p[2 + (j + m)] = r[j + m]
          BY <1>6, <5>2
        <5> QED
          BY <5>2, <5>3 DEF m
      <4> QED
        BY <4>1, <4>2, <4>3, <4>4
    <3>3. i # 2
      BY <1>6, <2>1 DEF Loads, Stores
    <3> QED
      BY <1>7, <3>1, <3>2, <3>3
  <2>2. ASSUME NEW i \in 1..Len(p), i > 1
        PROVE  p[i].op \notin {"write", "candle"} /\ (Stores(p[i]) => Loads(p[i - 1]))
    <3>1. CASE i = 2
      BY <1>3, <1>6, <3>1 DEF Stores, Loads
    <3>2. CASE i = 3
      <4>1. 1 \in 1..Len(r) /\ p[3] = r[1]
        BY <1>6, <3>2
      <4>2. r # << >>
        BY <4>1, <1>6, EmptyOnly DEF Plain, Program
      <4> QED
        BY <3>2, <4>1, <4>2 DEF Plain, Opens, Stores
    <3>3. CASE i > 3
      <4>1. i - 2 \in 1..Len(r) /\ i - 2 > 1 /\ p[i] = r[i - 2]
        BY <1>6, <1>7, <3>3
      <4>2. (i - 2) - 1 \in 1..Len(r) /\ 2 + ((i - 2) - 1) = i - 1
        BY <1>6, <3>3, <4>1
      <4>3. p[i - 1] = r[(i - 2) - 1]
        BY <1>6, <4>2
      <4> QED
        BY <4>1, <4>3 DEF Plain, Program, Couples
    <3> QED
      BY <1>6, <2>2, <3>1, <3>2, <3>3
  <2> QED
    BY <2>1, <2>2 DEF Couples
<1>10. Quiet(p)
  <2>1. ~Swaps(f) /\ ~Asks(f, "candles") /\ f.op # "candle"
    BY <1>3 DEF Swaps, Trade, Asks
  <2>2. ~Swaps(s) /\ ~Asks(s, "candles") /\ s.op # "candle"
    BY DEF Stores, Swaps, Asks
  <2> QED
    BY <1>6, <1>7, <2>1, <2>2 DEF Quiet, Plain
<1>11. OneTrade(p)
  BY <1>10 DEF OneTrade, Quiet
<1>12. Opens(p)
  BY <1>3, <1>6 DEF Opens
<1> QED
  BY <1>4, <1>6, <1>8, <1>9, <1>10, <1>11, <1>12 DEF Plain, Program

LEMMA EmptyPlain == ASSUME NEW a PROVE Plain(a, << >>)
BY EmptyIsSequence DEF Plain, Program, Opens, Quiet, Couples, OneTrade
-----------------------------------------------------------------------------
(* Rows and their columns.                                                 *)

LEMMA Keys ==
  /\ \A k : k[1] \in {"pair", "edge", "tick", "bar", "token", "tiers", "totals", "curve", "defaults",
                      "discount", "whitelisted", "account", "notification", "provision", "claim",
                      "stake"} => ~IsBucket(k)
  /\ \A k : IsBucket(k) => k[1] # "pair" /\ k # SpotToken /\ k # Tiers /\ k # Discount
  /\ \A p : /\ Pair(p)[1] = "pair" /\ Edge(p)[1] = "edge" /\ Curve(p)[1] = "curve"
            /\ Whitelisted(p)[1] = "whitelisted" /\ Notification(p)[1] = "notification"
            /\ Provision(p)[1] = "provision" /\ Claim(p)[1] = "claim" /\ Stake(p)[1] = "stake"
            /\ \A i : Tick(p, i)[1] = "tick" /\ Bar(p, i)[1] = "bar" /\ Bucket(p, i)[1] = p
  /\ SpotToken[1] = "token" /\ Tiers[1] = "tiers" /\ Totals[1] = "totals" /\ Defaults[1] = "defaults"
  /\ Discount[1] = "discount" /\ Account[1] = "account"
<1>1. \A k : k[1] \in {"pair", "edge", "tick", "bar", "token", "tiers", "totals", "curve", "defaults",
                       "discount", "whitelisted", "account", "notification", "provision", "claim",
                       "stake"} => ~IsBucket(k)
  BY SpotRowsAssumption DEF IsBucket
<1>2. SpotToken[1] = "token" /\ Tiers[1] = "tiers" /\ Discount[1] = "discount"
  BY DEF SpotToken, Tiers, Discount
<1>3. \A k : IsBucket(k) => k[1] # "pair" /\ k # SpotToken /\ k # Tiers /\ k # Discount
  BY <1>1, <1>2
<1> QED
  BY <1>1, <1>2, <1>3 DEF Pair, Edge, Curve, Whitelisted, Notification, Provision, Claim, Stake, Tick,
                          Bar, Bucket, Totals, Defaults, Account

\* Rows column by column.
PairColumns ==
  {"dyn", "bps", "src", "cl", "flip", "listed", "gauge", "price", "day", "dayTvl", "dayUsd",
   "liquidity", "fees"}

LEMMA PairRowColumns ==
  ASSUME NEW r, NEW n
  PROVE  r \in PairRow(n) <=>
           /\ r = [c \in PairColumns |-> r[c]]
           /\ r.dyn \in BOOLEAN /\ r.bps \in FeeBps \cup {Unset} /\ r.src \in AnySource
           /\ r.cl \in BOOLEAN /\ r.flip \in BOOLEAN /\ r.listed \in BOOLEAN /\ r.gauge \in BOOLEAN
           /\ r.price \in {"none", "token1/token0", "token0/token1"} /\ r.day \in 0..n
           /\ r.dayTvl \in Nat /\ r.dayUsd \in Nat /\ r.liquidity \in Nat /\ r.fees \in Nat
BY DEF PairRow, PairColumns

LEMMA TokenRowColumns ==
  ASSUME NEW r, NEW n
  PROVE  r \in TokenRow(n) <=>
           /\ r = [c \in {"listed", "day", "dayVol", "dayTvl", "trades"} |-> r[c]]
           /\ r.listed \in BOOLEAN /\ r.day \in 0..n /\ r.dayVol \in Nat /\ r.dayTvl \in Nat
           /\ r.trades \in Nat \cup {NaN}
BY DEF TokenRow

LEMMA BucketRowColumns ==
  ASSUME NEW r
  PROVE  r \in BucketRow <=>
           /\ r = [c \in {"volume", "tvl", "trades", "pairs"} |-> r[c]]
           /\ r.volume \in Nat /\ r.tvl \in Nat /\ r.trades \in Nat /\ r.pairs \in Nat
BY DEF BucketRow

LEMMA PairPatch ==
  ASSUME NEW r, NEW n, r \in PairRow(n), NEW f, DOMAIN f \subseteq PairColumns,
         "dyn" \in DOMAIN f => f.dyn \in BOOLEAN,
         "bps" \in DOMAIN f => f.bps \in FeeBps \cup {Unset},
         "src" \in DOMAIN f => f.src \in AnySource,
         "cl" \in DOMAIN f => f.cl \in BOOLEAN,
         "flip" \in DOMAIN f => f.flip \in BOOLEAN,
         "listed" \in DOMAIN f => f.listed \in BOOLEAN,
         "gauge" \in DOMAIN f => f.gauge \in BOOLEAN,
         "price" \in DOMAIN f => f.price \in {"none", "token1/token0", "token0/token1"},
         "day" \in DOMAIN f => f.day \in 0..n,
         "dayTvl" \in DOMAIN f => f.dayTvl \in Nat,
         "dayUsd" \in DOMAIN f => f.dayUsd \in Nat,
         "liquidity" \in DOMAIN f => f.liquidity \in Nat,
         "fees" \in DOMAIN f => f.fees \in Nat
  PROVE  Over(f, r) \in PairRow(n)
<1>1. r = [c \in PairColumns |-> r[c]] /\ DOMAIN r = PairColumns
  BY PairRowColumns
<1>2. Over(f, r) = [c \in PairColumns |-> IF c \in DOMAIN f THEN f[c] ELSE r[c]]
  BY <1>1 DEF Over
<1>3. \A c \in PairColumns : Over(f, r)[c] = IF c \in DOMAIN f THEN f[c] ELSE r[c]
  BY <1>2
<1>4. Over(f, r) = [c \in PairColumns |-> Over(f, r)[c]]
  BY <1>2, <1>3
<1>5. {"dyn", "bps", "src", "cl", "flip", "listed", "gauge", "price", "day", "dayTvl", "dayUsd",
       "liquidity", "fees"} \subseteq PairColumns
  BY DEF PairColumns
<1> HIDE DEF PairColumns
<1> QED
  BY <1>3, <1>4, <1>5, PairRowColumns

LEMMA NewRows ==
  ASSUME scenario \in Scenarios
  PROVE  /\ NewPair \in PairRow(scenario.days) /\ NewToken \in TokenRow(scenario.days)
         /\ NewBucket \in BucketRow /\ 0 \in Days /\ 1..scenario.days \subseteq Days
<1>1. scenario.days \in Nat \ {0}
  BY ScenariosAssumption
<1>2. \A n \in Nat : NewPair \in PairRow(n)
  <2> TAKE n \in Nat
  <2>1. NewPair = [c \in PairColumns |-> NewPair[c]]
    BY DEF NewPair, PairColumns
  <2>2. /\ NewPair.dyn \in BOOLEAN /\ NewPair.bps \in FeeBps \cup {Unset} /\ NewPair.src \in AnySource
        /\ NewPair.cl \in BOOLEAN /\ NewPair.flip \in BOOLEAN /\ NewPair.listed \in BOOLEAN
        /\ NewPair.gauge \in BOOLEAN
    BY DEF NewPair, AnySource
  <2>3. /\ NewPair.price \in {"none", "token1/token0", "token0/token1"} /\ NewPair.day \in 0..n
        /\ NewPair.dayTvl \in Nat /\ NewPair.dayUsd \in Nat /\ NewPair.liquidity \in Nat
        /\ NewPair.fees \in Nat
    BY DEF NewPair
  <2> QED
    BY <2>1, <2>2, <2>3, PairRowColumns
<1>3. NewPair \in PairRow(scenario.days)
  BY <1>1, <1>2
<1>4. NewToken \in TokenRow(scenario.days)
  BY <1>1 DEF NewToken, TokenRow
<1>5. NewBucket \in BucketRow
  BY DEF NewBucket, BucketRow
<1> QED
  BY <1>1, <1>3, <1>4, <1>5 DEF Days
-----------------------------------------------------------------------------
(* What the edits make of a row.                                           *)

LEMMA EditedIs ==
  ASSUME NEW e, NEW row
  PROVE  /\ e.of = "minimal" => Edited(e, row) = Minimal(IF row = NoRow THEN NewPair ELSE row, e.pool)
         /\ e.of = "mintPair" => Edited(e, row) = MintedPair(row, e.day)
         /\ e.of = "mintUsd" => Edited(e, row) = MintedUsd(row)
         /\ e.of = "tradePair" =>
              Edited(e, row) = TradedPair(IF row = NoRow THEN NewPair ELSE row, e.day)
         /\ e.of = "swap" => Edited(e, row) = Swapped(row)
         /\ e.of = "tokenInfo" => Edited(e, row) = IF row = NoRow THEN NewToken ELSE row
         /\ e.of = "mintToken" =>
              Edited(e, row) = MintedToken(IF row = NoRow THEN NewToken ELSE row, e.day)
         /\ e.of = "tradeToken" =>
              Edited(e, row) = IF row = NoRow THEN FirstTraded(e.day) ELSE TradedToken(row, e.day)
         /\ e.of = "backfill" => Edited(e, row) = row
         /\ e.of = "measure" => Edited(e, row) = Measured(row, e.day, e.volume)
         /\ e.of = "bump" => Edited(e, row) = Bumped(IF row = NoRow THEN NewBucket ELSE row, e.delta)
         /\ e.of = "list" => Edited(e, row) = [row EXCEPT !.listed = e.listed]
BY DEF Edited

LEMMA RolledPair ==
  ASSUME NEW n \in Nat, NEW row \in PairRow(n), NEW d \in 0..n
  PROVE  /\ Rolled(row, d) \in PairRow(n) /\ Rolled(row, d).listed = row.listed
         /\ Rolled(row, d).day = d
         /\ row.day = d => Rolled(row, d) = row
<1>1. CASE row.day = d
  BY <1>1, PairRowColumns DEF Rolled
<1>2. CASE row.day # d
  <2>1. row = [c \in PairColumns |-> row[c]] /\ DOMAIN row = PairColumns
    BY PairRowColumns
  <2> DEFINE r == Rolled(row, d)
  <2>2. r = [c \in PairColumns |->
               IF c = "day" THEN d ELSE IF c \in {"dayVol", "dayTvl", "dayUsd"} THEN 0 ELSE row[c]]
    BY <1>2, <2>1 DEF Rolled, OfDay
  <2> HIDE DEF r
  <2>3. r = [c \in PairColumns |-> r[c]]
    BY <2>2
  <2>4. /\ r.dyn = row.dyn /\ r.bps = row.bps /\ r.src = row.src /\ r.cl = row.cl /\ r.flip = row.flip
        /\ r.listed = row.listed /\ r.gauge = row.gauge /\ r.price = row.price /\ r.day = d
        /\ r.dayTvl = 0 /\ r.dayUsd = 0 /\ r.liquidity = row.liquidity /\ r.fees = row.fees
    BY <2>2 DEF PairColumns
  <2>5. r \in PairRow(n)
    BY <2>3, <2>4, PairRowColumns
  <2> QED
    BY <1>2, <2>4, <2>5 DEF r
<1> QED
  BY <1>1, <1>2

LEMMA RolledToken ==
  ASSUME NEW n \in Nat, NEW row \in TokenRow(n), NEW d \in 0..n
  PROVE  /\ Rolled(row, d) \in TokenRow(n) /\ Rolled(row, d).listed = row.listed
         /\ Rolled(row, d).day = d
         /\ row.day = d => Rolled(row, d) = row
         /\ row.day # d => Rolled(row, d).dayVol = 0
<1>1. CASE row.day = d
  BY <1>1, TokenRowColumns DEF Rolled
<1>2. CASE row.day # d
  <2>1. /\ row = [c \in {"listed", "day", "dayVol", "dayTvl", "trades"} |-> row[c]]
        /\ DOMAIN row = {"listed", "day", "dayVol", "dayTvl", "trades"}
    BY TokenRowColumns
  <2> DEFINE r == Rolled(row, d)
  <2>2. r = [c \in {"listed", "day", "dayVol", "dayTvl", "trades"} |->
               IF c = "day" THEN d ELSE IF c \in {"dayVol", "dayTvl", "dayUsd"} THEN 0 ELSE row[c]]
    BY <1>2, <2>1 DEF Rolled, OfDay
  <2> HIDE DEF r
  <2>3. r = [c \in {"listed", "day", "dayVol", "dayTvl", "trades"} |-> r[c]]
    BY <2>2
  <2>4. r.listed = row.listed /\ r.day = d /\ r.dayVol = 0 /\ r.dayTvl = 0 /\ r.trades = row.trades
    BY <2>2
  <2>5. r \in TokenRow(n)
    BY <2>3, <2>4, TokenRowColumns
  <2> QED
    BY <1>2, <2>4, <2>5 DEF r
<1> QED
  BY <1>1, <1>2

\* An edit of a pair: what it leaves alone.
OwnEdit(e, new, old) ==
  /\ new.listed # old.listed => e.of = "list"
  /\ new.dayTvl < old.dayTvl => new.day # old.day

LEMMA MinimalPair ==
  ASSUME NEW n \in Nat, NEW row \in PairRow(n), NEW p \in Pool
  PROVE  /\ Minimal(row, p) \in PairRow(n) /\ Minimal(row, p).listed = row.listed
         /\ Minimal(row, p).dayTvl = row.dayTvl
<1> DEFINE base == [row EXCEPT !.cl = CL(p), !.flip = p \in Flipped]
           fee == IF CL(p) THEN DynamicFee ELSE [dyn |-> FALSE]
<1>1. base \in PairRow(n) /\ base.listed = row.listed /\ base.dayTvl = row.dayTvl
      /\ DOMAIN base = PairColumns
  <2>1. CL(p) \in BOOLEAN /\ (p \in Flipped) \in BOOLEAN
    BY DEF CL
  <2> QED
    BY <2>1 DEF PairRow, PairColumns
<1>2. /\ DOMAIN fee \subseteq PairColumns /\ DOMAIN fee \subseteq {"dyn", "bps", "src"}
      /\ "dyn" \in DOMAIN fee => fee.dyn \in BOOLEAN
      /\ "bps" \in DOMAIN fee => fee.bps \in FeeBps \cup {Unset}
      /\ "src" \in DOMAIN fee => fee.src \in AnySource
  BY DEF DynamicFee, Fee, AnySource, PairColumns
<1> HIDE DEF base, fee
<1>3. Over(fee, base) \in PairRow(n)
  BY <1>1, <1>2, PairPatch
<1>4. Over(fee, base).listed = base.listed /\ Over(fee, base).dayTvl = base.dayTvl
  <2>1. /\ "listed" \in DOMAIN base /\ "dayTvl" \in DOMAIN base
        /\ "listed" \notin DOMAIN fee /\ "dayTvl" \notin DOMAIN fee
    BY <1>1, <1>2 DEF PairColumns
  <2>2. Over(fee, base)["listed"] = base["listed"]
    BY <2>1 DEF Over
  <2>3. Over(fee, base)["dayTvl"] = base["dayTvl"]
    BY <2>1 DEF Over
  <2> QED
    BY <2>2, <2>3
<1> QED
  BY <1>1, <1>3, <1>4 DEF Minimal, base, fee

LEMMA PairEdits ==
  ASSUME scenario \in Scenarios, now \in 1..scenario.days,
         NEW k, k[1] = "pair", NEW e, EditFits(k, e), NEW row,
         \/ row \in PairRow(scenario.days)
         \/ row = NoRow /\ e.of \in {"minimal", "tradePair"}
  PROVE  /\ Edited(e, row) \in PairRow(scenario.days)
         /\ row # NoRow => OwnEdit(e, Edited(e, row), row)
<1> DEFINE n == scenario.days
           old == IF row = NoRow THEN NewPair ELSE row
<1>1. n \in Nat /\ old \in PairRow(n) /\ 0 \in 0..n /\ \A d \in 1..now : d \in 0..n
  BY ScenariosAssumption, NewRows
<1>2. NoRow \notin PairRow(n)
  BY ScenariosAssumption
<1> HIDE DEF n
<1>3. CASE e.of = "minimal"
  <2>1. Edited(e, row) = Minimal(old, e.pool) /\ e.pool \in Pool
    BY <1>3, EditedIs DEF EditFits
  <2>2. /\ Minimal(old, e.pool) \in PairRow(n) /\ Minimal(old, e.pool).listed = old.listed
        /\ Minimal(old, e.pool).dayTvl = old.dayTvl
    BY <1>1, <2>1, MinimalPair
  <2>3. old.dayTvl \in Nat
    BY <1>1, PairRowColumns
  <2> QED
    BY <1>3, <2>1, <2>2, <2>3 DEF OwnEdit, n
<1>4. CASE e.of = "mintPair"
  <2>1. row \in PairRow(n) /\ row # NoRow /\ e.day \in 0..n
    BY <1>1, <1>2, <1>4 DEF EditFits, n
  <2> DEFINE r == Rolled(row, e.day)
  <2>2. /\ r \in PairRow(n) /\ r.listed = row.listed /\ r.day = e.day
        /\ row.day = e.day => r = row
    BY <1>1, <2>1, RolledPair
  <2>3. Edited(e, row) = [r EXCEPT !.dayTvl = @ + 1, !.liquidity = @ + 1, !.price = "token1/token0"]
    BY <1>4, EditedIs DEF MintedPair
  <2> HIDE DEF r
  <2>5. r.dayTvl \in Nat /\ r.liquidity \in Nat /\ row.dayTvl \in Nat
    BY <2>1, <2>2, PairRowColumns
  <2> DEFINE v == r.dayTvl + 1
             w == r.liquidity + 1
  <2>6. v \in Nat /\ w \in Nat
    BY <2>5
  <2>7. Edited(e, row) = [r EXCEPT !.dayTvl = v, !.liquidity = w, !.price = "token1/token0"]
    BY <2>3
  <2> HIDE DEF v, w
  <2>4. /\ Edited(e, row) \in PairRow(n) /\ Edited(e, row).listed = r.listed
        /\ Edited(e, row).dayTvl = v /\ Edited(e, row).day = r.day
    BY <2>2, <2>6, <2>7 DEF PairRow
  <2> QED
    BY <1>4, <2>2, <2>4, <2>5 DEF OwnEdit, n, v
<1>5. CASE e.of = "mintUsd"
  <2>1. row \in PairRow(n) /\ row # NoRow
    BY <1>2, <1>5 DEF n
  <2>2. Edited(e, row) = [row EXCEPT !.dayUsd = @ + 1]
    BY <1>5, EditedIs DEF MintedUsd
  <2>3. /\ Edited(e, row) \in PairRow(n) /\ Edited(e, row).listed = row.listed
        /\ Edited(e, row).dayTvl = row.dayTvl /\ row.dayTvl \in Nat
    BY <2>1, <2>2 DEF PairRow
  <2> QED
    BY <2>3 DEF OwnEdit, n
<1>6. CASE e.of = "tradePair"
  <2>1. e.day \in 0..n
    BY <1>1, <1>6 DEF EditFits
  <2> DEFINE r == Rolled(old, e.day)
  <2>2. /\ r \in PairRow(n) /\ r.listed = old.listed /\ r.day = e.day
        /\ old.day = e.day => r = old
    BY <1>1, <2>1, RolledPair
  <2>3. QuotePerBase(old) \in {"none", "token1/token0", "token0/token1"}
    BY DEF QuotePerBase
  <2>4. Edited(e, row) = [r EXCEPT !.fees = @ + 1, !.price = QuotePerBase(old)]
    BY <1>6, EditedIs DEF TradedPair
  <2> HIDE DEF r, old
  <2>7. r.dayTvl \in Nat /\ r.fees \in Nat /\ old.dayTvl \in Nat
    BY <1>1, <2>2, PairRowColumns
  <2> DEFINE v == r.fees + 1
             w == QuotePerBase(old)
  <2>8. Edited(e, row) = [r EXCEPT !.fees = v, !.price = w] /\ v \in Nat
    BY <2>4, <2>7
  <2>9. w \in {"none", "token1/token0", "token0/token1"}
    BY <2>3
  <2> HIDE DEF v, w
  <2>5. /\ Edited(e, row) \in PairRow(n) /\ Edited(e, row).listed = r.listed
        /\ Edited(e, row).dayTvl = r.dayTvl /\ Edited(e, row).day = r.day
    BY <2>2, <2>7, <2>8, <2>9 DEF PairRow
  <2>6. OwnEdit(e, Edited(e, row), old)
    BY <2>2, <2>5, <2>7 DEF OwnEdit
  <2> QED
    BY <2>5, <2>6 DEF n, old
<1>7. CASE e.of = "list"
  <2>1. row \in PairRow(n) /\ row # NoRow /\ e.listed \in BOOLEAN
    BY <1>2, <1>7 DEF EditFits, n
  <2>2. Edited(e, row) = [row EXCEPT !.listed = e.listed]
    BY <1>7, EditedIs
  <2>3. /\ Edited(e, row) \in PairRow(n) /\ Edited(e, row).dayTvl = row.dayTvl /\ row.dayTvl \in Nat
    BY <2>1, <2>2 DEF PairRow
  <2> QED
    BY <1>7, <2>3 DEF OwnEdit, n
<1> QED
  BY <1>3, <1>4, <1>5, <1>6, <1>7 DEF EditFits

\* A swap of the day counts 1, a measurement its candle, no other edit counts.
CountsAs(e, new, old, d) ==
  Volume(new, d) <= CASE e.of = "tradeToken" -> IF e.day = d THEN Volume(old, d) + 1 ELSE 0
                      [] e.of = "measure" -> IF e.day = d THEN e.volume ELSE 0
                      [] OTHER -> Volume(old, d)

LEMMA TokenEdits ==
  ASSUME scenario \in Scenarios, now \in 1..scenario.days,
         NEW k, k = SpotToken, NEW e, EditFits(k, e), NEW row,
         \/ row \in TokenRow(scenario.days)
         \/ row = NoRow /\ e.of \in {"tokenInfo", "mintToken", "tradeToken"}
  PROVE  /\ Edited(e, row) \in TokenRow(scenario.days)
         /\ row # NoRow => OwnEdit(e, Edited(e, row), row)
         /\ \A d \in Days : CountsAs(e, Edited(e, row), row, d)
<1> DEFINE n == scenario.days
           old == IF row = NoRow THEN NewToken ELSE row
<1>1. n \in Nat /\ old \in TokenRow(n) /\ 0 \in 0..n /\ \A d \in 1..now : d \in 0..n
  BY ScenariosAssumption, NewRows
<1>2. NoRow \notin TokenRow(n)
  BY ScenariosAssumption
<1>3. \A d \in Days : Volume(row, d) = IF old.day = d THEN old.dayVol ELSE 0
  BY DEF Volume, NewToken
<1>4. ASSUME NEW new \in TokenRow(n), NEW d \in Days
      PROVE  Volume(new, d) = IF new.day = d THEN new.dayVol ELSE 0
  BY <1>2 DEF Volume
<1>5. old.dayVol \in Nat /\ old.dayTvl \in Nat /\ Days = 0..n
  BY <1>1, TokenRowColumns DEF Days
<1> HIDE DEF n, old
<1>6. CASE e.of \in {"tokenInfo", "backfill"}
  <2>1. Edited(e, row) = old
    <3>1. CASE e.of = "tokenInfo"
      BY <3>1, EditedIs DEF old
    <3>2. CASE e.of = "backfill"
      <4>1. row # NoRow
        BY <1>2, <3>2 DEF n
      <4> QED
        BY <3>2, <4>1, EditedIs DEF old
    <3> QED
      BY <1>6, <3>1, <3>2
  <2>2. \A d \in Days : CountsAs(e, old, row, d)
    BY <1>1, <1>3, <1>4, <1>5, <1>6 DEF CountsAs
  <2>3. row # NoRow => OwnEdit(e, old, row)
    BY <1>5 DEF OwnEdit, old
  <2> QED
    BY <1>1, <2>1, <2>2, <2>3 DEF n
<1>7. CASE e.of = "mintToken"
  <2>1. e.day \in 0..n
    BY <1>1, <1>7 DEF EditFits
  <2> DEFINE r == Rolled(old, e.day)
  <2>2. /\ r \in TokenRow(n) /\ r.listed = old.listed /\ r.day = e.day
        /\ old.day = e.day => r = old
        /\ old.day # e.day => r.dayVol = 0
    BY ONLY <1>1, <2>1, RolledToken
  <2>3. Edited(e, row) = [r EXCEPT !.dayTvl = @ + 1]
    BY <1>7, EditedIs DEF MintedToken, old
  <2> HIDE DEF r
  <2>4. /\ Edited(e, row) \in TokenRow(n) /\ Edited(e, row).listed = r.listed
        /\ Edited(e, row).dayTvl = r.dayTvl + 1 /\ Edited(e, row).day = r.day
        /\ r.dayTvl \in Nat /\ Edited(e, row).dayVol = r.dayVol
    BY <2>2, <2>3 DEF TokenRow
  <2>5. OwnEdit(e, Edited(e, row), old)
    BY <1>5, <2>2, <2>4 DEF OwnEdit
  <2>6. \A d \in Days : CountsAs(e, Edited(e, row), row, d)
    BY <1>3, <1>4, <1>5, <1>7, <2>2, <2>4 DEF CountsAs
  <2> QED
    BY <2>4, <2>5, <2>6 DEF n, old
<1>8. CASE e.of = "tradeToken"
  <2>1. e.day \in 0..n
    BY <1>1, <1>8 DEF EditFits
  <2> DEFINE r == Rolled(old, e.day)
  <2>2. /\ r \in TokenRow(n) /\ r.listed = old.listed /\ r.day = e.day
        /\ old.day = e.day => r = old
        /\ old.day # e.day => r.dayVol = 0
    BY ONLY <1>1, <2>1, RolledToken
  <2> DEFINE t == [r EXCEPT !.dayVol = @ + 1, !.trades = IF @ = NaN THEN NaN ELSE @ + 1]
  <2>3. Edited(e, row) = IF row = NoRow THEN [t EXCEPT !.trades = NaN] ELSE t
    BY <1>8, EditedIs DEF FirstTraded, TradedToken, old
  <2> HIDE DEF r
  <2>8. r.dayTvl \in Nat /\ r.dayVol \in Nat /\ r.trades \in Nat \cup {NaN}
    BY <2>2, TokenRowColumns
  <2> DEFINE v == r.dayVol + 1
             w == IF r.trades = NaN THEN NaN ELSE r.trades + 1
  <2>9. v \in Nat /\ w \in Nat \cup {NaN} /\ t = [r EXCEPT !.dayVol = v, !.trades = w]
    BY <2>8
  <2> HIDE DEF w
  <2>10. /\ t \in TokenRow(n) /\ t.listed = r.listed /\ t.dayTvl = r.dayTvl /\ t.day = r.day
         /\ t.dayVol = v
    <3> HIDE DEF v, t
    <3> QED
      BY <2>2, <2>9 DEF TokenRow
  <2>4. /\ t \in TokenRow(n) /\ t.listed = r.listed /\ t.dayTvl = r.dayTvl /\ t.day = r.day
        /\ r.dayTvl \in Nat /\ t.dayVol = r.dayVol + 1 /\ r.dayVol \in Nat
    BY <2>8, <2>10
  <2> HIDE DEF t
  <2>5. /\ Edited(e, row) \in TokenRow(n) /\ Edited(e, row).listed = r.listed
        /\ Edited(e, row).dayTvl = r.dayTvl /\ Edited(e, row).day = r.day
        /\ Edited(e, row).dayVol = r.dayVol + 1
    <3>1. CASE row = NoRow
      BY <2>3, <2>4, <3>1 DEF TokenRow
    <3>2. CASE row # NoRow
      BY <2>3, <2>4, <3>2
    <3> QED
      BY <3>1, <3>2
  <2>6. OwnEdit(e, Edited(e, row), old)
    BY <1>5, <2>2, <2>4, <2>5 DEF OwnEdit
  <2>7. \A d \in Days : CountsAs(e, Edited(e, row), row, d)
    <3> TAKE d \in Days
    <3>1. Volume(Edited(e, row), d) = IF e.day = d THEN r.dayVol + 1 ELSE 0
      BY <1>4, <2>2, <2>5
    <3>2. e.day = d => Volume(row, d) = r.dayVol
      BY <1>3, <2>2
    <3> QED
      BY <1>8, <2>4, <3>1, <3>2 DEF CountsAs
  <2> QED
    BY <2>5, <2>6, <2>7 DEF n, old
<1>9. CASE e.of = "measure"
  <2>1. e.day \in 0..n /\ e.volume \in Nat /\ row \in TokenRow(n) /\ row # NoRow /\ row = old
    BY <1>1, <1>2, <1>9 DEF EditFits, n, old
  <2> DEFINE r == Rolled(old, e.day)
  <2>2. /\ r \in TokenRow(n) /\ r.listed = old.listed /\ r.day = e.day
        /\ old.day = e.day => r = old
    BY <1>1, <2>1, RolledToken
  <2>3. Edited(e, row) = [r EXCEPT !.dayVol = e.volume]
    BY <1>9, <2>1, EditedIs DEF Measured
  <2> HIDE DEF r
  <2>4. /\ Edited(e, row) \in TokenRow(n) /\ Edited(e, row).listed = r.listed
        /\ Edited(e, row).dayTvl = r.dayTvl /\ Edited(e, row).day = r.day
        /\ r.dayTvl \in Nat /\ Edited(e, row).dayVol = e.volume
    BY <2>1, <2>2, <2>3 DEF TokenRow
  <2>5. OwnEdit(e, Edited(e, row), old)
    BY <1>5, <2>2, <2>4 DEF OwnEdit
  <2>6. \A d \in Days : CountsAs(e, Edited(e, row), row, d)
    BY <1>4, <1>9, <2>1, <2>2, <2>4 DEF CountsAs
  <2> QED
    BY <2>1, <2>4, <2>5, <2>6 DEF n
<1>10. CASE e.of = "list"
  <2>1. row \in TokenRow(n) /\ row # NoRow /\ e.listed \in BOOLEAN /\ row = old
    BY <1>2, <1>10 DEF EditFits, n, old
  <2>2. Edited(e, row) = [row EXCEPT !.listed = e.listed]
    BY <1>10, EditedIs
  <2>3. /\ Edited(e, row) \in TokenRow(n) /\ Edited(e, row).dayTvl = row.dayTvl
        /\ Edited(e, row).day = row.day /\ Edited(e, row).dayVol = row.dayVol
    BY <2>1, <2>2 DEF TokenRow
  <2>4. \A d \in Days : CountsAs(e, Edited(e, row), row, d)
    BY <1>3, <1>4, <1>5, <1>10, <2>1, <2>3 DEF CountsAs
  <2> QED
    BY <1>5, <1>10, <2>1, <2>3, <2>4 DEF OwnEdit, n
<1> QED
  BY <1>6, <1>7, <1>8, <1>9, <1>10 DEF EditFits

LEMMA BucketEdits ==
  ASSUME NEW e, e.of = "bump", NEW delta \in BucketRow, e.delta = delta, NEW row,
         row = NoRow \/ row \in BucketRow
  PROVE  Edited(e, row) \in BucketRow
<1> DEFINE old == IF row = NoRow THEN NewBucket ELSE row
<1>1. old \in BucketRow
  BY DEF NewBucket, BucketRow
<1>2. Edited(e, row) = Bumped(old, delta)
  BY EditedIs
<1> HIDE DEF old
<1>3. Bumped(old, delta) \in BucketRow
  BY <1>1 DEF Bumped, BucketRow
<1> QED
  BY <1>2, <1>3
-----------------------------------------------------------------------------
(* Every program of a handler, of the cron, the catalog and of a query's   *)
(* answer has that form.                                                   *)

LEMMA OneSequence ==
  ASSUME NEW s
  PROVE  Sequence(<< s >>) /\ Len(<< s >>) = 1 /\ << s >>[1] = s
<1>1. << s >> \in Seq({s})
  OBVIOUS
<1> QED
  BY <1>1, SeqIsSequence

LEMMA TwoSequence ==
  ASSUME NEW s, NEW t
  PROVE  /\ Sequence(<< s, t >>) /\ Len(<< s, t >>) = 2
         /\ << s, t >>[1] = s /\ << s, t >>[2] = t
<1>1. << s, t >> \in Seq({s, t})
  OBVIOUS
<1> QED
  BY <1>1, SeqIsSequence

LEMMA JoinEmpty == ASSUME NEW p, Sequence(p) PROVE p \o << >> = p
<1> DEFINE q == p \o << >>
<1>1. Sequence(q) /\ Len(q) = Len(p) /\ \A i \in 1..Len(p) : q[i] = p[i]
  BY Joined, EmptyIsSequence DEF Sequence
<1> HIDE DEF q
<1>2. q = p
  BY <1>1 DEF Sequence
<1> QED
  BY <1>2 DEF q

LEMMA TwoJoined == ASSUME NEW s, NEW t PROVE << s, t >> = << s >> \o << t >>
<1> DEFINE p == << s >>
           q == << t >>
           u == p \o q
           v == << s, t >>
<1>1. Sequence(p) /\ Len(p) = 1 /\ p[1] = s /\ Sequence(q) /\ Len(q) = 1 /\ q[1] = t
  BY OneSequence
<1>2. Sequence(v) /\ Len(v) = 2 /\ v[1] = s /\ v[2] = t
  BY TwoSequence
<1> HIDE DEF p, q, v
<1>3. /\ Sequence(u) /\ Len(u) = Len(p) + Len(q)
      /\ \A i \in 1..Len(p) : u[i] = p[i]
      /\ \A i \in 1..Len(q) : u[Len(p) + i] = q[i]
  <2>1. Sequence(p) /\ Sequence(q)
    BY <1>1
  <2> QED
    BY <2>1, Joined
<1> HIDE DEF u
<1>4. Len(u) = 2 /\ u[1] = s /\ u[1 + 1] = t
  <2>1. 1 \in 1..Len(p) /\ 1 \in 1..Len(q) /\ Len(p) + Len(q) = 2
    BY <1>1
  <2>2. u[1] = p[1] /\ u[Len(p) + 1] = q[1]
    BY <1>3, <2>1
  <2> QED
    BY <1>1, <1>3, <2>1, <2>2
<1>5. \A i \in 1..2 : u[i] = v[i]
  <2> TAKE i \in 1..2
  <2>1. i = 1 \/ i = 2
    OBVIOUS
  <2> QED
    BY <1>2, <1>4, <2>1
<1>6. u = v
  BY <1>2, <1>3, <1>4, <1>5 DEF Sequence
<1> QED
  BY <1>6 DEF u, v, p, q

LEMMA JoinAgain ==
  ASSUME NEW p, NEW q, NEW r, Sequence(p), Sequence(q), Sequence(r)
  PROVE  (p \o q) \o r = p \o (q \o r)
<1> DEFINE l == Len(p)
           m == Len(q)
           n == Len(r)
           u == (p \o q) \o r
           v == p \o (q \o r)
<1>1. l \in Nat /\ m \in Nat /\ n \in Nat
  BY DEF Sequence
<1>2. /\ Sequence(p \o q) /\ Len(p \o q) = l + m
      /\ \A i \in 1..l : (p \o q)[i] = p[i]
      /\ \A i \in 1..m : (p \o q)[l + i] = q[i]
  BY Joined
<1>3. /\ Sequence(q \o r) /\ Len(q \o r) = m + n
      /\ \A i \in 1..m : (q \o r)[i] = q[i]
      /\ \A i \in 1..n : (q \o r)[m + i] = r[i]
  BY Joined
<1>4. /\ Sequence(u) /\ Len(u) = (l + m) + n
      /\ \A i \in 1..(l + m) : u[i] = (p \o q)[i]
      /\ \A i \in 1..n : u[(l + m) + i] = r[i]
  BY <1>2, Joined
<1>5. /\ Sequence(v) /\ Len(v) = l + (m + n)
      /\ \A i \in 1..l : v[i] = p[i]
      /\ \A i \in 1..(m + n) : v[l + i] = (q \o r)[i]
  BY <1>3, Joined
<1> HIDE DEF l, m, n, u, v
<1>6. ASSUME NEW i \in 1..((l + m) + n) PROVE u[i] = v[i]
  <2>1. CASE i <= l
    <3>1. i \in 1..l /\ i \in 1..(l + m)
      BY <1>1, <2>1
    <3> QED
      BY <1>2, <1>4, <1>5, <3>1
  <2>2. CASE i > l /\ i <= l + m
    <3>1. i - l \in 1..m /\ i \in 1..(l + m) /\ i - l \in 1..(m + n) /\ l + (i - l) = i
      BY <1>1, <2>2
    <3>2. u[i] = q[i - l]
      BY <1>2, <1>4, <3>1
    <3>3. v[i] = q[i - l]
      BY <1>3, <1>5, <3>1
    <3> QED
      BY <3>2, <3>3
  <2>3. CASE i > l + m
    <3> DEFINE j == i - (l + m)
    <3>1. j \in 1..n /\ (l + m) + j = i /\ m + j \in 1..(m + n) /\ l + (m + j) = i
      BY <1>1, <2>3
    <3> HIDE DEF j
    <3>2. u[(l + m) + j] = r[j]
      BY <1>4, <3>1
    <3>3. v[l + (m + j)] = (q \o r)[m + j] /\ (q \o r)[m + j] = r[j]
      BY <1>3, <1>5, <3>1
    <3> QED
      BY <3>1, <3>2, <3>3
  <2> QED
    BY <1>1, <2>1, <2>2, <2>3
<1>7. Len(u) = Len(v) /\ Len(u) = (l + m) + n
  BY <1>1, <1>4, <1>5
<1>8. u = v
  BY <1>4, <1>5, <1>6, <1>7 DEF Sequence
<1> QED
  BY <1>8 DEF u, v

\* Statements without a row in hand, in any order.
LEMMA SimplePlain ==
  ASSUME NEW a, NEW p, Sequence(p),
         \A i \in 1..Len(p) : /\ StatementFits(a, p[i])
                              /\ p[i].op \in {"upsert", "update", "compute", "delete", "raise"}
  PROVE  Plain(a, p)
<1>1. Len(p) \in Nat
  BY DEF Sequence
<1>2. Couples(p)
  BY DEF Couples, Loads, Stores
<1>3. Quiet(p)
  BY DEF Quiet, Swaps, Trade, Asks
<1>4. OneTrade(p)
  BY <1>3 DEF OneTrade, Quiet
<1>5. Opens(p)
  <2>1. CASE p = << >>
    BY <2>1 DEF Opens
  <2>2. CASE p # << >>
    <3>1. 1 \in 1..Len(p)
      BY <1>1, <2>2, EmptyOnly
    <3> QED
      BY <3>1 DEF Opens
  <2> QED
    BY <2>1, <2>2
<1> QED
  BY <1>2, <1>3, <1>4, <1>5 DEF Plain, Program

LEMMA UpsertFits ==
  ASSUME NEW a, NEW s, s.op = "upsert",
         s.key[1] \in {"edge", "totals", "curve", "defaults", "discount", "whitelisted", "account",
                       "notification", "provision", "claim", "stake"}
  PROVE  StatementFits(a, s)
<1>1. s.key[1] # "pair" /\ s.key # SpotToken /\ ~IsBucket(s.key) /\ s.key # Tiers
  BY Keys
<1>2. \A r : Fits(s.key, r)
  BY <1>1 DEF Fits
<1> QED
  BY <1>1, <1>2 DEF StatementFits, Amends

LEMMA UpdateFits ==
  ASSUME NEW a, NEW s, s.op = "update", \A k \in s.keys : k[1] = "pair",
         NEW f, s.patch = f, DOMAIN f \subseteq {"dyn", "bps", "src", "cl", "listed"},
         "dyn" \in DOMAIN f => f.dyn \in BOOLEAN,
         "bps" \in DOMAIN f => f.bps \in FeeBps \cup {Unset},
         "src" \in DOMAIN f => f.src \in AnySource,
         "cl" \in DOMAIN f => f.cl \in BOOLEAN,
         "listed" \in DOMAIN f => f.listed \in BOOLEAN /\ a = "admin"
  PROVE  StatementFits(a, s)
<1>1. DOMAIN f \subseteq PairColumns
  BY DEF PairColumns
<1>2. ASSUME NEW k, k[1] = "pair" PROVE Amends(k, f)
  <2> SUFFICES ASSUME NEW r, Fits(k, r) PROVE Fits(k, Over(f, r))
    BY DEF Amends
  <2>1. r \in PairRow(scenario.days)
    BY <1>2 DEF Fits
  <2>2. Over(f, r) \in PairRow(scenario.days)
    BY <1>1, <2>1, PairPatch
  <2>3. k # SpotToken /\ ~IsBucket(k) /\ k # Tiers
    BY <1>2, Keys
  <2> QED
    BY <2>2, <2>3 DEF Fits
<1>3. DOMAIN s.patch \cap {"dayTvl", "day"} = {}
  OBVIOUS
<1>4. \A k \in s.keys : k[1] = "pair" /\ Amends(k, s.patch)
  BY <1>2
<1> QED
  BY <1>3, <1>4 DEF StatementFits

LEMMA RollupPlain ==
  ASSUME NEW a, NEW d, NEW delta \in BucketRow
  PROVE  Plain(a, Rollup(d, delta))
<1> DEFINE n == Len(Resolutions)
           turns == ChangeEach(n, LAMBDA j : Bucket(Resolutions[j], d),
                               LAMBDA j : bumpBucket(Resolutions[j], delta))
           all == << EnsureTotals >> \o turns
           first == << InRollup(EnsureTotals) >>
           rest == [i \in 1..(2 * n) |-> InRollup(turns[i])]
           p == Rollup(d, delta)
<1>1. n \in Nat /\ 2 * n \in Nat /\ \A j \in 1..n : j \in DOMAIN Resolutions
  BY SpotRowsAssumption
<1>2. turns = [i \in 1..(2 * n) |-> LET j == (i + 1) \div 2 IN
                 IF i % 2 = 1 THEN Find(Bucket(Resolutions[j], d))
                 ELSE Save(Bucket(Resolutions[j], d), bumpBucket(Resolutions[j], delta))]
  BY DEF ChangeEach
<1>3. \A j \in 1..n :
        /\ 2 * j - 1 \in 1..(2 * n) /\ 2 * j \in 1..(2 * n)
        /\ (2 * j - 1) % 2 = 1 /\ (2 * j) % 2 = 0
        /\ ((2 * j - 1) + 1) \div 2 = j /\ (2 * j + 1) \div 2 = j
  BY <1>1
<1> HIDE DEF n, turns, all, first, rest, p
<1>4. \A j \in 1..n :
        /\ turns[2 * j - 1] = Find(Bucket(Resolutions[j], d))
        /\ turns[2 * j] = Save(Bucket(Resolutions[j], d), bumpBucket(Resolutions[j], delta))
  BY <1>2, <1>3
<1>5. Sequence(turns) /\ Len(turns) = 2 * n
  <2>1. turns = [i \in 1..(2 * n) |-> turns[i]]
    BY <1>2
  <2> QED
    BY <1>1, <2>1, MadeSequence
<1>6. Sequence(rest) /\ Len(rest) = 2 * n
  <2>1. rest = [i \in 1..(2 * n) |-> rest[i]]
    BY DEF rest
  <2> QED
    BY <1>1, <2>1, MadeSequence
<1>7. Sequence(first) /\ Len(first) = 1 /\ first[1] = InRollup(EnsureTotals)
  BY OneSequence DEF first
<1>8. p = first \o rest
  <2>1. /\ Sequence(all) /\ Len(all) = 1 + 2 * n /\ all[1] = EnsureTotals
        /\ \A i \in 1..(2 * n) : all[1 + i] = turns[i]
    <3>1. /\ Sequence(<< EnsureTotals >>) /\ Len(<< EnsureTotals >>) = 1
          /\ << EnsureTotals >>[1] = EnsureTotals
      BY OneSequence
    <3> QED
      BY <1>5, <3>1, Joined DEF all
  <2>2. p = [i \in DOMAIN all |-> InRollup(all[i])]
    BY DEF p, Rollup, all, turns, n
  <2>3. DOMAIN all = 1..(1 + 2 * n)
    BY <1>1, <2>1 DEF Sequence
  <2>4. Sequence(p) /\ Len(p) = 1 + 2 * n
    <3>1. p = [i \in 1..(1 + 2 * n) |-> p[i]]
      BY <2>2, <2>3
    <3> QED
      BY <1>1, <3>1, MadeSequence
  <2> DEFINE q == first \o rest
  <2>5. /\ Sequence(q) /\ Len(q) = 1 + 2 * n /\ q[1] = first[1]
        /\ \A i \in 1..(2 * n) : q[1 + i] = rest[i]
    <3>1. /\ Sequence(q) /\ Len(q) = Len(first) + Len(rest)
          /\ \A i \in 1..Len(first) : q[i] = first[i]
          /\ \A i \in 1..Len(rest) : q[Len(first) + i] = rest[i]
      <4>1. Sequence(first) /\ Sequence(rest)
        BY <1>6, <1>7
      <4> QED
        BY <4>1, Joined
    <3> HIDE DEF q
    <3> QED
      BY <1>6, <1>7, <3>1
  <2> HIDE DEF q
  <2>6. ASSUME NEW i \in 1..(1 + 2 * n) PROVE p[i] = q[i]
    <3>1. CASE i = 1
      BY <1>1, <1>7, <2>1, <2>2, <2>3, <2>5, <3>1
    <3>2. CASE i # 1
      <4>1. i - 1 \in 1..(2 * n) /\ 1 + (i - 1) = i
        BY <1>1, <3>2
      <4>2. q[1 + (i - 1)] = InRollup(turns[i - 1])
        BY <2>5, <4>1 DEF rest
      <4>3. all[1 + (i - 1)] = turns[i - 1]
        BY <2>1, <4>1
      <4>4. p[i] = InRollup(all[i])
        BY <2>2, <2>3
      <4> QED
        BY <4>1, <4>2, <4>3, <4>4
    <3> QED
      BY <3>1, <3>2
  <2>7. p = q
    BY <2>4, <2>5, <2>6 DEF Sequence
  <2> QED
    BY <2>7 DEF q
<1>9. Plain(a, first)
  <2> DEFINE s == InRollup(EnsureTotals)
  <2>1. s.op = "upsert" /\ s.key = Totals
    BY DEF InRollup, Over, EnsureTotals, Upsert
  <2> HIDE DEF s
  <2>2. StatementFits(a, s)
    BY <2>1, Keys, UpsertFits
  <2>3. \A i \in 1..Len(first) : first[i] = s
    BY <1>7 DEF s
  <2> QED
    BY <1>7, <2>1, <2>2, <2>3, SimplePlain
<1>10. Plain(a, rest)
  <2>1. ASSUME NEW j \in 1..n
        PROVE  /\ rest[2 * j - 1].op = "find" /\ rest[2 * j - 1].skip = 0
               /\ rest[2 * j].op = "save" /\ StatementFits(a, rest[2 * j]) /\ ~Needy(rest[2 * j])
               /\ rest[2 * j].edit.of # "tradeToken" /\ rest[2 * j].key = rest[2 * j - 1].key
               /\ (Tagged(rest[2 * j]) <=> Tagged(rest[2 * j - 1]))
               /\ "beside" \notin DOMAIN rest[2 * j - 1]
    <3> DEFINE k == Bucket(Resolutions[j], d)
               e == bumpBucket(Resolutions[j], delta)
               f == rest[2 * j - 1]
               s == rest[2 * j]
    <3>1. f = InRollup(Find(k)) /\ s = InRollup(Save(k, e))
      BY <1>3, <1>4 DEF rest
    <3>2. k[1] = Resolutions[j] /\ IsBucket(k)
      BY <1>1, Keys DEF IsBucket
    <3>3. e.of = "bump" /\ e.delta \in BucketRow
      BY DEF bumpBucket, InResolution, BucketRow
    <3> HIDE DEF k, e, f, s
    <3>4. /\ f.op = "find" /\ f.skip = 0 /\ f.key = k
          /\ DOMAIN f = {"rollup", "op", "key", "skip"}
      BY <3>1 DEF InRollup, Over, Find
    <3>5. /\ s.op = "save" /\ s.key = k /\ s.edit = e
          /\ DOMAIN s = {"rollup", "op", "key", "edit"}
      BY <3>1 DEF InRollup, Over, Save
    <3>6. EditFits(k, e) /\ k # Discount
      BY <3>2, <3>3, Keys DEF EditFits
    <3>7. StatementFits(a, s)
      BY <3>3, <3>5, <3>6 DEF StatementFits
    <3> QED
      BY <3>3, <3>4, <3>5, <3>7 DEF Needy, Tagged, f, s
  <2> QED
    BY <1>1, <1>6, <2>1, TurnsProgram
<1> QED
  BY <1>8, <1>9, <1>10, JoinedPlain DEF p

LEMMA Records ==
  ASSUME NEW a, NEW d
  PROVE  /\ Plain(a, recordNewPair(d)) /\ Plain(a, recordSwapVolumeAndTrade(d))
         /\ Plain(a, recordLiquidityTvlUsd(d)) /\ Plain(a, Rollup(d, NewBucket))
<1>1. /\ NewBucket \in BucketRow /\ [NewBucket EXCEPT !.pairs = 1] \in BucketRow
      /\ [NewBucket EXCEPT !.volume = 1, !.trades = 1] \in BucketRow
      /\ [NewBucket EXCEPT !.tvl = 1] \in BucketRow
  BY DEF NewBucket, BucketRow
<1> QED
  BY <1>1, RollupPlain DEF recordNewPair, recordSwapVolumeAndTrade, recordLiquidityTvlUsd

LEMMA AccountPlain ==
  ASSUME NEW a, NEW e
  PROVE  Plain(a, recordSwap(e)) /\ Plain(a, recordLiquidityAdded(e))
<1>1. ASSUME NEW k, NEW r, k[1] \in {"account", "notification", "provision"}
      PROVE  StatementFits(a, Insert(k, r)) /\ Insert(k, r).op = "upsert"
  <2>1. Insert(k, r).op = "upsert" /\ Insert(k, r).key = k
    BY DEF Insert, Upsert
  <2> QED
    BY <1>1, <2>1, UpsertFits
<1>2. ASSUME NEW d, NEW n PROVE Plain(a, TouchAccount(d, n))
  <2> DEFINE s == Compute({Account}, [of |-> "account", day |-> d, trades |-> n])
             i == Insert(Account, NewAccount)
             p == << i, s >>
  <2>1. StatementFits(a, i) /\ i.op = "upsert"
    BY <1>1, Keys
  <2>2. StatementFits(a, s) /\ s.op = "compute"
    BY DEF StatementFits, Compute
  <2> HIDE DEF s, i
  <2>3. Sequence(p) /\ Len(p) = 2 /\ p[1] = i /\ p[2] = s
    BY TwoSequence
  <2> HIDE DEF p
  <2>4. \A j \in 1..Len(p) : p[j] = i \/ p[j] = s
    BY <2>3
  <2>5. Plain(a, p)
    BY <2>1, <2>2, <2>3, <2>4, SimplePlain
  <2> QED
    BY <2>5 DEF TouchAccount, p, i, s
<1>3. Plain(a, recordSwap(e))
  <2>1. Plain(a, << Insert(Notification(e.id), [read |-> FALSE]) >>)
    <3> DEFINE s == Insert(Notification(e.id), [read |-> FALSE])
    <3>1. StatementFits(a, s) /\ s.op = "upsert"
      BY <1>1, Keys
    <3> HIDE DEF s
    <3>2. Plain(a, << s >>)
      BY <3>1, OnePlain
    <3> QED
      BY <3>2 DEF s
  <2> QED
    BY <1>2, <2>1, JoinedPlain DEF recordSwap
<1>4. Plain(a, recordLiquidityAdded(e))
  <2> DEFINE s == Insert(Notification(e.id), [read |-> FALSE])
             t == Insert(Provision(e.id), [of |-> "mint"])
             p == << s, t >>
  <2>1. StatementFits(a, s) /\ s.op = "upsert" /\ StatementFits(a, t) /\ t.op = "upsert"
    BY <1>1, Keys
  <2> HIDE DEF s, t
  <2>2. Sequence(p) /\ Len(p) = 2 /\ p[1] = s /\ p[2] = t
    BY TwoSequence
  <2> HIDE DEF p
  <2>3. \A j \in 1..Len(p) : p[j] = s \/ p[j] = t
    BY <2>2
  <2>4. Plain(a, p)
    BY <2>1, <2>2, <2>3, SimplePlain
  <2>5. Plain(a, p \o TouchAccount(e.day, 0))
    BY <1>2, <2>4, JoinedPlain
  <2> QED
    BY <2>5 DEF recordLiquidityAdded, p, s, t
<1> QED
  BY <1>3, <1>4

LEMMA SaveFits ==
  ASSUME NEW a, NEW k, NEW e, k # Discount, EditFits(k, e), e.of = "list" => a = "admin",
         e.of = "measure" => a \in Cron, e.of # "tradeToken"
  PROVE  /\ StatementFits(a, Save(k, e)) /\ Stores(Save(k, e)) /\ ~Tagged(Save(k, e))
         /\ ~Trade(Save(k, e)) /\ Save(k, e).key = k
<1> DEFINE s == Save(k, e)
<1>1. s.op = "save" /\ s.key = k /\ s.edit = e /\ DOMAIN s = {"op", "key", "edit"}
  BY DEF Save
<1> HIDE DEF s
<1>2. StatementFits(a, s) /\ Stores(s) /\ ~Tagged(s) /\ ~Trade(s)
  BY <1>1 DEF StatementFits, Stores, Tagged, Trade
<1> QED
  BY <1>1, <1>2 DEF s

LEMMA NeedingSave ==
  ASSUME NEW a, NEW k, NEW e, k # Discount, EditFits(k, e), e.of = "list" => a = "admin",
         e.of = "measure" => a \in Cron, e.of # "tradeToken"
  PROVE  /\ Plain(a, Needing(k, << Save(k, e) >>))
         /\ \A r : Plain(a, r) => Plain(a, Needing(k, << Save(k, e) >> \o r))
<1> DEFINE s == Save(k, e)
<1>1. /\ StatementFits(a, s) /\ Stores(s) /\ ~Tagged(s) /\ ~Trade(s) /\ s.key = k
  BY SaveFits
<1> HIDE DEF s
<1>2. ASSUME NEW r, Plain(a, r) PROVE Plain(a, Needing(k, << s >> \o r))
  <2>1. Plain(a, Needing(s.key, << s >> \o r))
    BY <1>1, <1>2, NeedingPlain
  <2> QED
    BY <1>1, <2>1
<1>3. << s >> \o << >> = << s >>
  BY OneSequence, JoinEmpty
<1>4. Plain(a, Needing(k, << s >>))
  <2>1. Plain(a, Needing(k, << s >> \o << >>))
    BY <1>2, EmptyPlain
  <2> QED
    BY <1>3, <2>1
<1> QED
  BY <1>2, <1>4 DEF s

LEMMA PairEditFits ==
  ASSUME NEW p, NEW e,
         \/ e.of \in {"minimal", "list"} \/ e.of = "mintUsd"
         \/ e.of \in {"mintPair", "tradePair"} /\ e.day \in 1..now,
         e.of = "minimal" => e.pool \in Pool,
         e.of = "list" => e.listed \in BOOLEAN
  PROVE  EditFits(Pair(p), e) /\ Pair(p) # Discount
<1>1. /\ Pair(p)[1] = "pair" /\ ~IsBucket(Pair(p)) /\ Pair(p) # SpotToken /\ Pair(p) # Tiers
      /\ Pair(p) # Discount
  BY Keys
<1> QED
  BY <1>1 DEF EditFits

LEMMA TokenEditFits ==
  ASSUME NEW e,
         \/ e.of \in {"tokenInfo", "backfill", "list"}
         \/ e.of \in {"mintToken", "tradeToken", "measure"} /\ e.day \in 1..now,
         e.of = "measure" => e.volume \in Nat,
         e.of = "list" => e.listed \in BOOLEAN
  PROVE  EditFits(SpotToken, e) /\ SpotToken # Discount
<1>1. SpotToken[1] # "pair" /\ ~IsBucket(SpotToken) /\ SpotToken # Tiers /\ SpotToken # Discount
  BY Keys
<1> QED
  BY <1>1 DEF EditFits

LEMMA MintPlain ==
  ASSUME NEW a, NEW p \in Pool, NEW e, e.day \in 1..now
  PROVE  Plain(a, onLiquidityAdded(p, e))
<1> DEFINE k == Pair(p)
           mint == [of |-> "mintPair", day |-> e.day]
           usd == [of |-> "mintUsd"]
           X == Needing(k, << Save(k, usd) >>)
           Y == bumpTokenLiquidityFromMint(e.day)
           Z == recordLiquidityTvlUsd(e.day)
           A == << Save(k, mint) >>
<1>1. Plain(a, X)
  <2>1. EditFits(k, usd) /\ k # Discount /\ usd.of = "mintUsd"
    BY PairEditFits
  <2> HIDE DEF usd, k
  <2> QED
    BY <2>1, NeedingSave
<1>2. Plain(a, Y)
  <2> DEFINE t == [of |-> "mintToken", day |-> e.day]
  <2>1. EditFits(SpotToken, t) /\ SpotToken # Discount /\ t.of = "mintToken"
    BY TokenEditFits
  <2>2. Y = Change(SpotToken, t)
    BY DEF bumpTokenLiquidityFromMint
  <2> HIDE DEF t
  <2>3. Plain(a, Change(SpotToken, t))
    BY <2>1, ChangePlain
  <2> QED
    BY <2>2, <2>3
<1>3. Plain(a, Z)
  BY Records
<1>4. Plain(a, Needing(k, A \o ((X \o Y) \o Z)))
  <2>1. EditFits(k, mint) /\ k # Discount /\ mint.of = "mintPair"
    BY PairEditFits
  <2>2. Plain(a, (X \o Y) \o Z)
    BY <1>1, <1>2, <1>3, JoinedPlain
  <2> HIDE DEF mint, k, X, Y, Z
  <2> QED
    BY <2>1, <2>2, NeedingSave
<1>5. incrementPairLiquidityFromAmounts(p, e.day) = Needing(k, ((A \o X) \o Y) \o Z)
  BY DEF incrementPairLiquidityFromAmounts
<1>6. ((A \o X) \o Y) \o Z = A \o ((X \o Y) \o Z)
  <2>1. Sequence(A) /\ Sequence(X) /\ Sequence(Y) /\ Sequence(Z)
    BY <1>1, <1>2, <1>3, OneSequence DEF Plain, Program
  <2> HIDE DEF A, X, Y, Z
  <2>2. (A \o X) \o Y = A \o (X \o Y)
    BY <2>1, JoinAgain
  <2> DEFINE W == X \o Y
  <2>3. Sequence(W)
    BY <2>1, Joined
  <2> HIDE DEF W
  <2>4. (A \o W) \o Z = A \o (W \o Z)
    BY <2>1, <2>3, JoinAgain
  <2> QED
    BY <2>2, <2>4 DEF W
<1> HIDE DEF k, A, X, Y, Z, mint
<1>7. Plain(a, incrementPairLiquidityFromAmounts(p, e.day))
  BY <1>4, <1>5, <1>6
<1> QED
  BY <1>7, AccountPlain, JoinedPlain DEF onLiquidityAdded

LEMMA ChangeEachPlain ==
  ASSUME NEW a, NEW n \in Int, NEW p, NEW K, NEW e,
         p = [i \in 1..(2 * n) |-> LET j == (i + 1) \div 2 IN
                IF i % 2 = 1 THEN Find(K[j]) ELSE Save(K[j], e)],
         \A j \in 1..n : K[j] # Discount /\ EditFits(K[j], e),
         e.of \notin {"mintPair", "mintUsd", "backfill", "measure", "list", "count", "tradeToken"}
  PROVE  Plain(a, p)
<1>1. CASE n \in Nat
  <2>1. Sequence(p) /\ Len(p) = 2 * n
    <3>1. p = [i \in 1..(2 * n) |-> p[i]] /\ 2 * n \in Nat
      BY <1>1
    <3> QED
      BY <3>1, MadeSequence
  <2>2. ASSUME NEW j \in 1..n
        PROVE  /\ p[2 * j - 1].op = "find" /\ p[2 * j - 1].skip = 0
               /\ p[2 * j].op = "save" /\ StatementFits(a, p[2 * j]) /\ ~Needy(p[2 * j])
               /\ p[2 * j].edit.of # "tradeToken" /\ p[2 * j].key = p[2 * j - 1].key
               /\ (Tagged(p[2 * j]) <=> Tagged(p[2 * j - 1])) /\ "beside" \notin DOMAIN p[2 * j - 1]
    <3>1. /\ 2 * j - 1 \in 1..(2 * n) /\ 2 * j \in 1..(2 * n)
          /\ (2 * j - 1) % 2 = 1 /\ (2 * j) % 2 = 0
          /\ ((2 * j - 1) + 1) \div 2 = j /\ (2 * j + 1) \div 2 = j
      BY <1>1
    <3>2. p[2 * j - 1] = Find(K[j]) /\ p[2 * j] = Save(K[j], e)
      BY <3>1
    <3>3. StatementFits(a, Save(K[j], e)) /\ ~Tagged(Save(K[j], e))
      BY SaveFits
    <3>4. /\ Find(K[j]).op = "find" /\ Find(K[j]).skip = 0 /\ Find(K[j]).key = K[j]
          /\ ~Tagged(Find(K[j])) /\ "beside" \notin DOMAIN Find(K[j])
      BY DEF Find, Tagged
    <3>5. /\ Save(K[j], e).op = "save" /\ Save(K[j], e).key = K[j] /\ Save(K[j], e).edit = e
      BY DEF Save
    <3> QED
      BY <3>2, <3>3, <3>4, <3>5 DEF Needy
  <2> QED
    BY ONLY <1>1, <2>1, <2>2, TurnsProgram
<1>2. CASE n \notin Nat
  <2>1. p = << >>
    <3>1. 1..(2 * n) = {}
      BY <1>2
    <3>2. Len(p) = 0 /\ Sequence(p)
      <4>1. p = [i \in 1..0 |-> p[i]] /\ 0 \in Nat
        BY <3>1
      <4> QED
        BY <4>1, MadeSequence
    <3> QED
      BY <3>2, EmptyOnly
  <2> QED
    BY <2>1, EmptyPlain
<1> QED
  BY <1>1, <1>2

LEMMA BarsCounted ==
  ASSUME NEW lo \in Int, NEW hi \in Int
  PROVE  Len(clHistogramBucketsForRange(lo, hi)) \in Nat
<1> DEFINE bars == clHistogramBucketsForRange(lo, hi)
           m == (hi - 1) \div Width - lo \div Width + 1
<1>1. m \in Int
  BY SpotRowsAssumption
<1>2. bars = [j \in 1..m |-> (lo \div Width + j - 1) * Width]
  BY DEF clHistogramBucketsForRange
<1> HIDE DEF m
<1>3. bars = [j \in 1..m |-> bars[j]]
  BY <1>2
<1> HIDE DEF bars
<1>4. CASE m \in Nat
  <2>1. Len(bars) = m
    BY <1>3, <1>4, MadeSequence
  <2> QED
    BY <1>4, <2>1 DEF bars
<1>5. CASE m \notin Nat
  <2>1. 1..m = 1..0
    BY <1>1, <1>5
  <2>2. bars = [j \in 1..0 |-> bars[j]]
    BY <1>3, <2>1
  <2>3. Len(bars) = 0
    BY <2>2, MadeSequence
  <2> QED
    BY <2>3 DEF bars
<1> QED
  BY <1>4, <1>5

LEMMA ConcentratedPlain ==
  ASSUME NEW a, NEW p \in Pool, NEW e, e.day \in 1..now, e.lo \in Int, e.hi \in Int
  PROVE  Plain(a, onCLLiquidityAdded(p, e))
<1>1. Plain(a, onLiquidityAdded(p, e))
  BY MintPlain
<1>2. ASSUME NEW i, NEW end PROVE Plain(a, bumpTickLiquidity(p, i, end))
  <2> DEFINE x == [of |-> "tick", end |-> end]
             k == Tick(p, i)
  <2>1. k[1] = "tick"
    BY Keys
  <2>2. k[1] # "pair" /\ ~IsBucket(k) /\ k # SpotToken /\ k # Tiers /\ k # Discount
    BY <2>1, Keys
  <2>3. x.of = "tick"
    OBVIOUS
  <2> HIDE DEF x, k
  <2>4. EditFits(k, x)
    BY <2>2, <2>3 DEF EditFits
  <2>5. Plain(a, Change(k, x))
    BY <2>2, <2>3, <2>4, ChangePlain
  <2> QED
    BY <2>5 DEF bumpTickLiquidity, x, k
<1>3. Plain(a, applyClTickBoundaryLiquidity(p, e.lo, e.hi))
  BY <1>2, JoinedPlain DEF applyClTickBoundaryLiquidity
<1>4. Plain(a, applyClLiquidityHistogram(p, e.lo, e.hi))
  <2> DEFINE bars == clHistogramBucketsForRange(e.lo, e.hi)
             n == Len(bars)
             K == [j \in 1..n |-> Bar(p, bars[j])]
             x == [of |-> "bar"]
             q == applyClLiquidityHistogram(p, e.lo, e.hi)
  <2>1. n \in Nat
    BY BarsCounted
  <2>2. q = [i \in 1..(2 * n) |-> LET j == (i + 1) \div 2 IN
               IF i % 2 = 1 THEN Find(Bar(p, bars[j])) ELSE Save(Bar(p, bars[j]), x)]
    BY DEF applyClLiquidityHistogram, ChangeEach
  <2> HIDE DEF bars, n, q
  <2>3. \A i \in 1..(2 * n) : K[(i + 1) \div 2] = Bar(p, bars[(i + 1) \div 2])
    <3> TAKE i \in 1..(2 * n)
    <3>1. (i + 1) \div 2 \in 1..n
      BY <2>1
    <3> QED
      BY <3>1
  <2>4. q = [i \in 1..(2 * n) |-> LET j == (i + 1) \div 2 IN
               IF i % 2 = 1 THEN Find(K[j]) ELSE Save(K[j], x)]
    BY <2>2, <2>3
  <2>5. \A j \in 1..n : K[j] # Discount /\ EditFits(K[j], x)
    <3> TAKE j \in 1..n
    <3>1. K[j][1] = "bar"
      BY Keys
    <3>2. K[j][1] # "pair" /\ ~IsBucket(K[j]) /\ K[j] # SpotToken /\ K[j] # Tiers /\ K[j] # Discount
      BY <3>1, Keys
    <3> HIDE DEF K
    <3> QED
      BY <3>2 DEF EditFits
  <2>6. n \in Int /\ x.of = "bar"
    BY <2>1
  <2> HIDE DEF K, x
  <2>7. Plain(a, q)
    BY <2>4, <2>5, <2>6, ChangeEachPlain
  <2> QED
    BY <2>7 DEF q
<1>5. Plain(a, onLiquidityAdded(p, e) \o applyClTickBoundaryLiquidity(p, e.lo, e.hi))
  BY <1>1, <1>3, JoinedPlain
<1> QED
  BY <1>4, <1>5, JoinedPlain DEF onCLLiquidityAdded

\* The wall clock, the cron's measurements and the catalog.
LEMMA MeasurePlain ==
  ASSUME NEW a, NEW d \in 1..now, NEW n \in Nat
  PROVE  /\ a \in Cron => Plain(a, flushSpotTokenProfileMetricsChunk(d, n))
         /\ Plain(a, flushBfFieldsForTokenChunk)
<1> DEFINE x == [of |-> "measure", day |-> d, volume |-> n]
           y == [of |-> "backfill"]
<1>1. EditFits(SpotToken, x) /\ SpotToken # Discount /\ x.of = "measure"
  BY TokenEditFits
<1>2. EditFits(SpotToken, y) /\ y.of = "backfill"
  BY TokenEditFits
<1> HIDE DEF x, y
<1>3. a \in Cron => Plain(a, Needing(SpotToken, << Save(SpotToken, x) >>))
  BY <1>1, NeedingSave
<1>4. Plain(a, Needing(SpotToken, << Save(SpotToken, y) >>))
  BY <1>1, <1>2, NeedingSave
<1> QED
  BY <1>3, <1>4 DEF flushSpotTokenProfileMetricsChunk, flushBfFieldsForTokenChunk, x, y

LEMMA CatalogPlain ==
  ASSUME NEW p, NEW v \in BOOLEAN
  PROVE  /\ Plain("admin", setTokenListed(v)) /\ Plain("admin", setPairListed(p, v))
         /\ Plain("admin", setListed(p, v))
<1>1. ASSUME NEW w \in BOOLEAN PROVE Plain("admin", setTokenListed(w))
  <2> DEFINE x == List(w)
  <2>1. x.of = "list" /\ x.listed \in BOOLEAN
    BY DEF List
  <2> HIDE DEF x
  <2>2. EditFits(SpotToken, x) /\ SpotToken # Discount
    BY <2>1, TokenEditFits
  <2>3. Plain("admin", Needing(SpotToken, << Save(SpotToken, x) >>))
    BY <2>1, <2>2, NeedingSave
  <2> QED
    BY <2>3 DEF setTokenListed, x
<1>2. Plain("admin", setPairListed(p, v))
  <2> DEFINE x == List(v)
             r == IF v THEN setTokenListed(TRUE) ELSE << >>
  <2>1. x.of = "list" /\ x.listed \in BOOLEAN
    BY DEF List
  <2>2. Plain("admin", r)
    BY <1>1, EmptyPlain
  <2>3. setPairListed(p, v) = Needing(Pair(p), << Save(Pair(p), x) >> \o r)
    BY DEF setPairListed
  <2> HIDE DEF x, r
  <2>4. EditFits(Pair(p), x) /\ Pair(p) # Discount
    BY <2>1, PairEditFits
  <2>5. Plain("admin", Needing(Pair(p), << Save(Pair(p), x) >> \o r))
    BY <2>1, <2>2, <2>4, NeedingSave
  <2> QED
    BY <2>3, <2>5
<1>3. Plain("admin", setListed(p, v))
  <2> DEFINE f == [listed |-> v]
             s == Update({Pair(p)}, AnySource, f)
  <2>1. s.op = "update" /\ s.keys = {Pair(p)} /\ s.patch = f
    BY DEF Update
  <2>2. DOMAIN f = {"listed"} /\ f.listed \in BOOLEAN
    OBVIOUS
  <2> HIDE DEF f, s
  <2>3. \A k \in s.keys : k[1] = "pair"
    BY <2>1, Keys
  <2>4. StatementFits("admin", s)
    BY <2>1, <2>2, <2>3, UpdateFits
  <2>5. Plain("admin", << s >>)
    BY <2>1, <2>4, OnePlain
  <2> QED
    BY <2>5 DEF setListed, s, f
<1> QED
  BY <1>1, <1>2, <1>3
-----------------------------------------------------------------------------
(* What a query is answered with.                                          *)

LEMMA LeastOf ==
  ASSUME NEW T, T \subseteq Nat, T # {}
  PROVE  Min(T) \in T /\ \A y \in T : Min(T) <= y
<1> DEFINE R == OpToRel(<, Nat)
<1>1. \A x, y \in Nat : y < x => <<y, x>> \in R
  BY DEF OpToRel
<1>2. IsWellFoundedOn(R, Nat)
  BY NatLessThanWellFounded
<1> HIDE DEF R
<1>3. PICK x \in T : \A y \in T : ~(<<y, x>> \in R)
  BY <1>2, WFMin
<1>4. \A y \in T : ~(y < x)
  BY <1>1, <1>3, Zenon
<1>5. \E z \in T : \A y \in T : z <= y
  BY <1>4
<1> QED
  BY <1>5 DEF Min

LEMMA FirstPool ==
  ASSUME NEW T, T \subseteq Pool
  PROVE  First(T) \subseteq Pool /\ \A p \in First(T) : p \in T
<1>1. T \subseteq Nat
  BY SpotRowsAssumption DEF Pool
<1>2. CASE T = {}
  BY <1>2 DEF First
<1>3. CASE T # {}
  <2>1. First(T) = {Min(T)} /\ Min(T) \in T
    BY <1>1, <1>3, LeastOf DEF First
  <2> HIDE DEF Min
  <2> QED
    BY <2>1
<1> QED
  BY <1>2, <1>3

LEMMA QueryPlain ==
  ASSUME NEW a, NEW q, q.op = "query", QueryFits(q), q.of \notin {"trade", "candles"},
         q.of = "measure" => a \in Cron
  PROVE  Plain(a, << q >>)
<1>1. StatementFits(a, q)
  BY DEF StatementFits
<1> QED
  BY <1>1, OnePlain

LEMMA QuietApart ==
  ASSUME NEW p, NEW r, Quiet(p), Quiet(r)
  PROVE  Apart(p, r) /\ Apart(r, p)
BY DEF Quiet, Apart, Swaps

\* Its swap, if any, is of day d.
OfTheDay(p, d) ==
  \A i \in 1..Len(p) :
    /\ Trade(p[i]) => p[i].edit.day = d
    /\ ~Asks(p[i], "trade") /\ ~Asks(p[i], "candles") /\ p[i].op # "candle"

LEMMA JoinedOfTheDay ==
  ASSUME NEW a, NEW p, NEW r, NEW d, Plain(a, p), Program(a, r), Opens(r), OfTheDay(r, d)
  PROVE  /\ Program(a, p \o r) /\ Opens(p \o r) /\ OfTheDay(p \o r, d)
         /\ Program(a, r \o p) /\ (r # << >> => Opens(r \o p)) /\ OfTheDay(r \o p, d)
<1>1. Program(a, p \o r) /\ Opens(p \o r)
  BY PlainFirst
<1>2. Program(a, r \o p) /\ Opens(r \o p)
  <2>1. Apart(r, p) /\ Program(a, p) /\ Opens(p)
    BY DEF Plain, Quiet, Apart, Swaps
  <2> QED
    BY <2>1, JoinedProgram
<1>3. Sequence(p) /\ Sequence(r) /\ Len(p) \in Nat /\ Len(r) \in Nat
  BY DEF Plain, Program, Sequence
<1>4. ASSUME NEW u, NEW v, Sequence(u), Sequence(v), OfTheDay(u, d), OfTheDay(v, d)
      PROVE  OfTheDay(u \o v, d)
  <2> DEFINE w == u \o v
  <2>1. /\ Sequence(w) /\ Len(w) = Len(u) + Len(v) /\ Len(u) \in Nat /\ Len(v) \in Nat
        /\ \A i \in 1..Len(u) : w[i] = u[i]
        /\ \A i \in 1..Len(v) : w[Len(u) + i] = v[i]
    BY <1>4, Joined DEF Sequence
  <2> HIDE DEF w
  <2>2. ASSUME NEW i \in 1..Len(w)
        PROVE  (i \in 1..Len(u) /\ w[i] = u[i]) \/ (\E j \in 1..Len(v) : w[i] = v[j])
    <3>1. CASE i <= Len(u)
      BY <2>1, <3>1
    <3>2. CASE i > Len(u)
      <4>1. i - Len(u) \in 1..Len(v) /\ Len(u) + (i - Len(u)) = i
        BY <2>1, <3>2
      <4> QED
        BY <2>1, <4>1
    <3> QED
      BY <2>1, <3>1, <3>2
  <2>3. OfTheDay(w, d)
    BY <1>4, <2>2 DEF OfTheDay
  <2> QED
    BY <2>3 DEF w
<1>5. OfTheDay(p, d)
  BY DEF Plain, Quiet, OfTheDay, Swaps
<1> QED
  BY <1>1, <1>2, <1>3, <1>4, <1>5

LEMMA TradeProgram ==
  ASSUME NEW a, NEW d \in 1..now
  PROVE  LET p == Change(SpotToken, [of |-> "tradeToken", day |-> d])
         IN Program(a, p) /\ Opens(p) /\ OfTheDay(p, d)
<1> DEFINE x == [of |-> "tradeToken", day |-> d]
           p == Change(SpotToken, x)
           f == Find(SpotToken)
           s == Save(SpotToken, x)
<1>1. /\ x.of = "tradeToken" /\ x.day = d
      /\ EditFits(SpotToken, x) /\ SpotToken # Discount
  BY TokenEditFits
<1>2. Sequence(p) /\ Len(p) = 2 /\ p[1] = f /\ p[2] = s
  BY TwoSequence DEF Change
<1> HIDE DEF x, p
<1>3. /\ f.op = "find" /\ f.key = SpotToken /\ f.skip = 0 /\ DOMAIN f = {"op", "key", "skip"}
      /\ s.op = "save" /\ s.key = SpotToken /\ s.edit = x /\ DOMAIN s = {"op", "key", "edit"}
  BY DEF Find, Save
<1> HIDE DEF f, s
<1>4. StatementFits(a, f) /\ StatementFits(a, s)
  BY <1>1, <1>3 DEF StatementFits
<1>5. ~Tagged(f) /\ ~Tagged(s) /\ "beside" \notin DOMAIN f /\ ~Needy(s) /\ Loads(f) /\ Stores(s)
      /\ ~Loads(s) /\ ~Stores(f)
  BY <1>1, <1>3 DEF Tagged, Needy, Loads, Stores
<1>6. \A i \in 1..Len(p) : i = 1 \/ i = 2
  BY <1>2
<1>7. Couples(p)
  <2>1. \A i \in 1..Len(p) : Loads(p[i]) => i = 1
    BY <1>2, <1>5, <1>6
  <2>2. 1 + 1 = 2 /\ 2 - 1 = 1 /\ ~(0 > 0)
    OBVIOUS
  <2>3. \A i \in 1..Len(p) :
          i > 1 => p[i].op \notin {"write", "candle"} /\ (Stores(p[i]) => Loads(p[i - 1]))
    BY <1>2, <1>3, <1>5, <1>6
  <2>4. \A i \in 1..Len(p) :
          Loads(p[i]) =>
            /\ i < Len(p) /\ Stores(p[i + 1]) /\ p[i + 1].key = p[i].key
            /\ (Tagged(p[i + 1]) <=> Tagged(p[i])) /\ "beside" \notin DOMAIN p[i]
            /\ Needy(p[i + 1]) => p[i].skip > 0
            /\ p[i].skip > 0 => i + p[i].skip <= Len(p) /\ ~Loads(p[i + p[i].skip])
    BY <1>2, <1>3, <1>5, <2>1
  <2> QED
    BY <2>3, <2>4 DEF Couples
<1>8. ~Swaps(f) /\ ~Asks(f, "candles") /\ ~Asks(s, "candles") /\ ~Asks(s, "trade") /\ ~Asks(f, "trade")
      /\ ~Trade(f)
  BY <1>3 DEF Swaps, Trade, Asks
<1>9. OneTrade(p)
  BY <1>2, <1>3, <1>6, <1>8 DEF OneTrade
<1>10. Opens(p) /\ OfTheDay(p, d)
  BY <1>1, <1>2, <1>3, <1>6, <1>8 DEF Opens, OfTheDay
<1>11. Program(a, p)
  BY <1>2, <1>4, <1>6, <1>7, <1>9 DEF Program
<1> QED
  BY <1>10, <1>11 DEF p, x

LEMMA TradeAnswer ==
  ASSUME NEW a, NEW T, T \subseteq Pool, NEW q, q.day \in 1..now
  PROVE  /\ Program(a, onSwapCandles(T, q))
         /\ onSwapCandles(T, q) # << >> /\ onSwapCandles(T, q)[1].op = "candle"
<1> DEFINE d == q.day
           one == [of |-> "tradePair", day |-> d]
           X == IF T = {} THEN << >> ELSE Change(Pair(CHOOSE p \in T : TRUE), one)
           t == Change(SpotToken, [of |-> "tradeToken", day |-> d])
           Y == recordSwapVolumeAndTrade(d)
           Z == recordSwap(q)
           c == Candle(d, 1)
           b == Query([of |-> "backfill"])
           W == ((X \o t) \o Y) \o Z
           V == << b >> \o W
<1>1. Plain(a, X)
  <2>1. CASE T = {}
    BY <2>1, EmptyPlain
  <2>2. CASE T # {}
    <3> DEFINE k == Pair(CHOOSE p \in T : TRUE)
    <3>1. EditFits(k, one) /\ k # Discount /\ one.of = "tradePair"
      BY PairEditFits
    <3>2. X = Change(k, one)
      BY <2>2
    <3> HIDE DEF k, one, X
    <3> QED
      BY <3>1, <3>2, ChangePlain
  <2> QED
    BY <2>1, <2>2
<1>2. Program(a, t) /\ Opens(t) /\ OfTheDay(t, d)
  BY TradeProgram
<1>3. Plain(a, Y) /\ Plain(a, Z)
  BY Records, AccountPlain
<1>4. b.op = "query" /\ b.of = "backfill"
  BY DEF Query, Over
<1>5. onSwapCandles(T, q) = << c, b >> \o W
  BY DEF onSwapCandles, refreshSpotPairAndTokenProfiles
<1>6. /\ c.op = "candle" /\ c.day = d /\ c.count = 1
      /\ DOMAIN c = {"op", "day", "count"}
  BY DEF Candle
<1> HIDE DEF d, X, t, Y, Z, c, b
<1>7. Program(a, W) /\ Opens(W) /\ OfTheDay(W, d)
  <2>1. Program(a, X \o t) /\ Opens(X \o t) /\ OfTheDay(X \o t, d)
    BY <1>1, <1>2, JoinedOfTheDay
  <2> DEFINE u == X \o t
  <2>2. u # << >>
    <3>1. Sequence(X) /\ Sequence(t) /\ Sequence(u) /\ Len(u) = Len(X) + Len(t)
      BY <1>1, <1>2, Joined DEF Plain, Program
    <3>2. Len(t) = 2
      BY TwoSequence DEF t, Change
    <3>3. Len(X) \in Nat
      BY <3>1 DEF Sequence
    <3> HIDE DEF u
    <3> QED
      BY <3>1, <3>2, <3>3, EmptyOnly
  <2> HIDE DEF u
  <2>3. Program(a, u \o Y) /\ Opens(u \o Y) /\ OfTheDay(u \o Y, d)
    BY <1>3, <2>1, <2>2, JoinedOfTheDay DEF u
  <2> DEFINE v == u \o Y
  <2>4. v # << >>
    <3>1. Sequence(u) /\ Sequence(Y) /\ Sequence(v) /\ Len(v) = Len(u) + Len(Y)
      BY <1>3, <2>1, Joined DEF Plain, Program, u
    <3>2. Len(u) # 0 /\ Len(u) \in Nat /\ Len(Y) \in Nat
      BY <2>2, <3>1, EmptyOnly DEF Sequence
    <3> HIDE DEF v
    <3> QED
      BY <3>1, <3>2, EmptyOnly
  <2> HIDE DEF v
  <2>5. Program(a, v \o Z) /\ Opens(v \o Z) /\ OfTheDay(v \o Z, d)
    BY <1>3, <2>3, <2>4, JoinedOfTheDay DEF v
  <2> QED
    BY <2>5 DEF u, v
<1> HIDE DEF W
<1>8. Plain(a, << b >>)
  <2>1. QueryFits(b)
    BY <1>4 DEF QueryFits
  <2> QED
    BY <1>4, <2>1, QueryPlain
<1>9. Program(a, V) /\ Opens(V) /\ OfTheDay(V, d)
  BY <1>7, <1>8, JoinedOfTheDay
<1>10. << c, b >> \o W = << c >> \o V
  <2>1. << c, b >> = << c >> \o << b >>
    BY TwoJoined
  <2>2. Sequence(<< c >>) /\ Sequence(<< b >>) /\ Sequence(W)
    BY <1>7, OneSequence DEF Program
  <2>3. (<< c >> \o << b >>) \o W = << c >> \o (<< b >> \o W)
    BY <2>2, JoinAgain
  <2> QED
    BY <2>1, <2>3
<1> HIDE DEF V
<1>11. Program(a, << c >>)
  <2> DEFINE p == << c >>
  <2>1. Sequence(p) /\ Len(p) = 1 /\ p[1] = c
    BY OneSequence
  <2> HIDE DEF p
  <2>2. StatementFits(a, c)
    BY <1>6 DEF StatementFits, d, Tagged
  <2>3. \A i \in 1..Len(p) : i = 1
    BY <2>1
  <2>4. Couples(p)
    BY <1>6, <2>1, <2>3 DEF Couples, Loads
  <2>5. ~Swaps(c) /\ ~Asks(c, "candles") /\ ~Trade(c)
    BY <1>6 DEF Swaps, Trade, Asks
  <2>6. OneTrade(p)
    BY <2>1, <2>3, <2>5 DEF OneTrade
  <2> QED
    BY <2>1, <2>2, <2>3, <2>4, <2>6 DEF Program, p
<1>12. Apart(<< c >>, V)
  <2> DEFINE p == << c >>
  <2>1. Len(p) = 1 /\ p[1] = c
    BY OneSequence
  <2> HIDE DEF p
  <2>2. \A i \in 1..Len(p) : p[i] = c
    BY <2>1
  <2>3. ~Swaps(c) /\ ~Asks(c, "candles")
    BY <1>6 DEF Swaps, Trade, Asks
  <2>4. Apart(p, V)
    BY <1>6, <1>9, <2>2, <2>3 DEF Apart, OfTheDay
  <2> QED
    BY <2>4 DEF p
<1>13. Program(a, << c >> \o V)
  BY <1>9, <1>11, <1>12, JoinedProgram
<1>14. << c >> \o V # << >> /\ (<< c >> \o V)[1] = c
  <2>1. Sequence(<< c >>) /\ Len(<< c >>) = 1 /\ << c >>[1] = c /\ Sequence(V) /\ Len(V) \in Nat
    BY <1>9, OneSequence DEF Program, Sequence
  <2> DEFINE u == << c >>
  <2> HIDE DEF u
  <2>2. Sequence(u \o V) /\ Len(u \o V) = 1 + Len(V) /\ (u \o V)[1] = c
    BY <2>1, Joined DEF u
  <2>3. u \o V # << >>
    BY <2>1, <2>2, EmptyOnly
  <2> QED
    BY <2>2, <2>3 DEF u
<1> QED
  BY <1>5, <1>6, <1>10, <1>13, <1>14

LEMMA AnswerProgram ==
  ASSUME scenario \in Scenarios, now \in 1..scenario.days, Rows, Candled,
         NEW a, NEW q, QueryFits(q), q.of = "measure" => a \in Cron
  PROVE  /\ q.of \notin {"trade", "candles"} => Plain(a, Answer(q))
         /\ q.of = "trade" =>
              Program(a, Answer(q)) /\ Answer(q) # << >> /\ Answer(q)[1].op = "candle"
         /\ q.of = "candles" =>
              Answer(q) = << >> \/ (Answer(q) = << Candle(q.day, 0) >> /\ Program(a, Answer(q)))
<1>1. \A C : Pools(C) \subseteq Pool
  BY DEF Pools
<1>2. /\ \A p : ResolveByClass(p) \subseteq Pool
      /\ \A p : p \in Pool => ResolveCL(p) \subseteq Pool
      /\ ResolveByTokens \subseteq Pool
  BY <1>1, FirstPool DEF ResolveByClass, ResolveCL, ResolveByTokens
<1>3. \A T : T # {} => (CHOOSE p \in T : TRUE) \in T
  OBVIOUS
<1>4. CASE q.of = "tier"
  <2> DEFINE p == q.pool
             f == [bps |-> rows[Tiers][Class[p]], src |-> "factory_tier"]
             s == Update({Pair(p)}, AnySource, f)
  <2>1. p \in Pool /\ ~CL(p) /\ Class[p] \in {"volatile", "stable"}
    BY <1>4, SpotRowsAssumption DEF QueryFits, CL
  <2>2. Answer(q) = ApplyFactoryTier(p)
    BY <1>4 DEF Answer
  <2>3. CASE Row(Tiers) = NoRow \/ rows[Tiers][Class[p]] = Unset
    BY <1>4, <2>2, <2>3, EmptyPlain DEF ApplyFactoryTier
  <2>4. CASE ~(Row(Tiers) = NoRow \/ rows[Tiers][Class[p]] = Unset)
    <3>1. Answer(q) = << s >>
      BY <2>2, <2>4 DEF ApplyFactoryTier
    <3>2. rows[Tiers] \in TiersRow
      <4>1. Tiers \in DOMAIN rows
        BY <2>4 DEF Row
      <4> QED
        BY <4>1 DEF Rows, Fits
    <3>3. rows[Tiers][Class[p]] \in FeeBps \cup {Unset}
      BY <2>1, <3>2 DEF TiersRow
    <3>4. DOMAIN f = {"bps", "src"} /\ f.bps \in FeeBps \cup {Unset} /\ f.src \in AnySource
      BY <3>3 DEF AnySource
    <3>5. s.op = "update" /\ s.patch = f /\ \A k \in s.keys : k[1] = "pair"
      BY Keys DEF Update
    <3> HIDE DEF f, s
    <3>6. StatementFits(a, s)
      BY <3>4, <3>5, UpdateFits
    <3>7. Plain(a, << s >>)
      BY <3>5, <3>6, OnePlain
    <3> QED
      BY <1>4, <3>1, <3>7
  <2> QED
    BY <1>4, <2>3, <2>4
<1>5. CASE q.of = "custom"
  <2> DEFINE p == q.pool
             f == Fee(FALSE, q.bps, "factory_custom")
             s == Update({Pair(p)}, AnySource, f)
  <2>1. Answer(q) = << >> \/ Answer(q) = << s >>
    BY <1>5 DEF Answer, SetCustomFee
  <2>2. /\ DOMAIN f = {"dyn", "bps", "src"} /\ f.bps \in FeeBps \cup {Unset} /\ f.src \in AnySource
        /\ f.dyn \in BOOLEAN
    BY <1>5 DEF AnySource, Fee, QueryFits
  <2>3. s.op = "update" /\ s.patch = f /\ \A k \in s.keys : k[1] = "pair"
    BY Keys DEF Update
  <2> HIDE DEF f, s
  <2>4. StatementFits(a, s)
    BY <2>2, <2>3, UpdateFits
  <2>5. Plain(a, << s >>)
    BY <2>3, <2>4, OnePlain
  <2> QED
    BY <1>5, <2>1, <2>5, EmptyPlain
<1>6. CASE q.of = "mint"
  <2>1. Answer(q) = Mint(q) /\ q.pool \in Pool /\ q.day \in 1..now
    BY <1>6 DEF Answer, QueryFits
  <2>2. CASE CL(q.pool)
    <3>1. CASE ResolveCL(q.pool) = {}
      <4>1. Answer(q) = << Raise >>
        BY <2>1, <2>2, <3>1 DEF Mint
      <4>2. Raise.op = "raise" /\ StatementFits(a, Raise)
        BY DEF Raise, StatementFits
      <4> HIDE DEF Raise
      <4>3. Plain(a, << Raise >>)
        BY <4>2, OnePlain
      <4> QED
        BY <1>6, <4>1, <4>3
    <3>2. CASE ResolveCL(q.pool) # {}
      <4> DEFINE p == CHOOSE p \in ResolveCL(q.pool) : TRUE
      <4>1. p \in Pool
        BY <1>2, <1>3, <2>1, <3>2
      <4>2. Answer(q) = onCLLiquidityAdded(p, q)
        BY <2>1, <2>2, <3>2 DEF Mint, ForPool
      <4>3. q.lo \in Int /\ q.hi \in Int
        BY <1>6, <2>2 DEF QueryFits
      <4> HIDE DEF p
      <4>4. Plain(a, onCLLiquidityAdded(p, q))
        BY <2>1, <4>1, <4>3, ConcentratedPlain
      <4> QED
        BY <1>6, <4>2, <4>4
    <3> QED
      BY <3>1, <3>2
  <2>3. CASE ~CL(q.pool)
    <3>1. CASE ResolveByClass(q.pool) = {}
      <4>1. Answer(q) = << >>
        BY <2>1, <2>3, <3>1 DEF Mint, ForPool
      <4> QED
        BY <1>6, <4>1, EmptyPlain
    <3>2. CASE ResolveByClass(q.pool) # {}
      <4> DEFINE p == CHOOSE p \in ResolveByClass(q.pool) : TRUE
      <4>1. p \in Pool
        BY <1>2, <1>3, <2>1, <3>2
      <4>2. Answer(q) = onLiquidityAdded(p, q)
        BY <2>1, <2>3, <3>2 DEF Mint, ForPool
      <4> HIDE DEF p
      <4>3. Plain(a, onLiquidityAdded(p, q))
        BY <2>1, <4>1, MintPlain
      <4> QED
        BY <1>6, <4>2, <4>3
    <3> QED
      BY <3>1, <3>2
  <2> QED
    BY <2>2, <2>3
<1>7. CASE q.of = "claim"
  <2> DEFINE s == Insert(Claim(q.id), [pool |-> PoolOfReward(q)])
  <2>1. Answer(q) = << s >>
    BY <1>7 DEF Answer
  <2>2. s.op = "upsert" /\ s.key[1] = "claim"
    BY Keys DEF Insert, Upsert
  <2> HIDE DEF s
  <2>3. StatementFits(a, s)
    BY <2>2, UpsertFits
  <2>4. Plain(a, << s >>)
    BY <2>2, <2>3, OnePlain
  <2> QED
    BY <1>7, <2>1, <2>4
<1>8. CASE q.of = "swap"
  <2>1. Answer(q) = ForPool(ResolveByClass(q.pool), onSwapReserves)
    BY <1>8 DEF Answer
  <2>2. ASSUME NEW p PROVE Plain(a, onSwapReserves(p))
    <3> DEFINE s == Set(Pair(p), {"liquidity", "price"}, [of |-> "swap"])
    <3>1. /\ s.op = "set" /\ s.key = Pair(p) /\ s.cols = {"liquidity", "price"} /\ s.edit = [of |-> "swap"]
          /\ DOMAIN s = {"op", "key", "cols", "edit"}
      BY DEF Set
    <3>2. onSwapReserves(p) = Needing(Pair(p), << s >>)
      BY DEF onSwapReserves
    <3> HIDE DEF s
    <3>3. s.key[1] = "pair" /\ s.key # Discount
      BY <3>1, Keys
    <3>4. StatementFits(a, s) /\ Stores(s) /\ ~Tagged(s) /\ ~Trade(s)
      BY <3>1, <3>3 DEF StatementFits, Stores, Tagged, Trade
    <3>5. Plain(a, Needing(s.key, << s >> \o << >>))
      BY <3>4, EmptyPlain, NeedingPlain
    <3>6. << s >> \o << >> = << s >>
      BY OneSequence, JoinEmpty
    <3> QED
      BY <3>1, <3>2, <3>5, <3>6
  <2>3. Answer(q) = << >> \/ \E p : Answer(q) = onSwapReserves(p)
    BY <2>1 DEF ForPool
  <2> QED
    BY <1>8, <2>2, <2>3, EmptyPlain
<1>9. CASE q.of = "trade"
  <2>1. Answer(q) = onSwapCandles(ResolveByTokens, q) /\ q.day \in 1..now
    BY <1>9 DEF Answer, QueryFits
  <2>2. /\ Program(a, onSwapCandles(ResolveByTokens, q))
        /\ onSwapCandles(ResolveByTokens, q) # << >>
        /\ onSwapCandles(ResolveByTokens, q)[1].op = "candle"
    BY <1>2, <2>1, TradeAnswer
  <2> QED
    BY <1>9, <2>1, <2>2
<1>10. CASE q.of = "candles"
  <2> DEFINE c == Candle(q.day, 0)
             p == << c >>
  <2>1. (Answer(q) = << >> \/ Answer(q) = p) /\ q.day \in 1..now
    BY <1>10 DEF Answer, QueryFits
  <2>2. /\ c.op = "candle" /\ c.day = q.day /\ c.count = 0
        /\ DOMAIN c = {"op", "day", "count"}
    BY DEF Candle
  <2> HIDE DEF c
  <2>3. Sequence(p) /\ Len(p) = 1 /\ p[1] = c
    BY OneSequence
  <2> HIDE DEF p
  <2>4. StatementFits(a, c)
    BY <2>1, <2>2 DEF StatementFits, Tagged
  <2>5. \A i \in 1..Len(p) : i = 1
    BY <2>3
  <2>6. Couples(p)
    BY <2>2, <2>3, <2>5 DEF Couples, Loads
  <2>7. ~Swaps(c) /\ ~Asks(c, "candles") /\ ~Trade(c)
    BY <2>2 DEF Swaps, Trade, Asks
  <2>8. OneTrade(p)
    BY <2>3, <2>5, <2>7 DEF OneTrade
  <2>9. Program(a, p)
    BY <2>3, <2>4, <2>5, <2>6, <2>8 DEF Program
  <2> QED
    BY <1>10, <2>1, <2>9 DEF p, c
<1>11. CASE q.of = "backfill"
  <2>1. Answer(q) = Backfill
    BY <1>11 DEF Answer
  <2>2. now \in 1..now /\ 0 \in Nat
    BY ScenariosAssumption
  <2>3. Plain(a, flushBfFieldsForTokenChunk)
    BY <2>2, MeasurePlain
  <2> QED
    BY <1>11, <2>1, <2>3, EmptyPlain DEF Backfill
<1>12. CASE q.of = "measure"
  <2>1. Answer(q) = Measure(q.day) /\ q.day \in 1..now
    BY <1>12 DEF Answer, QueryFits
  <2>2. CASE InGraph /\ q.day \in DOMAIN candle
    <3>1. candle[q.day] \in Nat
      BY <2>2 DEF Candled
    <3>2. Answer(q) = flushSpotTokenProfileMetricsChunk(q.day, candle[q.day])
      BY <2>1, <2>2 DEF Measure
    <3>3. Plain(a, flushSpotTokenProfileMetricsChunk(q.day, candle[q.day]))
      BY <1>12, <2>1, <3>1, MeasurePlain
    <3> QED
      BY <1>12, <3>2, <3>3
  <2>3. CASE ~(InGraph /\ q.day \in DOMAIN candle)
    BY <1>12, <2>1, <2>3, EmptyPlain DEF Measure
  <2> QED
    BY <2>2, <2>3
<1> QED
  BY <1>4, <1>5, <1>6, <1>7, <1>8, <1>9, <1>10, <1>11, <1>12 DEF QueryFits
-----------------------------------------------------------------------------
(* The handlers.                                                           *)

LEMMA QuerySides ==
  ASSUME NEW f, "of" \in DOMAIN f
  PROVE  /\ Query(f).op = "query" /\ Query(f).of = f.of
         /\ \A c \in DOMAIN f : c # "op" => Query(f)[c] = f[c]
<1>1. Query(f) = Over([op |-> "query"], f) /\ DOMAIN [op |-> "query"] = {"op"}
  BY DEF Query
<1>2. ASSUME NEW c \in {"op"} \cup DOMAIN f
      PROVE  Query(f)[c] = IF c = "op" THEN "query" ELSE f[c]
  BY <1>1 DEF Over
<1>3. Query(f)["op"] = "query" /\ Query(f)["of"] = f["of"]
  BY <1>2
<1> QED
  BY <1>2, <1>3

LEMMA AskedSides ==
  ASSUME NEW w, NEW e
  PROVE  LET q == Query(Over([of |-> w], e)) IN
         /\ Asked(w, e) = << q >> /\ q.op = "query" /\ q.of = w
         /\ \A c \in DOMAIN e : c \notin {"op", "of"} => q[c] = e[c]
<1> DEFINE f == Over([of |-> w], e)
<1>1. /\ DOMAIN f = {"of"} \cup DOMAIN e /\ f.of = w
      /\ \A c \in DOMAIN e : c # "of" => f[c] = e[c]
  BY DEF Over
<1>2. Asked(w, e) = << Query(f) >>
  BY DEF Asked
<1> HIDE DEF f
<1>3. /\ Query(f).op = "query" /\ Query(f).of = f.of
      /\ \A c \in DOMAIN f : c # "op" => Query(f)[c] = f[c]
  BY <1>1, QuerySides
<1> QED
  BY <1>1, <1>2, <1>3 DEF f

LEMMA UpsertPlain ==
  ASSUME NEW a, NEW k, NEW f, NEW r,
         k[1] \in {"edge", "totals", "curve", "defaults", "discount", "whitelisted", "account",
                   "notification", "provision", "claim", "stake"}
  PROVE  Plain(a, << Upsert(k, f, r) >>) /\ StatementFits(a, Upsert(k, f, r))
<1> DEFINE s == Upsert(k, f, r)
<1>1. s.op = "upsert" /\ s.key = k
  BY DEF Upsert
<1> HIDE DEF s
<1>2. StatementFits(a, s)
  BY <1>1, UpsertFits
<1>3. Plain(a, << s >>)
  BY <1>1, <1>2, OnePlain
<1> QED
  BY <1>2, <1>3 DEF s

\* Two statements that are sent at once.
LEMMA BesidePlain ==
  ASSUME NEW a, NEW keys, NEW where, NEW f, NEW k, NEW g, NEW r,
         \A j \in keys : j[1] = "pair", DOMAIN f = {"dyn", "bps", "src", "cl"},
         f.dyn \in BOOLEAN, f.bps \in FeeBps \cup {Unset}, f.src \in AnySource, f.cl \in BOOLEAN,
         k[1] = "curve"
  PROVE  LET p == Beside(<< Update(keys, where, f) >>, << Upsert(k, g, r) >>)
         IN Plain(a, p) /\ Plain(a, Reverse(p))
<1> DEFINE u == Update(keys, where, f)
           v == Upsert(k, g, r)
           both == << u >> \o << v >>
           p == Beside(<< u >>, << v >>)
           s == Over([beside |-> TRUE], u)
           t == Over([beside |-> TRUE], v)
<1>1. both = << u, v >>
  BY TwoJoined
<1>2. p = [i \in DOMAIN both |-> Over([beside |-> TRUE], both[i])]
  BY DEF Beside
<1>3. s.op = "update" /\ s.keys = keys /\ s.patch = f /\ t.op = "upsert" /\ t.key = k
  BY DEF Over, Update, Upsert
<1> HIDE DEF u, v, both, p, s, t
<1>4. Sequence(both) /\ Len(both) = 2 /\ both[1] = u /\ both[2] = v
  BY <1>1, TwoSequence
<1>5. DOMAIN both = 1..2
  BY <1>4 DEF Sequence
<1>6. p = [i \in 1..2 |-> p[i]] /\ p[1] = s /\ p[2] = t
  BY <1>2, <1>4, <1>5 DEF s, t
<1>7. Sequence(p) /\ Len(p) = 2
  BY <1>6, MadeSequence
<1>8. StatementFits(a, s) /\ StatementFits(a, t)
  BY <1>3, UpdateFits, UpsertFits
<1>9. Plain(a, p)
  <2>1. \A i \in 1..Len(p) : p[i] = s \/ p[i] = t
    BY <1>6, <1>7
  <2> QED
    BY <1>3, <1>7, <1>8, <2>1, SimplePlain
<1>10. Plain(a, Reverse(p))
  <2> DEFINE o == Reverse(p)
  <2>1. o = [i \in 1..2 |-> p[(2 - i) + 1]]
    BY <1>7 DEF Reverse
  <2> HIDE DEF o
  <2>2. Sequence(o) /\ Len(o) = 2
    <3>1. o = [i \in 1..2 |-> o[i]]
      BY <2>1
    <3> QED
      BY <3>1, MadeSequence
  <2>3. \A i \in 1..Len(o) : o[i] = s \/ o[i] = t
    <3> TAKE i \in 1..Len(o)
    <3>1. i \in 1..2 /\ ((2 - i) + 1 = 1 \/ (2 - i) + 1 = 2)
      BY <2>2
    <3> QED
      BY <1>6, <2>1, <3>1
  <2>4. Plain(a, o)
    BY <1>3, <1>8, <2>2, <2>3, SimplePlain
  <2> QED
    BY <2>4 DEF o
<1> QED
  BY <1>9, <1>10 DEF p, u, v

LEMMA CreatedPlain ==
  ASSUME NEW a, NEW e, e.pool \in Pool, e.info \in BOOLEAN, e.type = "created"
  PROVE  Plain(a, Handler(e))
<1>1. Plain(a, << upsertEdge(e.pool) >>)
  <2>1. Edge(e.pool)[1] = "edge"
    BY Keys
  <2> QED
    BY <2>1, UpsertPlain DEF upsertEdge
<1>2. Plain(a, upsertSpotPairMinimal(e.pool))
  <2> DEFINE x == [of |-> "minimal", pool |-> e.pool]
             k == Pair(e.pool)
  <2>1. EditFits(k, x) /\ k # Discount /\ x.of = "minimal"
    BY PairEditFits
  <2>2. upsertSpotPairMinimal(e.pool) = Change(k, x)
    BY DEF upsertSpotPairMinimal
  <2> HIDE DEF x, k
  <2> QED
    BY <2>1, <2>2, ChangePlain
<1>3. Plain(a, applyTokenInfoFromIndexer(e))
  <2> DEFINE x == [of |-> "tokenInfo"]
  <2>1. EditFits(SpotToken, x) /\ SpotToken # Discount /\ x.of = "tokenInfo"
    BY TokenEditFits
  <2>2. applyTokenInfoFromIndexer(e) = IF e.info THEN Change(SpotToken, x) ELSE << >>
    BY DEF applyTokenInfoFromIndexer
  <2> HIDE DEF x
  <2>3. Plain(a, Change(SpotToken, x))
    BY <2>1, ChangePlain
  <2> QED
    BY <2>2, <2>3, EmptyPlain
<1>4. Plain(a, recordNewPair(e.day))
  BY Records
<1>5. Plain(a, << upsertEdge(e.pool) >> \o upsertSpotPairMinimal(e.pool) \o applyTokenInfoFromIndexer(e))
  <2>1. Plain(a, << upsertEdge(e.pool) >> \o upsertSpotPairMinimal(e.pool))
    BY <1>1, <1>2, JoinedPlain
  <2> QED
    BY <1>3, <2>1, JoinedPlain
<1>6. CASE CL(e.pool)
  <2>1. Handler(e) = onCLPoolCreated(e)
    BY <1>6 DEF Handler
  <2> QED
    BY <1>4, <1>5, <2>1, JoinedPlain DEF onCLPoolCreated
<1>7. CASE ~CL(e.pool)
  <2> DEFINE q == Query([of |-> "tier", pool |-> e.pool])
  <2>1. Handler(e) = onPoolCreated(e)
    BY <1>7 DEF Handler
  <2>2. q.op = "query" /\ q.of = "tier" /\ q.pool = e.pool
    BY DEF Query, Over
  <2>3. onPoolCreated(e) =
          (((<< upsertEdge(e.pool) >> \o upsertSpotPairMinimal(e.pool)) \o applyTokenInfoFromIndexer(e))
             \o << q >>) \o recordNewPair(e.day)
    BY DEF onPoolCreated
  <2> HIDE DEF q
  <2>4. Plain(a, << q >>)
    <3>1. QueryFits(q)
      BY <1>7, <2>2 DEF QueryFits
    <3> QED
      BY <2>2, <3>1, QueryPlain
  <2>5. Plain(a, ((<< upsertEdge(e.pool) >> \o upsertSpotPairMinimal(e.pool))
                    \o applyTokenInfoFromIndexer(e)) \o << q >>)
    BY <1>5, <2>4, JoinedPlain
  <2> QED
    BY <1>4, <2>1, <2>3, <2>5, JoinedPlain
<1> QED
  BY <1>6, <1>7

LEMMA SettingPlain ==
  ASSUME NEW a, NEW e, EventFits(e),
         e.type \in {"setFee", "customFee", "moduleFee", "feeReset", "capSet", "default", "discount",
                     "undiscount", "whitelist", "gauge", "stake"}
  PROVE  \A p \in Programs(e) : Plain(a, p)
<1>1. CASE e.type = "setFee"
  <2> DEFINE f == [c \in {e.class} |-> e.bps]
             r == [NoTiers EXCEPT ![e.class] = e.bps]
             s == Upsert(Tiers, f, r)
             g == Fee(FALSE, e.bps, "factory_tier")
             t == OfTier(e.class, e.bps)
             p == << s, t >>
  <2>1. Programs(e) = {p}
    BY <1>1 DEF Programs, Handler, onPoolFactorySetFee
  <2>2. e.bps \in FeeBps /\ e.class \in {"volatile", "stable"}
    BY <1>1 DEF EventFits
  <2>3. s.op = "upsert" /\ s.key = Tiers /\ s.patch = f /\ s.new = r
    BY DEF Upsert
  <2>4. r \in TiersRow
    BY <2>2 DEF NoTiers, TiersRow
  <2>5. \A x \in TiersRow : Over(f, x) \in TiersRow
    <3> TAKE x \in TiersRow
    <3>1. x = [c \in {"volatile", "stable"} |-> x[c]] /\ x.volatile \in FeeBps \cup {Unset}
          /\ x.stable \in FeeBps \cup {Unset}
      BY DEF TiersRow
    <3> DEFINE o == Over(f, x)
    <3>2. o = [c \in {"volatile", "stable"} |-> IF c = e.class THEN e.bps ELSE x[c]]
      BY <2>2, <3>1 DEF Over
    <3> HIDE DEF o
    <3>3. o.volatile \in FeeBps \cup {Unset} /\ o.stable \in FeeBps \cup {Unset}
      BY <2>2, <3>1, <3>2
    <3>4. o \in TiersRow
      BY <3>2, <3>3 DEF TiersRow
    <3> QED
      BY <3>4 DEF o
  <2>6. t.op = "update" /\ t.patch = g /\ \A k \in t.keys : k[1] = "pair"
    BY Keys DEF OfTier, Update
  <2>7. /\ DOMAIN g = {"dyn", "bps", "src"} /\ g.dyn \in BOOLEAN /\ g.bps \in FeeBps \cup {Unset}
        /\ g.src \in AnySource
    BY <2>2 DEF Fee, AnySource
  <2> HIDE DEF f, r, s, g, t, p
  <2>8. StatementFits(a, s)
    <3>1. Tiers[1] # "pair" /\ Tiers # SpotToken /\ ~IsBucket(Tiers)
      BY Keys
    <3>2. Fits(Tiers, r) /\ Amends(Tiers, f)
      BY <2>4, <2>5, <3>1 DEF Fits, Amends
    <3> QED
      BY <2>3, <3>1, <3>2 DEF StatementFits
  <2>9. StatementFits(a, t)
    BY <2>6, <2>7, UpdateFits
  <2>10. Sequence(p) /\ Len(p) = 2 /\ p[1] = s /\ p[2] = t
    BY TwoSequence DEF p
  <2>11. \A i \in 1..Len(p) : p[i] = s \/ p[i] = t
    BY <2>10
  <2>12. Plain(a, p)
    BY <2>3, <2>6, <2>8, <2>9, <2>10, <2>11, SimplePlain
  <2> QED
    BY <2>1, <2>12
<1>2. CASE e.type = "customFee"
  <2> DEFINE q == Query([of |-> "custom", pool |-> e.pool, bps |-> e.bps])
  <2>1. Programs(e) = {<< q >>}
    BY <1>2 DEF Programs, Handler, onPoolFactorySetCustomFee
  <2>2. q.op = "query" /\ q.of = "custom" /\ q.pool = e.pool /\ q.bps = e.bps
    BY DEF Query, Over
  <2>3. e.pool \in Pool /\ e.bps \in FeeBps
    BY <1>2 DEF EventFits
  <2> HIDE DEF q
  <2>4. QueryFits(q)
    BY <2>2, <2>3 DEF QueryFits
  <2>5. Plain(a, << q >>)
    BY <2>2, <2>4, QueryPlain
  <2> QED
    BY <2>1, <2>5
<1>3. CASE e.type = "moduleFee"
  <2> DEFINE f == Over([cl |-> TRUE], Fee(FALSE, e.bps, "cl_module_fixed"))
             g == [base |-> e.bps]
             k == Curve(e.pool)
             p == Beside(<< Update({Pair(e.pool)}, AnySource, f) >>, << Upsert(k, g, Over(g, NoCurve)) >>)
  <2>1. Programs(e) = {p, Reverse(p)}
    BY <1>3 DEF Programs, Handler, onDynamicSwapFeeModuleCustomFeeSet, onCustomFeeSet, upsertPool
  <2>2. e.bps \in FeeBps
    BY <1>3 DEF EventFits
  <2>3. /\ DOMAIN f = {"dyn", "bps", "src", "cl"}
        /\ f.dyn \in BOOLEAN /\ f.bps \in FeeBps \cup {Unset} /\ f.src \in AnySource /\ f.cl \in BOOLEAN
    BY <2>2 DEF Over, Fee, AnySource
  <2>4. k[1] = "curve" /\ \A j \in {Pair(e.pool)} : j[1] = "pair"
    BY Keys
  <2> HIDE DEF f, g, k
  <2>5. Plain(a, p) /\ Plain(a, Reverse(p))
    BY <2>3, <2>4, BesidePlain
  <2> QED
    BY <2>1, <2>5
<1>4. CASE e.type = "feeReset"
  <2> DEFINE f == Over([cl |-> TRUE], DynamicFee)
             g == [cap |-> Unset]
             k == Curve(e.pool)
             p == Beside(<< Update({Pair(e.pool)}, AnySource, f) >>, << Upsert(k, g, Over(g, NoCurve)) >>)
  <2>1. Programs(e) = {p, Reverse(p)}
    BY <1>4 DEF Programs, Handler, onDynamicSwapFeeModuleDynamicFeeReset, onDynamicFeeReset, upsertPool
  <2>2. /\ DOMAIN f = {"dyn", "bps", "src", "cl"}
        /\ f.dyn \in BOOLEAN /\ f.bps \in FeeBps \cup {Unset} /\ f.src \in AnySource /\ f.cl \in BOOLEAN
    BY DEF Over, DynamicFee, Fee, AnySource
  <2>3. k[1] = "curve" /\ \A j \in {Pair(e.pool)} : j[1] = "pair"
    BY Keys
  <2> HIDE DEF f, g, k
  <2>4. Plain(a, p) /\ Plain(a, Reverse(p))
    BY <2>2, <2>3, BesidePlain
  <2> QED
    BY <2>1, <2>4
<1>5. CASE e.type = "capSet"
  <2>1. Programs(e) = {<< Upsert(Curve(e.pool), [cap |-> e.bps], Over([cap |-> e.bps], NoCurve)) >>}
    BY <1>5 DEF Programs, Handler, onFeeCapSet, upsertPool
  <2>2. Curve(e.pool)[1] = "curve"
    BY Keys
  <2> QED
    BY <2>1, <2>2, UpsertPlain
<1>6. CASE e.type = "default"
  <2>1. Programs(e) = {<< Upsert(Defaults, [value |-> e.bps], [value |-> e.bps]) >>}
    BY <1>6 DEF Programs, Handler, upsertGlobal
  <2>2. Defaults[1] = "defaults"
    BY Keys
  <2> QED
    BY <2>1, <2>2, UpsertPlain
<1>7. CASE e.type = "discount"
  <2>1. Programs(e) = {<< Upsert(Discount, [value |-> e.bps], [value |-> e.bps]) >>}
    BY <1>7 DEF Programs, Handler, onDiscountedRegistered
  <2>2. Discount[1] = "discount"
    BY Keys
  <2> QED
    BY <2>1, <2>2, UpsertPlain
<1>8. CASE e.type = "undiscount"
  <2> DEFINE s == Delete(Discount)
  <2>1. Programs(e) = {<< s >>}
    BY <1>8 DEF Programs, Handler, onDiscountedDeregistered
  <2>2. s.op = "delete" /\ s.key = Discount
    BY DEF Delete
  <2> HIDE DEF s
  <2>3. StatementFits(a, s)
    BY <2>2 DEF StatementFits
  <2>4. Plain(a, << s >>)
    BY <2>2, <2>3, OnePlain
  <2> QED
    BY <2>1, <2>4
<1>9. CASE e.type = "whitelist"
  <2> DEFINE s == Upsert(Whitelisted(e.side), [on |-> e.on], [on |-> e.on])
             t == Compute({Pair(p) : p \in Pool}, [of |-> "gauge"])
             p == << s, t >>
  <2>1. Programs(e) = {p}
    BY <1>9 DEF Programs, Handler, aggregateVoterWhitelistToken
  <2>2. s.op = "upsert" /\ s.key = Whitelisted(e.side) /\ s.key[1] = "whitelisted"
    BY Keys DEF Upsert
  <2>3. t.op = "compute" /\ (\A k \in t.keys : k[1] = "pair") /\ t.expr = [of |-> "gauge"]
    BY Keys DEF Compute
  <2> HIDE DEF s, t, p
  <2>4. StatementFits(a, s) /\ StatementFits(a, t)
    BY <2>2, <2>3, UpsertFits DEF StatementFits
  <2>5. Sequence(p) /\ Len(p) = 2 /\ p[1] = s /\ p[2] = t
    BY TwoSequence DEF p
  <2>6. \A i \in 1..Len(p) : p[i] = s \/ p[i] = t
    BY <2>5
  <2>7. Plain(a, p)
    BY <2>2, <2>3, <2>4, <2>5, <2>6, SimplePlain
  <2> QED
    BY <2>1, <2>7
<1>10. CASE e.type = "gauge"
  <2>1. Programs(e) = {<< >>}
    BY <1>10 DEF Programs, Handler
  <2> QED
    BY <2>1, EmptyPlain
<1>11. CASE e.type = "stake"
  <2>1. Programs(e) = {<< Upsert(Stake(e.id), << >>, [pool |-> e.pool]) >>}
    BY <1>11 DEF Programs, Handler, Insert
  <2>2. Stake(e.id)[1] = "stake"
    BY Keys
  <2> QED
    BY <2>1, <2>2, UpsertPlain
<1> QED
  BY <1>1, <1>2, <1>3, <1>4, <1>5, <1>6, <1>7, <1>8, <1>9, <1>10, <1>11

LEMMA HandlerProgram ==
  ASSUME NEW a, NEW e, EventFits(e), e.day \in 1..now
  PROVE  \A p \in Programs(e) : Program(a, p) /\ Opens(p) /\ \A i \in 1..Len(p) : ~Trade(p[i])
<1>0. \A p : Plain(a, p) => \A i \in 1..Len(p) : ~Trade(p[i])
  BY DEF Plain, Quiet, Swaps
<1>1. CASE e.type \in {"setFee", "customFee", "moduleFee", "feeReset", "capSet", "default", "discount",
                       "undiscount", "whitelist", "gauge", "stake"}
  BY <1>0, <1>1, SettingPlain DEF Plain
<1>2. CASE e.type = "created"
  <2>1. Programs(e) = {Handler(e)} /\ e.pool \in Pool /\ e.info \in BOOLEAN
    BY <1>2 DEF Programs, EventFits
  <2>2. Plain(a, Handler(e))
    BY <1>2, <2>1, CreatedPlain
  <2> QED
    BY <1>0, <2>1, <2>2 DEF Plain
<1>3. ASSUME NEW w \in {"claim", "mint", "swap"}, e.type = w
      PROVE  Plain(a, Asked(w, e))
  <2> DEFINE q == Query(Over([of |-> w], e))
  <2>1. /\ Asked(w, e) = << q >> /\ q.op = "query" /\ q.of = w
        /\ \A c \in DOMAIN e : c \notin {"op", "of"} => q[c] = e[c]
    BY AskedSides
  <2> HIDE DEF q
  <2>2. /\ {"type", "day", "pool"} \subseteq DOMAIN e /\ e.pool \in Pool
        /\ w = "mint" /\ CL(e.pool) => {"lo", "hi"} \subseteq DOMAIN e /\ e.lo \in Int /\ e.hi \in Int
    BY <1>3 DEF EventFits
  <2>3. q.day = e.day /\ q.pool = e.pool
    <3>1. q["day"] = e["day"] /\ q["pool"] = e["pool"]
      BY <2>1, <2>2
    <3> QED
      BY <3>1
  <2>4. w = "mint" /\ CL(e.pool) => q.lo = e.lo /\ q.hi = e.hi
    <3>1. w = "mint" /\ CL(e.pool) => q["lo"] = e["lo"] /\ q["hi"] = e["hi"]
      BY <2>1, <2>2
    <3> QED
      BY <3>1
  <2>5. QueryFits(q)
    BY <2>1, <2>2, <2>3, <2>4 DEF QueryFits
  <2>6. Plain(a, << q >>)
    BY <2>1, <2>5, QueryPlain
  <2> QED
    BY <2>1, <2>6
<1>4. CASE e.type = "claim"
  <2>1. Programs(e) = {Asked("claim", e)}
    BY <1>4 DEF Programs, Handler
  <2> QED
    BY <1>0, <1>3, <1>4, <2>1 DEF Plain
<1>5. CASE e.type = "mint"
  <2>1. Programs(e) = {Asked("mint", e)}
    BY <1>5 DEF Programs, Handler
  <2> QED
    BY <1>0, <1>3, <1>5, <2>1 DEF Plain
<1>6. CASE e.type = "swap"
  <2> DEFINE q == Query(Over([of |-> "trade"], e))
             p == << q >>
  <2>1. Programs(e) = {Asked("swap", e) \o Asked("trade", e)}
    BY <1>6 DEF Programs, Handler
  <2>2. /\ Asked("trade", e) = << q >> /\ q.op = "query" /\ q.of = "trade"
        /\ \A c \in DOMAIN e : c \notin {"op", "of"} => q[c] = e[c]
    BY AskedSides
  <2> HIDE DEF q
  <2>3. q.day = e.day
    <3>1. q["day"] = e["day"]
      BY <2>2 DEF EventFits
    <3> QED
      BY <3>1
  <2>4. StatementFits(a, q)
    BY <2>2, <2>3 DEF StatementFits, QueryFits
  <2>5. Sequence(p) /\ Len(p) = 1 /\ p[1] = q
    BY OneSequence
  <2> HIDE DEF p
  <2>6. \A i \in 1..Len(p) : i = 1
    BY <2>5
  <2>7. Couples(p)
    BY <2>2, <2>5, <2>6 DEF Couples, Loads
  <2>8. ~Trade(q) /\ ~Asks(q, "candles")
    BY <2>2 DEF Trade, Asks
  <2>9. OneTrade(p)
    BY <2>5, <2>6, <2>8 DEF OneTrade
  <2>10. Program(a, p) /\ Opens(p)
    BY <2>2, <2>4, <2>5, <2>6, <2>7, <2>9 DEF Program, Opens
  <2>11. Plain(a, Asked("swap", e))
    BY <1>3, <1>6
  <2>12. Program(a, Asked("swap", e) \o p) /\ Opens(Asked("swap", e) \o p)
    BY <2>10, <2>11, PlainFirst
  <2> DEFINE u == Asked("swap", e)
             r == u \o p
  <2>13. \A i \in 1..Len(r) : ~Trade(r[i])
    <3>1. Sequence(u) /\ Sequence(p)
      BY <2>10, <2>11 DEF Plain, Program
    <3> HIDE DEF u
    <3>2. Len(r) = Len(u) + 1 /\ r[Len(u) + 1] = q /\ Len(u) \in Nat
      <4>1. /\ Len(u) \in Nat /\ Len(r) = Len(u) + Len(p)
            /\ \A i \in 1..Len(p) : r[Len(u) + i] = p[i]
        BY ONLY <3>1, Joined DEF Sequence
      <4> QED
        BY ONLY <2>5, <4>1
    <3>3. OneTrade(r)
      BY <2>12 DEF Program, u
    <3> HIDE DEF u, r
    <3>4. Len(u) + 1 \in 1..Len(r) /\ Swaps(r[Len(u) + 1]) /\ ~Trade(r[Len(u) + 1])
      BY <2>2, <2>8, <3>2 DEF Swaps, Asks
    <3> QED
      BY <3>3, <3>4 DEF OneTrade, Swaps
  <2> QED
    BY <2>1, <2>2, <2>12, <2>13 DEF p
<1> QED
  BY <1>1, <1>2, <1>4, <1>5, <1>6 DEF EventFits, EventTypes
-----------------------------------------------------------------------------
(* What a step of one actor leaves of the others' claims.                  *)

Remains == \A k : Profile(k) /\ Row(k) # NoRow => Row(k)' # NoRow

LEMMA KeptFits ==
  ASSUME scenario' = scenario, NEW k, NEW r
  PROVE  (Fits(k, r) <=> Fits(k, r)') /\ (Amends(k, r) <=> Amends(k, r)')
<1>1. \A x : Fits(k, x) <=> Fits(k, x)'
  BY DEF Fits
<1> QED
  BY <1>1 DEF Amends

LEMMA KeptStatement ==
  ASSUME scenario' = scenario, now \in Nat, now' \in Nat, now <= now', Remains,
         NEW a, NEW s, StatementFits(a, s)
  PROVE  StatementFits(a, s)'
<1>1. \A d : d \in 1..now => d \in 1..now'
  OBVIOUS
<1>2. s.op = "query" => QueryFits(s)'
  BY <1>1 DEF StatementFits, QueryFits
<1>3. s.op = "save" => EditFits(s.key, s.edit)'
  BY <1>1 DEF StatementFits, EditFits
<1>4. s.op = "write" =>
        /\ s.key # Tiers
        /\ IF s.insert THEN Fits(s.key, s.patch)'
           ELSE Amends(s.key, s.patch)' /\ (Profile(s.key) => Row(s.key)' # NoRow)
  BY KeptFits DEF StatementFits, Remains
<1>5. s.op = "upsert" => Fits(s.key, s.new)' /\ Amends(s.key, s.patch)'
  BY KeptFits DEF StatementFits
<1>6. s.op = "update" => \A k \in s.keys : Amends(k, s.patch)'
  BY KeptFits DEF StatementFits
<1> QED
  BY <1>1, <1>2, <1>3, <1>4, <1>5, <1>6 DEF StatementFits

LEMMA KeptProgram ==
  ASSUME scenario' = scenario, now \in Nat, now' \in Nat, now <= now', Remains,
         NEW a, NEW p, Program(a, p)
  PROVE  Program(a, p)'
<1>1. \A i \in 1..Len(p) : StatementFits(a, p[i])'
  BY KeptStatement DEF Program
<1> QED
  BY <1>1 DEF Program

LEMMA Others ==
  ASSUME scenario' = scenario, now \in Nat, now' \in Nat, now <= now', Remains,
         NEW b \in Actor, todo'[b] = todo[b], held'[b] = held[b],
         Program(b, todo[b]), Holding(b), OwnResult(b),
         At(b, {"save", "set", "write"}) /\ held[b].key \notin raced' =>
           held[b].key \notin raced /\ Row(held[b].key)' = Row(held[b].key)
  PROVE  Program(b, todo[b])' /\ Holding(b)' /\ OwnResult(b)'
<1>1. Program(b, todo[b])'
  BY KeptProgram
<1>2. \A ops : At(b, ops)' <=> At(b, ops)
  BY DEF At, S
<1>3. S(b)' = S(b)
  BY DEF S
<1>4. Holding(b)'
  <2>1. CASE At(b, {"save", "set", "write"})
    <3>1. /\ held[b].key = S(b).key
          /\ held[b].row = NoRow \/ Fits(held[b].key, held[b].row)
          /\ held[b].row # NoRow /\ Profile(held[b].key) => Row(held[b].key) # NoRow
          /\ ~At(b, {"write"}) /\ Needy(S(b)) => held[b].row # NoRow
          /\ held[b].key \notin raced => held[b].row = Row(held[b].key)
      BY <2>1 DEF Holding
    <3>2. Fits(held[b].key, held[b].row) => Fits(held[b].key, held[b].row)'
      <4>1. \A k, r : Fits(k, r) => Fits(k, r)'
        BY KeptFits
      <4> QED
        BY <4>1
    <3>3. held[b].row # NoRow /\ Profile(held[b].key) => Row(held[b].key)' # NoRow
      BY <3>1 DEF Remains
    <3>4. held[b].key \notin raced' => held[b].row = Row(held[b].key)'
      BY <2>1, <3>1
    <3> QED
      BY <1>2, <1>3, <2>1, <3>1, <3>2, <3>3, <3>4 DEF Holding
  <2>2. CASE ~At(b, {"save", "set", "write"})
    BY <1>2, <2>2 DEF Holding
  <2> QED
    BY <2>1, <2>2
<1>5. OwnResult(b)'
  <2>1. CASE At(b, {"write"}) /\ S(b).key \notin raced'
    <3>1. At(b, {"save", "set", "write"}) /\ held[b].key = S(b).key
      BY <2>1 DEF At, Holding
    <3>2. S(b).key \notin raced /\ Row(S(b).key)' = Row(S(b).key)
      <4> DEFINE k == S(b).key
      <4>1. held[b].key \notin raced' => held[b].key \notin raced /\ Row(held[b].key)' = Row(held[b].key)
        BY <3>1
      <4>2. k = held[b].key /\ k' = k
        BY <1>3, <3>1
      <4> HIDE DEF k
      <4>3. k \notin raced /\ Row(k)' = Row(k)
        BY <2>1, <4>1, <4>2 DEF k
      <4> QED
        BY <4>3 DEF k
    <3>3. Result(b)' = Result(b)
      BY <1>3, <3>2 DEF Result
    <3> QED
      BY <1>3, <2>1, <3>2, <3>3 DEF OwnResult
  <2>2. CASE ~(At(b, {"write"}) /\ S(b).key \notin raced')
    BY <1>2, <1>3, <2>2 DEF OwnResult
  <2> QED
    BY <2>1, <2>2
<1> QED
  BY <1>1, <1>4, <1>5

LEMMA RestProgram ==
  ASSUME NEW a, NEW p, Program(a, p), p # << >>
  PROVE  /\ Program(a, Tail(p)) /\ (~Loads(Head(p)) => Opens(Tail(p)))
         /\ Head(p) = p[1] /\ 1 \in 1..Len(p) /\ Len(Tail(p)) = Len(p) - 1
         /\ \A i \in 1..Len(Tail(p)) : Tail(p)[i] = p[1 + i] /\ 1 + i \in 1..Len(p)
                                       /\ Tail(p)[i].op \notin {"write", "candle"}
<1>1. /\ Sequence(Tail(p)) /\ Len(Tail(p)) = Len(p) - 1 /\ Len(p) >= 1 /\ Head(p) = p[1]
      /\ \A i \in 1..Len(Tail(p)) : Tail(p)[i] = p[1 + i]
  BY TailIsSuffix DEF Program
<1>2. Len(p) \in Nat /\ 1 \in 0..Len(p) /\ 1 > 0
  BY <1>1 DEF Program, Sequence
<1> DEFINE q == Tail(p)
<1> HIDE DEF q
<1>3. /\ Program(a, q)
      /\ \A i \in 1..Len(q) : q[i].op \notin {"write", "candle"}
      /\ ~Loads(p[1]) => Opens(q)
  <2>1. Sequence(q) /\ Len(q) = Len(p) - 1 /\ \A i \in 1..Len(q) : q[i] = p[1 + i]
    BY <1>1 DEF q
  <2> QED
    BY <1>2, <2>1, SuffixProgram
<1> QED
  BY <1>1, <1>2, <1>3 DEF q
-----------------------------------------------------------------------------
(* How many swaps the row has yet to get.                                  *)

LEMMA ActorSets ==
  ASSUME NEW A, A \subseteq Actor, NEW B, B \subseteq Actor
  PROVE  /\ Cardinality(A) \in Nat
         /\ A \subseteq B => Cardinality(A) <= Cardinality(B)
         /\ \A x : x \in B /\ x \notin A /\ A \subseteq B => Cardinality(A) + 1 <= Cardinality(B)
         /\ \A x : A \subseteq B \cup {x} => Cardinality(A) <= Cardinality(B) + 1
         /\ A = {} => Cardinality(A) = 0
<1>1. IsFiniteSet(Actor)
  <2>1. IsFiniteSet({} \cup {"consumer"})
    BY FS_EmptySet, FS_AddElement
  <2>2. IsFiniteSet(({} \cup {"consumer"}) \cup {"replay"})
    BY <2>1, FS_AddElement
  <2>3. IsFiniteSet((({} \cup {"consumer"}) \cup {"replay"}) \cup {"admin"})
    BY <2>2, FS_AddElement
  <2>4. IsFiniteSet(((({} \cup {"consumer"}) \cup {"replay"}) \cup {"admin"}) \cup {"cron"})
    BY <2>3, FS_AddElement
  <2>5. IsFiniteSet((((({} \cup {"consumer"}) \cup {"replay"}) \cup {"admin"}) \cup {"cron"}) \cup {"cron2"})
    BY <2>4, FS_AddElement
  <2>6. Actor = (((({} \cup {"consumer"}) \cup {"replay"}) \cup {"admin"}) \cup {"cron"}) \cup {"cron2"}
    BY DEF Actor, Cron
  <2> QED
    BY <2>5, <2>6
<1>2. IsFiniteSet(A) /\ IsFiniteSet(B)
  BY <1>1, FS_Subset
<1>3. Cardinality(A) \in Nat /\ Cardinality(B) \in Nat
  BY <1>2, FS_CardinalityType
<1>4. A \subseteq B => Cardinality(A) <= Cardinality(B)
  BY <1>2, FS_Subset
<1>5. ASSUME NEW x, x \in B, x \notin A, A \subseteq B PROVE Cardinality(A) + 1 <= Cardinality(B)
  <2>1. A \subseteq B \ {x} /\ IsFiniteSet(B \ {x}) /\ Cardinality(B \ {x}) = Cardinality(B) - 1
    BY <1>2, <1>5, FS_RemoveElement
  <2>2. Cardinality(A) <= Cardinality(B \ {x})
    BY <2>1, FS_Subset
  <2> QED
    BY <1>3, <2>1, <2>2
<1>6. ASSUME NEW x, A \subseteq B \cup {x} PROVE Cardinality(A) <= Cardinality(B) + 1
  <2>1. /\ IsFiniteSet(B \cup {x})
        /\ Cardinality(B \cup {x}) = IF x \in B THEN Cardinality(B) ELSE Cardinality(B) + 1
    BY <1>2, FS_AddElement
  <2>2. Cardinality(A) <= Cardinality(B \cup {x})
    BY <1>6, <2>1, FS_Subset
  <2> QED
    BY <1>3, <2>1, <2>2
<1>7. A = {} => Cardinality(A) = 0
  BY FS_EmptySet
<1> QED
  BY <1>3, <1>4, <1>5, <1>6, <1>7

LEMMA Owing1 ==
  ASSUME NEW d
  PROVE  /\ Owing(d) \in Nat /\ Owing(d)' \in Nat
         /\ (\A b \in Actor : Owes(b, d)' => Owes(b, d)) => Owing(d)' <= Owing(d)
         /\ \A a \in Actor :
              /\ (\A b \in Actor : Owes(b, d)' => Owes(b, d)) /\ Owes(a, d) /\ ~Owes(a, d)' =>
                   Owing(d)' + 1 <= Owing(d)
              /\ (\A b \in Actor \ {a} : Owes(b, d)' => Owes(b, d)) => Owing(d)' <= Owing(d) + 1
         /\ (\A b \in Actor : ~Owes(b, d)') => Owing(d)' = 0
<1> DEFINE B == {b \in Actor : Owes(b, d)}
           A == {b \in Actor : Owes(b, d)'}
<1>1. Owing(d) = Cardinality(B) /\ Owing(d)' = Cardinality(A)
  BY DEF Owing
<1>2. A \subseteq Actor /\ B \subseteq Actor
  OBVIOUS
<1>3. (\A b \in Actor : Owes(b, d)' => Owes(b, d)) => A \subseteq B
  OBVIOUS
<1>4. \A a \in Actor : (\A b \in Actor \ {a} : Owes(b, d)' => Owes(b, d)) => A \subseteq B \cup {a}
  OBVIOUS
<1>5. \A a \in Actor : Owes(a, d) /\ ~Owes(a, d)' => a \in B /\ a \notin A
  OBVIOUS
<1>6. (\A b \in Actor : ~Owes(b, d)') => A = {}
  OBVIOUS
<1> HIDE DEF A, B
<1>7. Cardinality(B) \in Nat
  BY <1>2, ActorSets
<1> QED
  BY <1>1, <1>2, <1>3, <1>4, <1>5, <1>6, <1>7, ActorSets

LEMMA SameActors ==
  ASSUME Actors, UNCHANGED <<scenario, log, now, next, at, selected, started>>,
         DOMAIN todo' = Actor, DOMAIN held' = Actor
  PROVE  Actors'
<1>1. Stored' = Stored
  BY DEF Stored
<1>2. \A n \in DOMAIN log : EventFits(log[n])'
  BY DEF Actors, EventFits
<1> QED
  BY <1>1, <1>2 DEF Actors

LEMMA Stepped ==
  ASSUME IInv, NEW a \in Actor, NEW p, scenario' = scenario, now' = now,
         todo' = [todo EXCEPT ![a] = p], \A b \in Actor \ {a} : held'[b] = held[b],
         Program(a, p), Remains, raced \subseteq raced',
         \A k : k \notin raced' /\ (\E b \in Actor \ {a} : held[b].key = k) => Row(k)' = Row(k)
  PROVE  /\ todo'[a] = p /\ DOMAIN todo' = Actor
         /\ \A b \in Actor \ {a} : /\ todo'[b] = todo[b] /\ held'[b] = held[b]
                                   /\ Holding(b)' /\ OwnResult(b)'
         /\ \A b \in Actor : Program(b, todo[b])'
<1>1. now \in Nat /\ now' \in Nat /\ now <= now' /\ DOMAIN todo = Actor
  BY DEF IInv, Actors
<1>2. /\ todo'[a] = p /\ DOMAIN todo' = Actor
      /\ \A b \in Actor \ {a} : todo'[b] = todo[b] /\ held'[b] = held[b]
  BY <1>1
<1>3. ASSUME NEW b \in Actor \ {a} PROVE Program(b, todo[b])' /\ Holding(b)' /\ OwnResult(b)'
  <2>1. todo'[b] = todo[b] /\ held'[b] = held[b]
    BY <1>2
  <2>2. Program(b, todo[b]) /\ Holding(b) /\ OwnResult(b)
    BY DEF IInv
  <2>3. held[b].key \notin raced' => held[b].key \notin raced /\ Row(held[b].key)' = Row(held[b].key)
    <3> DEFINE k == held[b].key
    <3>1. k' = k
      BY <2>1
    <3>2. \A x : x = k /\ x \notin raced' => Row(x)' = Row(x)
      OBVIOUS
    <3> HIDE DEF k
    <3>3. k \notin raced' => Row(k)' = Row(k)
      BY <3>1, <3>2
    <3> QED
      BY <3>3 DEF k
  <2> QED
    BY <1>1, <2>1, <2>2, <2>3, Others
<1>4. Program(a, todo[a])'
  <2>1. \A x : Program(a, x) => Program(a, x)'
    BY <1>1, KeptProgram
  <2> QED
    BY <1>2, <2>1
<1> QED
  BY <1>2, <1>3, <1>4

\* An actor whose next statement is about no row in hand.
LEMMA Released ==
  ASSUME NEW a, NEW p, Sequence(p), p = << >> \/ p[1].op \notin {"save", "set", "write"},
         todo'[a] = p, held'[a] = NoHold
  PROVE  Holding(a)' /\ OwnResult(a)' /\ ~Storing(a)'
<1>1. p # << >> => Head(p) = p[1]
  BY TailIsSuffix
<1>2. ~At(a, {"save", "set", "write"})' /\ ~At(a, {"write"})'
  BY <1>1 DEF At, S
<1> QED
  BY <1>2 DEF Holding, OwnResult, Storing, NoHold
-----------------------------------------------------------------------------
(* What a step leaves of the bound on the day volume.                      *)

LEMMA Within ==
  ASSUME NEW n \in Int, NEW m \in Int, n <= m
  PROVE  0..n \subseteq 0..m /\ \A p, d : CopiesFit(p, d, n) => CopiesFit(p, d, m)
<1>1. 0..n \subseteq 0..m
  OBVIOUS
<1> QED
  BY <1>1 DEF CopiesFit

LEMMA CoveredStep ==
  ASSUME Covered, scenario' = scenario, ahead => ahead', raced \subseteq raced',
         \A d \in Days : ~Late(d)' =>
           ~Late(d) /\ Free(d) \in Int /\ Free(d)' \in Int /\ Free(d) <= Free(d)',
         \A b \in Actor, d \in Days :
           ~ahead' /\ ~Late(d)' =>
             \/ CopiesFit(todo'[b], d, Free(d)')
             \/ \A n : CopiesFit(todo[b], d, n) => CopiesFit(todo'[b], d, n),
         SpotToken \notin raced' =>
           \/ Row(SpotToken)' = Row(SpotToken)
           \/ \E b \in Actor : Storing(b) /\ Row(SpotToken)' = Result(b),
         SpotToken \notin raced' =>
           \A b \in Actor :
             Storing(b)' =>
               \/ Storing(b) /\ Result(b)' = Result(b)
               \/ \A d \in Days : ~ahead' /\ ~Late(d)' => Volume(Result(b), d)' \in 0..Free(d)'
  PROVE  Covered'
<1>1. SUFFICES ASSUME ~ahead', NEW d \in Days, ~Late(d)'
               PROVE  /\ \A b \in Actor : CopiesFit(todo'[b], d, Free(d)')
                      /\ SpotToken \notin raced' =>
                           /\ Volume(Row(SpotToken), d)' \in 0..Free(d)'
                           /\ \A b \in Actor : Storing(b)' => Volume(Result(b), d)' \in 0..Free(d)'
  <2>1. Days' = Days
    BY DEF Days
  <2> QED
    BY <2>1 DEF Covered
<1>2. /\ ~Late(d) /\ ~ahead /\ Free(d) \in Int /\ Free(d)' \in Int /\ Free(d) <= Free(d)'
  BY <1>1
<1>3. /\ \A b \in Actor : CopiesFit(todo[b], d, Free(d))
      /\ SpotToken \notin raced =>
           /\ Volume(Row(SpotToken), d) \in 0..Free(d)
           /\ \A b \in Actor : Storing(b) => Volume(Result(b), d) \in 0..Free(d)
  BY <1>2 DEF Covered
<1>4. /\ 0..Free(d) \subseteq 0..Free(d)'
      /\ \A p : CopiesFit(p, d, Free(d)) => CopiesFit(p, d, Free(d)')
  BY <1>2, Within
<1>5. \A b \in Actor : CopiesFit(todo'[b], d, Free(d)')
  BY <1>1, <1>3, <1>4
<1>6. ASSUME SpotToken \notin raced' PROVE Volume(Row(SpotToken), d)' \in 0..Free(d)'
  <2>1. SpotToken \notin raced
    BY <1>6
  <2>2. CASE Row(SpotToken)' = Row(SpotToken)
    <3>1. Volume(Row(SpotToken), d)' = Volume(Row(SpotToken), d)
      BY <2>2 DEF Volume
    <3> QED
      BY <1>3, <1>4, <2>1, <3>1
  <2>3. CASE \E b \in Actor : Storing(b) /\ Row(SpotToken)' = Result(b)
    <3>1. PICK b \in Actor : Storing(b) /\ Row(SpotToken)' = Result(b)
      BY <2>3
    <3>2. Volume(Row(SpotToken), d)' = Volume(Result(b), d)
      BY <3>1 DEF Volume
    <3> QED
      BY <1>3, <1>4, <2>1, <3>1, <3>2
  <2> QED
    BY <1>6, <2>2, <2>3
<1>7. ASSUME SpotToken \notin raced', NEW b \in Actor, Storing(b)'
      PROVE  Volume(Result(b), d)' \in 0..Free(d)'
  <2>1. SpotToken \notin raced
    BY <1>7
  <2>2. CASE Storing(b) /\ Result(b)' = Result(b)
    <3>1. Volume(Result(b), d)' = Volume(Result(b), d)
      BY <2>2 DEF Volume
    <3> QED
      BY <1>3, <1>4, <2>1, <2>2, <3>1
  <2> QED
    BY <1>1, <1>7, <2>2
<1> QED
  BY <1>5, <1>6, <1>7

LEMMA FreeKept ==
  ASSUME Candled, candle' = candle, NEW d, \A b \in Actor : Owes(b, d)' => Owes(b, d)
  PROVE  /\ Late(d)' <=> Late(d)
         /\ Free(d) \in Int /\ Free(d)' \in Int /\ Free(d) <= Free(d)'
         /\ \A a \in Actor : Owes(a, d) /\ ~Owes(a, d)' => Free(d) + 1 <= Free(d)'
<1>1. Room(d) \in Nat /\ Room(d)' = Room(d) /\ (Late(d)' <=> Late(d))
  BY DEF Room, Candled, Late
<1>2. Owing(d) \in Nat /\ Owing(d)' \in Nat /\ Owing(d)' <= Owing(d)
  BY Owing1
<1>3. \A a \in Actor : Owes(a, d) /\ ~Owes(a, d)' => Owing(d)' + 1 <= Owing(d)
  BY Owing1
<1>4. Free(d) = Room(d) - Owing(d) /\ Free(d)' = Room(d) - Owing(d)'
  BY <1>1 DEF Free
<1> QED
  BY <1>1, <1>2, <1>3, <1>4

\* What is left to run is of what there was, but for what is no swap and no copy.
Of1(q, p) ==
  \A i \in 1..Len(q) : Trade(q[i]) \/ Copies(q[i]) => \E j \in 1..Len(p) : q[i] = p[j]

LEMMA OwedBefore ==
  ASSUME NEW a, NEW q, todo'[a] = q, Of1(q, todo[a]),
         (\E i \in 1..Len(q) : Trade(q[i])) => todo[a] # << >> /\ S(a).op # "candle"
  PROVE  /\ \A d : Owes(a, d)' => Owes(a, d)
         /\ \A d, n : CopiesFit(todo[a], d, n) => CopiesFit(todo'[a], d, n)
<1>1. \A d : Owes(a, d)' => Owes(a, d)
  BY DEF Owes, Of1
<1>2. \A d, n : CopiesFit(todo[a], d, n) => CopiesFit(q, d, n)
  BY DEF CopiesFit, Of1
<1> QED
  BY <1>1, <1>2

LEMMA SameOwed ==
  ASSUME NEW b, todo'[b] = todo[b]
  PROVE  /\ \A d : Owes(b, d)' <=> Owes(b, d)
         /\ \A d, n : CopiesFit(todo[b], d, n) => CopiesFit(todo'[b], d, n)
         /\ Storing(b)' <=> Storing(b)
         /\ S(b)' = S(b)
         /\ \A k : k = S(b).key /\ Row(k)' = Row(k) => Result(b)' = Result(b)
<1>1. S(b)' = S(b)
  BY DEF S
<1>2. \A k : k = S(b).key /\ Row(k)' = Row(k) => Result(b)' = Result(b)
  <2> TAKE k
  <2>1. ASSUME k = S(b).key, Row(k)' = Row(k) PROVE Row(S(b).key)' = Row(S(b).key)
    BY <1>1, <2>1
  <2> QED
    BY <1>1, <2>1 DEF Result
<1> QED
  BY <1>1, <1>2 DEF Owes, S, Storing, At
-----------------------------------------------------------------------------
(* A step of one actor.                                                    *)

LEMMA CoveredBy ==
  ASSUME IInv, NEW a \in Actor, NEW p, scenario' = scenario, candle' = candle, ahead => ahead',
         raced \subseteq raced', todo' = [todo EXCEPT ![a] = p], Of1(p, todo[a]),
         (\E i \in 1..Len(p) : Trade(p[i])) => todo[a] # << >> /\ S(a).op # "candle",
         \A k : k \notin raced' /\ (\E b \in Actor \ {a} : held[b].key = k) => Row(k)' = Row(k),
         SpotToken \notin raced' =>
           Row(SpotToken)' = Row(SpotToken) \/ (Storing(a) /\ Row(SpotToken)' = Result(a)),
         SpotToken \notin raced' /\ Storing(a)' =>
           \A d \in Days : ~ahead' /\ ~Late(d)' => Volume(Result(a), d)' \in 0..Free(d)'
  PROVE  Covered'
<1>1. DOMAIN todo = Actor /\ Candled /\ Covered
  BY DEF IInv, Actors
<1>2. todo'[a] = p /\ \A b \in Actor \ {a} : todo'[b] = todo[b]
  BY <1>1
<1>3. \A b \in Actor : /\ \A d : Owes(b, d)' => Owes(b, d)
                       /\ \A d, n : CopiesFit(todo[b], d, n) => CopiesFit(todo'[b], d, n)
  BY <1>2, OwedBefore, SameOwed
<1>4. \A d \in Days : ~Late(d)' =>
        ~Late(d) /\ Free(d) \in Int /\ Free(d)' \in Int /\ Free(d) <= Free(d)'
  BY <1>1, <1>3, FreeKept
<1>5. ASSUME SpotToken \notin raced', NEW b \in Actor \ {a}, Storing(b)'
      PROVE  Storing(b) /\ Result(b)' = Result(b)
  <2>1. todo'[b] = todo[b] /\ Storing(b)
    BY <1>2, <1>5, SameOwed
  <2>2. S(b).key = SpotToken /\ At(b, {"save", "set", "write"})
    BY <2>1 DEF Storing, At
  <2>3. held[b].key = SpotToken
    BY <2>2 DEF IInv, Holding
  <2>4. Row(SpotToken)' = Row(SpotToken)
    BY <1>5, <2>3
  <2> QED
    BY <2>1, <2>2, <2>4, SameOwed
<1>6. SpotToken \notin raced' =>
        \A b \in Actor :
          Storing(b)' =>
            \/ Storing(b) /\ Result(b)' = Result(b)
            \/ \A d \in Days : ~ahead' /\ ~Late(d)' => Volume(Result(b), d)' \in 0..Free(d)'
  BY <1>5
<1>7. \A b \in Actor, d \in Days :
        ~ahead' /\ ~Late(d)' =>
          \/ CopiesFit(todo'[b], d, Free(d)')
          \/ \A n : CopiesFit(todo[b], d, n) => CopiesFit(todo'[b], d, n)
  BY <1>3
<1>8. SpotToken \notin raced' =>
        \/ Row(SpotToken)' = Row(SpotToken)
        \/ \E b \in Actor : Storing(b) /\ Row(SpotToken)' = Result(b)
  OBVIOUS
<1> QED
  BY <1>1, <1>4, <1>6, <1>7, <1>8, CoveredStep

LEMMA StatementStep ==
  ASSUME IInv, NEW a \in Actor, NEW p,
         UNCHANGED <<scenario, log, now, next, at, selected, started, candle>>, ahead => ahead',
         raced \subseteq raced', todo' = [todo EXCEPT ![a] = p], DOMAIN held' = Actor,
         \A b \in Actor \ {a} : held'[b] = held[b], Program(a, p), Remains, Of1(p, todo[a]),
         (\E i \in 1..Len(p) : Trade(p[i])) => todo[a] # << >> /\ S(a).op # "candle",
         \A k : k \notin raced' /\ (\E b \in Actor \ {a} : held[b].key = k) => Row(k)' = Row(k),
         SpotToken \notin raced' =>
           Row(SpotToken)' = Row(SpotToken) \/ (Storing(a) /\ Row(SpotToken)' = Result(a)),
         SpotToken \notin raced' /\ Storing(a)' =>
           \A d \in Days : ~ahead' /\ ~Late(d)' => Volume(Result(a), d)' \in 0..Free(d)',
         Rows', Holding(a)', OwnResult(a)'
  PROVE  IInv'
<1>1. /\ DOMAIN todo' = Actor
      /\ \A b \in Actor \ {a} : Holding(b)' /\ OwnResult(b)'
      /\ \A b \in Actor : Program(b, todo[b])'
  BY Stepped
<1>2. Actors'
  BY <1>1, SameActors DEF IInv
<1>3. Covered'
  BY CoveredBy
<1>4. Candled'
  BY DEF IInv, Candled
<1> QED
  BY <1>1, <1>2, <1>3, <1>4 DEF IInv

LEMMA WriteEffect ==
  ASSUME scenario \in Scenarios, scenario' = scenario, Rows, NEW a, NEW f, Write(a, f),
         \A k \in DOMAIN f : Fits(k, f[k])
  PROVE  /\ Rows' /\ Remains /\ raced \subseteq raced'
         /\ \A k : Row(k)' = IF k \in DOMAIN f THEN f[k] ELSE Row(k)
         /\ \A k : k \notin raced' /\ (\E b \in Actor \ {a} : held[b].key = k) => Row(k)' = Row(k)
<1>1. /\ rows' = Over(f, rows)
      /\ raced' = raced \cup {k \in DOMAIN f : \E b \in Actor \ {a} : held[b].key = k}
  BY DEF Write
<1>2. /\ DOMAIN rows' = DOMAIN f \cup DOMAIN rows
      /\ \A k \in DOMAIN rows' : rows'[k] = IF k \in DOMAIN f THEN f[k] ELSE rows[k]
  BY <1>1 DEF Over
<1>3. \A k : Row(k)' = IF k \in DOMAIN f THEN f[k] ELSE Row(k)
  BY <1>2 DEF Row
<1>4. \A k, r : Fits(k, r) => Fits(k, r)'
  BY KeptFits
<1>5. Rows'
  BY <1>2, <1>4 DEF Rows
<1>6. \A k, r : Profile(k) /\ Fits(k, r) => r # NoRow
  BY ScenariosAssumption DEF Profile, Fits
<1>7. Remains
  BY <1>3, <1>6 DEF Remains
<1>8. \A k : k \notin raced' /\ (\E b \in Actor \ {a} : held[b].key = k) => Row(k)' = Row(k)
  BY <1>1, <1>3
<1> QED
  BY <1>1, <1>3, <1>5, <1>7, <1>8
-----------------------------------------------------------------------------
(* The statements that write rows nobody loads, and columns.               *)

LEMMA RestStep ==
  ASSUME NEW a, Program(a, todo[a]), todo[a] # << >>
  PROVE  /\ S(a) = todo[a][1] /\ 1 \in 1..Len(todo[a]) /\ StatementFits(a, S(a))
         /\ Program(a, Rest(a)) /\ Of1(Rest(a), todo[a]) /\ Sequence(Rest(a))
         /\ Len(Rest(a)) = Len(todo[a]) - 1
         /\ \A i \in 1..Len(Rest(a)) : /\ Rest(a)[i] = todo[a][1 + i] /\ 1 + i \in 1..Len(todo[a])
                                       /\ Rest(a)[i].op \notin {"write", "candle"}
         /\ ~Loads(S(a)) => Opens(Rest(a))
<1>1. /\ Program(a, Tail(todo[a])) /\ (~Loads(Head(todo[a])) => Opens(Tail(todo[a])))
      /\ Head(todo[a]) = todo[a][1] /\ 1 \in 1..Len(todo[a]) /\ Len(Tail(todo[a])) = Len(todo[a]) - 1
      /\ \A i \in 1..Len(Tail(todo[a])) :
           /\ Tail(todo[a])[i] = todo[a][1 + i] /\ 1 + i \in 1..Len(todo[a])
           /\ Tail(todo[a])[i].op \notin {"write", "candle"}
  BY RestProgram
<1>2. StatementFits(a, todo[a][1])
  BY <1>1 DEF Program
<1>3. Of1(Tail(todo[a]), todo[a])
  BY <1>1 DEF Of1
<1>4. Sequence(Tail(todo[a]))
  BY <1>1 DEF Program
<1> QED
  BY <1>1, <1>2, <1>3, <1>4 DEF S, Rest

\* A statement without a row in hand writes f and goes on.
LEMMA WritesAndGoesOn ==
  ASSUME IInv, NEW a \in Actor, todo[a] # << >>, S(a).op \notin {"save", "set", "write", "find", "candle"},
         UNCHANGED <<scenario, log, now, next, at, selected, started, candle, held, ahead>>,
         Become(a, Rest(a)), Remains, Rows', raced \subseteq raced',
         \A k : k \notin raced' /\ (\E b \in Actor \ {a} : held[b].key = k) => Row(k)' = Row(k),
         Row(SpotToken)' = Row(SpotToken)
  PROVE  IInv'
<1>1. /\ Program(a, todo[a]) /\ Holding(a)
      /\ DOMAIN todo = Actor /\ DOMAIN held = Actor
  BY DEF IInv, Actors
<1> DEFINE p == Rest(a)
<1>2. /\ Program(a, p) /\ Of1(p, todo[a]) /\ Sequence(p)
      /\ p = << >> \/ p[1].op \notin {"save", "set", "write"}
  BY <1>1, RestStep DEF Loads, Opens
<1>3. held[a] = NoHold
  BY <1>1 DEF Holding, At
<1>4. todo' = [todo EXCEPT ![a] = p] /\ todo'[a] = p
  BY <1>1 DEF Become
<1> HIDE DEF p
<1>5. Holding(a)' /\ OwnResult(a)' /\ ~Storing(a)'
  BY <1>2, <1>3, <1>4, Released
<1>6. DOMAIN held' = Actor /\ \A b \in Actor \ {a} : held'[b] = held[b]
  BY <1>1
<1> QED
  BY <1>2, <1>4, <1>5, <1>6, StatementStep

LEMMA UpsertStep ==
  ASSUME IInv, NEW a \in Actor, RunUpsert(a)
  PROVE  IInv'
<1> DEFINE s == S(a)
           r == IF Row(s.key) = NoRow THEN s.new ELSE Over(s.patch, Row(s.key))
           f == One(s.key, r)
<1>1. todo[a] # << >> /\ s.op = "upsert" /\ Write(a, f) /\ Become(a, Rest(a))
  BY DEF RunUpsert, Is
<1>2. UNCHANGED <<scenario, log, now, next, at, selected, started, candle, held, ahead>>
  BY DEF RunUpsert, Untouched
<1>3. Program(a, todo[a]) /\ Rows /\ scenario \in Scenarios
  BY DEF IInv, Actors
<1>4. StatementFits(a, s)
  BY <1>1, <1>3, RestStep
<1>5. /\ s.key[1] # "pair" /\ s.key # SpotToken /\ ~IsBucket(s.key)
      /\ Fits(s.key, s.new) /\ Amends(s.key, s.patch)
  BY <1>1, <1>4 DEF StatementFits
<1>6. Row(s.key) # NoRow => Fits(s.key, Row(s.key))
  BY <1>3 DEF Rows, Row
<1>7. Fits(s.key, r)
  BY <1>5, <1>6 DEF Amends
<1>8. DOMAIN f = {s.key} /\ f[s.key] = r
  BY DEF One
<1> HIDE DEF s, r, f
<1>9. \A k \in DOMAIN f : Fits(k, f[k])
  BY <1>7, <1>8
<1>10. /\ Rows' /\ Remains /\ raced \subseteq raced'
       /\ \A k : Row(k)' = IF k \in DOMAIN f THEN f[k] ELSE Row(k)
       /\ \A k : k \notin raced' /\ (\E b \in Actor \ {a} : held[b].key = k) => Row(k)' = Row(k)
  BY <1>1, <1>2, <1>3, <1>9, WriteEffect
<1>11. Row(SpotToken)' = Row(SpotToken)
  BY <1>5, <1>8, <1>10
<1> QED
  BY <1>1, <1>2, <1>10, <1>11, WritesAndGoesOn DEF s

LEMMA UpdateStep ==
  ASSUME IInv, NEW a \in Actor, RunUpdate(a)
  PROVE  IInv'
<1> DEFINE s == S(a)
           K == {k \in s.keys : Row(k) # NoRow /\ rows[k].src \in s.where}
           f == [k \in K |-> Over(s.patch, rows[k])]
<1>1. todo[a] # << >> /\ s.op = "update" /\ Write(a, f) /\ Become(a, Rest(a))
  BY DEF RunUpdate, Is
<1>2. UNCHANGED <<scenario, log, now, next, at, selected, started, candle, held, ahead>>
  BY DEF RunUpdate, Untouched
<1>3. Program(a, todo[a]) /\ Rows /\ scenario \in Scenarios
  BY DEF IInv, Actors
<1>4. StatementFits(a, s)
  BY <1>1, <1>3, RestStep
<1>5. \A k \in s.keys : k[1] = "pair" /\ Amends(k, s.patch)
  BY <1>1, <1>4 DEF StatementFits
<1>6. \A k \in K : k \in DOMAIN rows /\ k[1] = "pair" /\ Amends(k, s.patch)
  BY <1>5 DEF Row
<1>7. \A k \in K : Fits(k, Over(s.patch, rows[k]))
  BY <1>3, <1>6 DEF Amends, Rows
<1>8. DOMAIN f = K /\ \A k \in K : f[k] = Over(s.patch, rows[k])
  OBVIOUS
<1>9. SpotToken \notin K
  BY <1>6, Keys
<1> HIDE DEF s, K, f
<1>10. \A k \in DOMAIN f : Fits(k, f[k])
  BY <1>7, <1>8
<1>11. /\ Rows' /\ Remains /\ raced \subseteq raced'
       /\ \A k : Row(k)' = IF k \in DOMAIN f THEN f[k] ELSE Row(k)
       /\ \A k : k \notin raced' /\ (\E b \in Actor \ {a} : held[b].key = k) => Row(k)' = Row(k)
  BY <1>1, <1>2, <1>3, <1>10, WriteEffect
<1>12. Row(SpotToken)' = Row(SpotToken)
  BY <1>8, <1>9, <1>11
<1> QED
  BY <1>1, <1>2, <1>11, <1>12, WritesAndGoesOn DEF s

LEMMA ComputeStep ==
  ASSUME IInv, NEW a \in Actor, RunCompute(a)
  PROVE  IInv'
<1> DEFINE s == S(a)
           K == s.keys \cap DOMAIN rows
           f == [k \in K |-> Computed(s.expr, rows[k])]
<1>1. todo[a] # << >> /\ s.op = "compute" /\ Write(a, f) /\ Become(a, Rest(a))
  BY DEF RunCompute, Is
<1>2. UNCHANGED <<scenario, log, now, next, at, selected, started, candle, held, ahead>>
  BY DEF RunCompute, Untouched
<1>3. Program(a, todo[a]) /\ Rows /\ scenario \in Scenarios
  BY DEF IInv, Actors
<1>4. StatementFits(a, s)
  BY <1>1, <1>3, RestStep
<1>5. \/ s.keys = {Account}
      \/ (\A k \in s.keys : k[1] = "pair") /\ s.expr = [of |-> "gauge"]
  BY <1>1, <1>4 DEF StatementFits
<1>6. \A r : Fits(Account, r)
  BY Keys DEF Fits
<1>7. ASSUME NEW k, k[1] = "pair", NEW r, Fits(k, r), s.expr = [of |-> "gauge"]
      PROVE  Fits(k, Computed(s.expr, r))
  <2>1. Computed(s.expr, r) = [r EXCEPT !.gauge = BothWhitelisted]
    BY <1>7 DEF Computed
  <2>2. r \in PairRow(scenario.days) /\ k # SpotToken /\ ~IsBucket(k) /\ k # Tiers
    BY <1>7, Keys DEF Fits
  <2>3. BothWhitelisted \in BOOLEAN
    BY DEF BothWhitelisted
  <2> DEFINE g == BothWhitelisted
  <2> HIDE DEF g
  <2>4. [r EXCEPT !.gauge = g] \in PairRow(scenario.days)
    BY <2>2, <2>3 DEF PairRow, g
  <2> QED
    BY <2>1, <2>2, <2>4 DEF Fits, g
<1>8. \A k \in K : Fits(k, Computed(s.expr, rows[k]))
  <2> TAKE k \in K
  <2>1. Fits(k, rows[k])
    BY <1>3 DEF Rows
  <2> QED
    BY <1>5, <1>6, <1>7, <2>1
<1>9. DOMAIN f = K /\ \A k \in K : f[k] = Computed(s.expr, rows[k])
  OBVIOUS
<1>10. SpotToken \notin K
  BY <1>5, Keys
<1> HIDE DEF s, K, f
<1>11. \A k \in DOMAIN f : Fits(k, f[k])
  BY <1>8, <1>9
<1>12. /\ Rows' /\ Remains /\ raced \subseteq raced'
       /\ \A k : Row(k)' = IF k \in DOMAIN f THEN f[k] ELSE Row(k)
       /\ \A k : k \notin raced' /\ (\E b \in Actor \ {a} : held[b].key = k) => Row(k)' = Row(k)
  BY <1>1, <1>2, <1>3, <1>11, WriteEffect
<1>13. Row(SpotToken)' = Row(SpotToken)
  BY <1>9, <1>10, <1>12
<1> QED
  BY <1>1, <1>2, <1>12, <1>13, WritesAndGoesOn DEF s

LEMMA DeleteStep ==
  ASSUME IInv, NEW a \in Actor, RunDelete(a)
  PROVE  IInv'
<1>1. /\ todo[a] # << >> /\ S(a).op = "delete" /\ Become(a, Rest(a))
      /\ rows' = Restrict(rows, DOMAIN rows \ {S(a).key})
  BY DEF RunDelete, Is
<1>2. UNCHANGED <<scenario, log, now, next, at, selected, started, candle, held, ahead, raced>>
  BY DEF RunDelete, Untouched
<1>3. Program(a, todo[a]) /\ Rows /\ scenario \in Scenarios
  BY DEF IInv, Actors
<1>4. StatementFits(a, S(a))
  BY <1>1, <1>3, RestStep
<1>5. S(a).key = Discount
  BY <1>1, <1>4 DEF StatementFits
<1>6. DOMAIN rows' = DOMAIN rows \ {Discount} /\ \A k \in DOMAIN rows' : rows'[k] = rows[k]
  BY <1>1, <1>5 DEF Restrict
<1>7. \A k : k # Discount => Row(k)' = Row(k)
  BY <1>6 DEF Row
<1>8. Rows'
  <2>1. \A k, r : Fits(k, r) => Fits(k, r)'
    BY <1>2, KeptFits
  <2> QED
    BY <1>3, <1>6, <2>1 DEF Rows
<1>9. \A k : Profile(k) => k # Discount
  BY Keys DEF Profile
<1>10. Remains
  BY <1>7, <1>9 DEF Remains
<1>11. \A b \in Actor : held[b].key # Discount
  <2> TAKE b \in Actor
  <2>1. Program(b, todo[b]) /\ Holding(b)
    BY DEF IInv
  <2>2. CASE At(b, {"save", "set", "write"})
    <3>1. StatementFits(b, S(b)) /\ S(b).op \in {"save", "set", "write"} /\ held[b].key = S(b).key
      BY <2>1, <2>2, RestStep DEF At, Holding
    <3> QED
      BY <3>1 DEF StatementFits
  <2>3. CASE ~At(b, {"save", "set", "write"})
    BY <2>1, <2>3 DEF Holding, NoHold, Discount
  <2> QED
    BY <2>2, <2>3
<1>12. SpotToken # Discount
  BY Keys
<1> QED
  BY <1>1, <1>2, <1>7, <1>8, <1>10, <1>11, <1>12, WritesAndGoesOn
-----------------------------------------------------------------------------
(* A load, and the statements that write the row in hand.                  *)

LEMMA FindStep ==
  ASSUME IInv, NEW a \in Actor, RunFind(a)
  PROVE  IInv'
<1>0. PICK s, r, m : s = S(a) /\ r = Row(s.key) /\ m = s.skip
  OBVIOUS
<1>1. /\ todo[a] # << >> /\ s.op = "find"
      /\ UNCHANGED <<scenario, log, now, next, at, selected, started, candle, rows, raced, ahead>>
  BY <1>0 DEF RunFind, Is, Untouched
<1>2. /\ Program(a, todo[a]) /\ Holding(a) /\ Rows /\ scenario \in Scenarios
      /\ DOMAIN todo = Actor /\ DOMAIN held = Actor
  BY DEF IInv, Actors
<1>3. /\ s = todo[a][1] /\ 1 \in 1..Len(todo[a]) /\ StatementFits(a, s)
      /\ Program(a, Rest(a)) /\ Of1(Rest(a), todo[a]) /\ Sequence(Rest(a))
      /\ Len(Rest(a)) = Len(todo[a]) - 1
      /\ \A i \in 1..Len(Rest(a)) : Rest(a)[i] = todo[a][1 + i] /\ 1 + i \in 1..Len(todo[a])
  BY <1>0, <1>1, <1>2, RestStep
<1>4. Len(todo[a]) \in Nat /\ m \in Nat /\ Sequence(todo[a])
  BY <1>0, <1>1, <1>2, <1>3 DEF Program, Sequence, StatementFits
<1>5. /\ 1 < Len(todo[a]) /\ Stores(todo[a][2]) /\ todo[a][2].key = s.key
      /\ Needy(todo[a][2]) => m > 0
      /\ m > 0 => 1 + m <= Len(todo[a]) /\ ~Loads(todo[a][1 + m])
  <2>1. Couples(todo[a]) /\ Loads(todo[a][1]) /\ 1 + 1 = 2
    BY <1>1, <1>2, <1>3 DEF Program, Loads
  <2> QED
    BY <1>0, <1>3, <2>1 DEF Couples
<1>6. held[a] = NoHold
  BY <1>0, <1>1, <1>2 DEF Holding, At
<1>7. Remains /\ Rows'
  <2>1. \A k, x : Fits(k, x) => Fits(k, x)'
    BY <1>1, KeptFits
  <2> QED
    BY <1>1, <1>2, <2>1 DEF Remains, Rows, Row
<1>8. \A k : Row(k)' = Row(k)
  BY <1>1 DEF Row
<1>9. CASE r = NoRow /\ m > 0
  <2> DEFINE p == Rest(a)
             q == SubSeq(p, m + 1, Len(p))
  <2>1. todo' = [todo EXCEPT ![a] = q] /\ held' = held
    BY <1>0, <1>9 DEF RunFind, Become
  <2>2. Len(p) = Len(todo[a]) - 1 /\ Sequence(p)
    BY <1>3
  <2> HIDE DEF p
  <2>3. m \in 0..Len(p) /\ 1 + m \in 0..Len(todo[a]) /\ 1 + m > 0 /\ ~Loads(todo[a][1 + m])
    BY <1>4, <1>5, <1>9, <2>2
  <2>12. q = SubSeq(p, m + 1, Len(p))
    OBVIOUS
  <2> HIDE DEF q
  <2>4. /\ Sequence(q) /\ Len(q) = Len(p) - m
        /\ \A i \in 1..Len(q) : q[i] = p[m + i]
    BY ONLY <2>2, <2>3, <2>12, Suffix, ZenonT(30)
  <2>5. Len(q) = Len(todo[a]) - (1 + m)
    BY <1>4, <2>2, <2>4
  <2>6. ASSUME NEW i \in 1..Len(q)
        PROVE  q[i] = todo[a][(1 + m) + i] /\ (1 + m) + i \in 1..Len(todo[a])
    <3>1. m + i \in 1..Len(p) /\ 1 + (m + i) = (1 + m) + i
      BY <1>4, <2>2, <2>3, <2>4
    <3> QED
      BY <1>3, <2>4, <3>1 DEF p
  <2>7. Program(a, q) /\ Opens(q)
    <3> DEFINE k == 1 + m
               w == todo[a]
    <3>1. /\ k \in 0..Len(w) /\ k > 0 /\ ~Loads(w[k]) /\ Len(q) = Len(w) - k
          /\ \A i \in 1..Len(q) : q[i] = w[k + i]
      BY <2>3, <2>5, <2>6
    <3>2. Program(a, w)
      BY <1>2
    <3> HIDE DEF k, w
    <3> QED
      BY ONLY <2>4, <3>1, <3>2, SuffixProgram
  <2>8. Of1(q, todo[a])
    BY <2>6 DEF Of1
  <2>9. todo'[a] = q /\ held'[a] = NoHold
    BY <1>2, <1>6, <2>1
  <2>10. Holding(a)' /\ OwnResult(a)' /\ ~Storing(a)'
    BY <2>4, <2>7, <2>9, Released DEF Opens
  <2>11. S(a).op # "candle"
    BY <1>0, <1>1
  <2> QED
    BY <1>1, <1>2, <1>7, <1>8, <2>1, <2>7, <2>8, <2>10, <2>11, StatementStep
<1>10. CASE ~(r = NoRow /\ m > 0)
  <2> DEFINE p == Rest(a)
             h == [key |-> s.key, row |-> r]
  <2>1. todo' = [todo EXCEPT ![a] = p] /\ held' = [held EXCEPT ![a] = h]
    BY <1>0, <1>10 DEF RunFind, Become
  <2>2. todo'[a] = p /\ held'[a] = h /\ DOMAIN held' = Actor /\ \A b \in Actor \ {a} : held'[b] = held[b]
    BY <1>2, <2>1
  <2>3. p # << >> /\ Head(p) = todo[a][2]
    <3>1. 1 \in 1..Len(p) /\ 1 + 1 = 2
      BY <1>3, <1>4, <1>5
    <3>2. p # << >>
      BY <1>3, <3>1, EmptyOnly
    <3> QED
      BY <1>3, <3>1, <3>2, TailIsSuffix
  <2> HIDE DEF p
  <2>4. /\ S(a)' = todo[a][2] /\ At(a, {"save", "set", "write"})' /\ ~At(a, {"write"})'
    BY <1>5, <2>2, <2>3 DEF At, S, Stores
  <2>5. r = NoRow \/ Fits(s.key, r)'
    <3>1. \A k, x : Fits(k, x) => Fits(k, x)'
      BY <1>1, KeptFits
    <3>2. r # NoRow => Fits(s.key, r)
      BY <1>0, <1>2 DEF Rows, Row
    <3> QED
      BY <3>1, <3>2
  <2>6. Needy(todo[a][2]) => r # NoRow
    BY <1>5, <1>10
  <2>7. Row(s.key)' = r
    BY <1>0, <1>8
  <2>8. Holding(a)'
    <3>1. held'[a].key = s.key /\ held'[a].row = r
      BY <2>2
    <3>2. \A x, y : x = s.key /\ y = r => (y = NoRow \/ Fits(x, y)') /\ Row(x)' = y
      BY <2>5, <2>7
    <3>3. /\ held'[a].row = NoRow \/ Fits(held[a].key, held[a].row)'
          /\ Row(held[a].key)' = held'[a].row
      BY <3>1, <3>2
    <3> QED
      BY <1>5, <2>4, <2>6, <3>1, <3>3 DEF Holding
  <2>9. OwnResult(a)' /\ ~Storing(a)'
    BY <2>4 DEF OwnResult, Storing
  <2>10. Program(a, p) /\ Of1(p, todo[a]) /\ S(a).op # "candle"
    BY <1>0, <1>1, <1>3 DEF p
  <2> QED
    BY <1>1, <1>2, <1>7, <1>8, <2>1, <2>2, <2>8, <2>9, <2>10, StatementStep
<1> QED
  BY <1>9, <1>10

\* A statement writes the row in hand and lets it go.
LEMMA WritesAndReleases ==
  ASSUME IInv, NEW a \in Actor, todo[a] # << >>, S(a).op \in {"set", "write"},
         UNCHANGED <<scenario, log, now, next, at, selected, started, candle, ahead>>,
         Become(a, Rest(a)), Release(a), NEW r, Write(a, One(S(a).key, r)), Fits(S(a).key, r),
         S(a).key = SpotToken => Storing(a) /\ r = Result(a)
  PROVE  IInv'
<1>1. /\ Program(a, todo[a]) /\ Rows /\ scenario \in Scenarios
      /\ DOMAIN todo = Actor /\ DOMAIN held = Actor
  BY DEF IInv, Actors
<1> DEFINE p == Rest(a)
<1>2. /\ Program(a, p) /\ Of1(p, todo[a]) /\ Sequence(p)
      /\ p = << >> \/ p[1].op \notin {"save", "set", "write"}
  BY <1>1, RestStep DEF Loads, Opens
<1>3. todo' = [todo EXCEPT ![a] = p] /\ todo'[a] = p
  BY <1>1 DEF Become
<1>4. DOMAIN held' = Actor /\ held'[a] = NoHold /\ \A b \in Actor \ {a} : held'[b] = held[b]
  BY <1>1 DEF Release
<1> HIDE DEF p
<1>5. Holding(a)' /\ OwnResult(a)' /\ ~Storing(a)'
  BY <1>2, <1>3, <1>4, Released
<1>6. PICK f : f = One(S(a).key, r)
  OBVIOUS
<1>7. DOMAIN f = {S(a).key} /\ f[S(a).key] = r
  BY <1>6 DEF One
<1>8. Write(a, f) /\ \A k \in DOMAIN f : Fits(k, f[k])
  BY <1>6, <1>7
<1>9. /\ Rows' /\ Remains /\ raced \subseteq raced'
      /\ \A k : Row(k)' = IF k \in DOMAIN f THEN f[k] ELSE Row(k)
      /\ \A k : k \notin raced' /\ (\E b \in Actor \ {a} : held[b].key = k) => Row(k)' = Row(k)
  BY <1>1, <1>8, WriteEffect
<1>10. Row(SpotToken)' = Row(SpotToken) \/ (Storing(a) /\ Row(SpotToken)' = Result(a))
  BY <1>7, <1>9
<1> QED
  BY <1>2, <1>3, <1>4, <1>5, <1>9, <1>10, StatementStep

LEMMA SetStep ==
  ASSUME IInv, NEW a \in Actor, RunSet(a)
  PROVE  IInv'
<1>1. PICK s, h, row, new, f :
        /\ s = S(a) /\ h = held[a].row /\ row = Row(s.key) /\ new = Edited(s.edit, h)
        /\ f = [c \in s.cols |-> new[c]]
  OBVIOUS
<1>2. /\ todo[a] # << >> /\ s.op = "set" /\ Become(a, Rest(a)) /\ Release(a)
      /\ Write(a, One(s.key, Over(f, row)))
      /\ UNCHANGED <<scenario, log, now, next, at, selected, started, candle, ahead>>
  BY <1>1 DEF RunSet, Is, Untouched
<1>3. Program(a, todo[a]) /\ Holding(a) /\ Rows /\ scenario \in Scenarios
  BY DEF IInv, Actors
<1>4. s.key[1] = "pair" /\ s.cols = {"liquidity", "price"} /\ s.edit = [of |-> "swap"]
  <2>1. StatementFits(a, s)
    BY <1>1, <1>2, <1>3, RestStep
  <2> QED
    BY <1>2, <2>1 DEF StatementFits
<1>5. h # NoRow /\ Fits(s.key, h) /\ row # NoRow
  <2>1. At(a, {"save", "set", "write"}) /\ ~At(a, {"write"}) /\ Needy(s)
    BY <1>1, <1>2 DEF At, Needy
  <2>2. held[a].key = s.key
    BY <1>1, <1>3, <2>1 DEF Holding
  <2> QED
    BY <1>1, <1>3, <1>4, <2>1, <2>2 DEF Holding, Profile
<1>6. h \in PairRow(scenario.days) /\ row \in PairRow(scenario.days)
  <2>1. Fits(s.key, row)
    BY <1>1, <1>3, <1>5 DEF Rows, Row
  <2> QED
    BY <1>4, <1>5, <2>1 DEF Fits
<1>7. new = Swapped(h)
  BY <1>1, <1>4, EditedIs
<1>8. new.liquidity \in Nat /\ new.price \in {"none", "token1/token0", "token0/token1"}
  BY <1>6, <1>7 DEF Swapped, QuotePerBase, PairRow
<1>9. DOMAIN f = {"liquidity", "price"} /\ f.liquidity = new.liquidity /\ f.price = new.price
  BY <1>1, <1>4
<1>10. Over(f, row) \in PairRow(scenario.days)
  BY <1>6, <1>8, <1>9, PairPatch DEF PairColumns
<1>11. Fits(s.key, Over(f, row)) /\ s.key # SpotToken
  BY <1>4, <1>10, Keys DEF Fits
<1> QED
  BY <1>1, <1>2, <1>11, WritesAndReleases

LEMMA WriteStep ==
  ASSUME IInv, NEW a \in Actor, RunWrite(a)
  PROVE  IInv'
<1>1. PICK s, row, r : s = S(a) /\ row = Row(s.key) /\ r = Result(a)
  OBVIOUS
<1>2. /\ todo[a] # << >> /\ s.op = "write" /\ Become(a, Rest(a)) /\ Release(a)
      /\ Write(a, One(s.key, r)) /\ r = Patched(s.patch, row) /\ (s.insert => row = NoRow)
      /\ UNCHANGED <<scenario, log, now, next, at, selected, started, candle, ahead>>
  BY <1>1 DEF RunWrite, Is, Untouched, Result
<1>3. Program(a, todo[a]) /\ Rows
  BY DEF IInv
<1>4. /\ s.key # Tiers
      /\ IF s.insert THEN Fits(s.key, s.patch)
         ELSE Amends(s.key, s.patch) /\ (Profile(s.key) => row # NoRow)
  <2>1. StatementFits(a, s)
    BY <1>1, <1>2, <1>3, RestStep
  <2> QED
    BY <1>1, <1>2, <2>1 DEF StatementFits
<1>5. Fits(s.key, r)
  <2>1. CASE s.insert
    BY <1>2, <1>4, <2>1 DEF Patched
  <2>2. CASE ~s.insert /\ row # NoRow
    <3>1. Fits(s.key, row)
      BY <1>1, <1>3, <2>2 DEF Rows, Row
    <3> QED
      BY <1>2, <1>4, <2>2, <3>1 DEF Patched, Amends
  <2>3. CASE ~s.insert /\ row = NoRow
    BY <1>4, <2>3 DEF Fits, Profile
  <2> QED
    BY <2>1, <2>2, <2>3
<1>6. s.key = SpotToken => Storing(a)
  BY <1>1, <1>2 DEF Storing, At
<1> QED
  BY <1>1, <1>2, <1>5, <1>6, WritesAndReleases
-----------------------------------------------------------------------------
(* The candles.                                                            *)

LEMMA GreatestOf ==
  ASSUME NEW lo \in Int, NEW hi \in Int, lo <= hi
  PROVE  Max(lo..hi) = hi
<1>1. hi \in lo..hi /\ \A y \in lo..hi : hi >= y
  OBVIOUS
<1>2. \A x \in lo..hi : (\A y \in lo..hi : x >= y) => x = hi
  BY <1>1
<1> QED
  BY <1>1, <1>2 DEF Max

LEMMA CandlesGrow ==
  ASSUME Candled, now \in Nat, now' = now, NEW d \in 1..now, NEW n \in Nat, candle' = Candles(d, n)
  PROVE  /\ Candled'
         /\ \A e : Room(e) \in Nat /\ Room(e)' \in Nat /\ Room(e) <= Room(e)' /\ (Late(e) => Late(e)')
         /\ Late(d)' \/ Room(d) + n <= Room(d)'
<1>1. \A e \in DOMAIN candle : candle[e] \in Nat
  BY DEF Candled
<1>2. CASE candle = << >>
  <2>1. DOMAIN candle = {} /\ candle' = One(d, n)
    BY <1>2 DEF Candles
  <2>2. DOMAIN candle' = {d} /\ candle'[d] = n /\ d \in 1..now /\ {d} = d..d
    BY <2>1 DEF One
  <2>3. Candled'
    BY <2>2 DEF Candled
  <2> QED
    BY <2>1, <2>2, <2>3 DEF Room, Late
<1>3. CASE candle # << >>
  <2>1. PICK lo \in 1..now, hi \in 1..now : lo <= hi /\ DOMAIN candle = lo..hi
    BY <1>3 DEF Candled
  <2>2. Max(DOMAIN candle) = hi
    BY <2>1, GreatestOf
  <2>3. CASE d \in DOMAIN candle
    <3>1. candle' = [candle EXCEPT ![d] = @ + n]
      BY <1>3, <2>3 DEF Candles
    <3>2. PICK v : v = candle[d] + n
      OBVIOUS
    <3>3. candle' = [candle EXCEPT ![d] = v] /\ v \in Nat /\ candle[d] \in Nat
      BY <1>1, <2>3, <3>1, <3>2
    <3>4. /\ DOMAIN candle' = DOMAIN candle /\ candle'[d] = v
          /\ \A e \in DOMAIN candle : e # d => candle'[e] = candle[e]
      BY <2>3, <3>3
    <3>5. Candled'
      BY <1>1, <2>1, <3>3, <3>4 DEF Candled
    <3>6. \A e : Late(e) => Late(e)'
      BY <3>4 DEF Late
    <3> QED
      BY <1>1, <2>3, <3>2, <3>3, <3>4, <3>5, <3>6 DEF Room
  <2>4. CASE d \notin DOMAIN candle /\ d < hi
    <3>1. candle' = candle
      BY <1>3, <2>2, <2>4 DEF Candles
    <3>2. hi \in DOMAIN candle
      BY <2>1
    <3>3. Late(d)'
      BY <2>4, <3>1, <3>2 DEF Late
    <3>4. Candled'
      BY <3>1 DEF Candled
    <3>5. \A e : Room(e) \in Nat /\ Room(e)' = Room(e) /\ (Late(e) => Late(e)')
      BY <1>1, <3>1 DEF Room, Late
    <3> QED
      BY <3>3, <3>4, <3>5
  <2>5. CASE d \notin DOMAIN candle /\ ~(d < hi)
    <3> DEFINE z == [e \in hi..d |-> 0]
    <3>1. candle' = Over(One(d, n), Over(candle, z))
      BY <1>3, <2>2, <2>5 DEF Candles
    <3>2. DOMAIN z = hi..d /\ \A e \in hi..d : z[e] = 0
      OBVIOUS
    <3> HIDE DEF z
    <3>3. /\ DOMAIN Over(candle, z) = lo..hi \cup hi..d
          /\ \A e \in lo..hi \cup hi..d :
               Over(candle, z)[e] = IF e \in lo..hi THEN candle[e] ELSE z[e]
      BY <2>1, <3>2 DEF Over
    <3>4. DOMAIN One(d, n) = {d} /\ One(d, n)[d] = n
      BY DEF One
    <3>5. /\ DOMAIN candle' = {d} \cup (lo..hi \cup hi..d)
          /\ \A e \in {d} \cup (lo..hi \cup hi..d) :
               candle'[e] = IF e = d THEN n ELSE IF e \in lo..hi THEN candle[e] ELSE z[e]
      BY <3>1, <3>3, <3>4 DEF Over
    <3>6. d > hi /\ {d} \cup (lo..hi \cup hi..d) = lo..d /\ lo <= d /\ d \in 1..now
      BY <2>1, <2>5
    <3>7. \A e \in lo..d : candle'[e] \in Nat
      BY <1>1, <2>1, <3>2, <3>5, <3>6
    <3>8. Candled'
      BY <2>1, <3>5, <3>6, <3>7 DEF Candled
    <3>9. \A e : Late(e) => Late(e)'
      BY <2>1, <3>5, <3>6 DEF Late
    <3>10. \A e : Room(e) \in Nat /\ Room(e)' \in Nat /\ Room(e) <= Room(e)'
      <4> TAKE e
      <4>1. CASE e \in lo..hi
        BY <1>1, <2>1, <3>5, <3>6, <4>1 DEF Room
      <4>2. CASE e \notin lo..hi
        BY <2>1, <3>5, <3>6, <3>7, <4>2 DEF Room
      <4> QED
        BY <4>1, <4>2
    <3>11. Room(d) = 0 /\ Room(d)' = n
      BY <2>1, <2>5, <3>5, <3>6 DEF Room
    <3> QED
      BY <3>8, <3>9, <3>10, <3>11
  <2> QED
    BY <2>1, <2>3, <2>4, <2>5
<1> QED
  BY <1>2, <1>3

LEMMA CandleStep ==
  ASSUME IInv, NEW a \in Actor, RunCandle(a)
  PROVE  IInv'
<1>1. PICK s, p, d, n : s = S(a) /\ p = Rest(a) /\ d = s.day /\ n = s.count
  OBVIOUS
<1>2. /\ todo[a] # << >> /\ s.op = "candle" /\ todo' = [todo EXCEPT ![a] = p]
      /\ candle' = Candles(d, n)
      /\ UNCHANGED <<scenario, log, now, next, at, selected, started, rows, held, raced, ahead>>
  BY <1>1 DEF RunCandle, Is, Untouched, Become
<1>3. /\ Program(a, todo[a]) /\ Holding(a) /\ Actors /\ Candled /\ Rows /\ Covered
      /\ DOMAIN todo = Actor /\ DOMAIN held = Actor /\ now \in Nat
  BY DEF IInv, Actors
<1>4. /\ s = todo[a][1] /\ 1 \in 1..Len(todo[a]) /\ StatementFits(a, s)
      /\ Program(a, p) /\ Of1(p, todo[a]) /\ Sequence(p) /\ Len(p) = Len(todo[a]) - 1
      /\ \A i \in 1..Len(p) : p[i] = todo[a][1 + i] /\ 1 + i \in 1..Len(todo[a])
      /\ p = << >> \/ p[1].op \notin {"save", "set", "write"}
  BY <1>1, <1>2, <1>3, RestStep DEF Loads, Opens
<1>5. d \in 1..now /\ n \in Nat
  BY <1>1, <1>2, <1>4 DEF StatementFits
<1>6. /\ Candled'
      /\ \A e : Room(e) \in Nat /\ Room(e)' \in Nat /\ Room(e) <= Room(e)' /\ (Late(e) => Late(e)')
      /\ Late(d)' \/ Room(d) + n <= Room(d)'
  BY <1>2, <1>3, <1>5, CandlesGrow
<1>7. \A k : Row(k)' = Row(k)
  BY <1>2 DEF Row
<1>8. Remains /\ Rows'
  <2>1. \A k, x : Fits(k, x) => Fits(k, x)'
    BY <1>2, KeptFits
  <2> QED
    BY <1>2, <1>3, <1>7, <2>1 DEF Remains, Rows
<1>9. /\ todo'[a] = p /\ DOMAIN todo' = Actor
      /\ \A b \in Actor \ {a} : todo'[b] = todo[b] /\ Holding(b)' /\ OwnResult(b)'
      /\ \A b \in Actor : Program(b, todo[b])'
  BY <1>2, <1>4, <1>7, <1>8, Stepped
<1>10. held'[a] = NoHold
  BY <1>1, <1>2, <1>3 DEF Holding, At
<1>11. Holding(a)' /\ OwnResult(a)' /\ ~Storing(a)'
  BY <1>4, <1>9, <1>10, Released
<1>12. Actors'
  BY <1>2, <1>3, <1>9, SameActors
<1>13. \A e : Owes(a, e)' => e = d /\ n = 1
  <2> SUFFICES ASSUME NEW e, Owes(a, e)' PROVE e = d /\ n = 1
    OBVIOUS
  <2>1. PICK i \in 1..Len(p) : Trade(p[i]) /\ p[i].edit.day = e
    BY <1>9 DEF Owes
  <2>2. PICK j : j = 1 + i
    OBVIOUS
  <2>3. j \in 1..Len(todo[a]) /\ Trade(todo[a][j]) /\ todo[a][j].edit.day = e /\ OneTrade(todo[a])
    BY <1>3, <1>4, <2>1, <2>2 DEF Program
  <2> QED
    BY <1>1, <1>2, <1>4, <2>3 DEF OneTrade
<1>14. \A e : Free(e) \in Int /\ Free(e)' \in Int /\ (~Late(e)' => ~Late(e) /\ Free(e) <= Free(e)')
  <2> TAKE e
  <2>1. \A b \in Actor \ {a} : Owes(b, e)' => Owes(b, e)
    BY <1>9, SameOwed
  <2>2. Owing(e) \in Nat /\ Owing(e)' \in Nat /\ Owing(e)' <= Owing(e) + 1
    BY <2>1, Owing1
  <2>3. ~(e = d /\ n = 1) => Owing(e)' <= Owing(e)
    BY <1>13, <2>1, Owing1
  <2>4. Free(e) = Room(e) - Owing(e) /\ Free(e)' = Room(e)' - Owing(e)'
    BY DEF Free
  <2> QED
    BY <1>6, <2>2, <2>3, <2>4
<1>15. \A b \in Actor : \A e, m : CopiesFit(todo[b], e, m) => CopiesFit(todo'[b], e, m)
  <2>1. \A e, m : CopiesFit(todo[a], e, m) => CopiesFit(p, e, m)
    BY <1>4 DEF CopiesFit
  <2> QED
    BY <1>9, <2>1
<1>16. \A b \in Actor : Storing(b)' => Storing(b) /\ Result(b)' = Result(b)
  <2> SUFFICES ASSUME NEW b \in Actor \ {a}, Storing(b)' PROVE Storing(b) /\ Result(b)' = Result(b)
    BY <1>11
  <2>1. todo'[b] = todo[b]
    BY <1>9
  <2> QED
    BY <1>7, <2>1, SameOwed
<1>17. Covered'
  BY <1>2, <1>3, <1>7, <1>14, <1>15, <1>16, CoveredStep
<1> QED
  BY <1>6, <1>8, <1>9, <1>11, <1>12, <1>17 DEF IInv
-----------------------------------------------------------------------------
(* The end of a handler.                                                   *)

LEMMA LastTagged ==
  ASSUME NEW p, Sequence(p), NEW m \in 1..Len(p), Tagged(p[m])
  PROVE  \E last \in 1..Len(p) :
           /\ AfterRollup(p) = SubSeq(p, last + 1, Len(p)) /\ Tagged(p[last])
           /\ \A j \in 1..Len(p) : Tagged(p[j]) => j <= last
<1>1. Len(p) \in Nat /\ DOMAIN p = 1..Len(p)
  <2>1. Len(p) \in Nat /\ p = [i \in 1..Len(p) |-> p[i]]
    BY DEF Sequence
  <2>2. PICK n : n = 1..Len(p)
    OBVIOUS
  <2>3. p = [i \in n |-> p[i]]
    BY <2>1, <2>2
  <2>4. DOMAIN p = n
    BY ONLY <2>3, Zenon
  <2> QED
    BY <2>1, <2>2, <2>4
<1> DEFINE IsEnd(i) == "rollup" \in DOMAIN p[i] /\ \A j \in DOMAIN p : "rollup" \in DOMAIN p[j] => j <= i
           last == CHOOSE i \in DOMAIN p : IsEnd(i)
<1>0. AfterRollup(p) = SubSeq(p, last + 1, Len(p))
  BY DEF AfterRollup
<1> DEFINE T == {n \in Nat : \E i \in 1..Len(p) : Tagged(p[i]) /\ n = Len(p) - i}
<1>2. T \subseteq Nat /\ T # {}
  <2>1. Len(p) - m \in Nat
    BY <1>1
  <2>2. Len(p) - m \in T
    BY <2>1
  <2> QED
    BY <2>2
<1> HIDE DEF T
<1>3. Min(T) \in T /\ \A y \in T : Min(T) <= y
  BY <1>2, LeastOf
<1>4. PICK i \in 1..Len(p) : Tagged(p[i]) /\ Min(T) = Len(p) - i
  BY <1>3 DEF T
<1>5. ASSUME NEW j \in 1..Len(p), Tagged(p[j]) PROVE j <= i
  <2>1. Len(p) - j \in T
    BY <1>1, <1>5 DEF T
  <2>2. Len(p) - i <= Len(p) - j
    BY <1>3, <1>4, <2>1
  <2> QED
    BY <1>1, <2>2
<1>6. i \in DOMAIN p /\ IsEnd(i)
  BY <1>1, <1>4, <1>5 DEF Tagged
<1>7. last \in DOMAIN p /\ IsEnd(last)
  <2> HIDE DEF IsEnd
  <2> QED
    BY <1>6
<1> HIDE DEF last
<1> QED
  BY <1>0, <1>1, <1>7 DEF Tagged

LEMMA AbandonStep ==
  ASSUME IInv, NEW a \in Actor, todo[a] # << >>, Abandon(a)
  PROVE  IInv'
<1>1. PICK s, w, p :
        /\ s = S(a) /\ w = todo[a]
        /\ p = IF "rollup" \in DOMAIN s THEN AfterRollup(w)
               ELSE IF "beside" \in DOMAIN s THEN Rest(a) ELSE << >>
  OBVIOUS
<1>2. /\ todo' = [todo EXCEPT ![a] = p] /\ held' = [held EXCEPT ![a] = NoHold]
      /\ UNCHANGED <<scenario, log, now, next, at, selected, started, candle, rows, raced, ahead>>
  BY <1>1 DEF Abandon, Become, Release, Tagged
<1>3. /\ Program(a, w) /\ Rows /\ DOMAIN todo = Actor /\ DOMAIN held = Actor
  BY <1>1 DEF IInv, Actors
<1>4. /\ s = w[1] /\ 1 \in 1..Len(w) /\ StatementFits(a, s)
      /\ Program(a, Rest(a)) /\ Of1(Rest(a), w) /\ Sequence(Rest(a))
      /\ ~Loads(s) => Opens(Rest(a))
  BY <1>1, <1>3, RestStep
<1>5. /\ Program(a, p) /\ Of1(p, w) /\ Sequence(p) /\ Opens(p)
      /\ s.op = "candle" => p = << >>
  <2>1. CASE Tagged(s)
    <3>1. Sequence(w) /\ Len(w) \in Nat /\ p = AfterRollup(w)
      <4>1. Sequence(w)
        BY <1>3 DEF Program
      <4>2. p = AfterRollup(w)
        BY <1>1, <2>1 DEF Tagged
      <4> QED
        BY <4>1, <4>2 DEF Sequence
    <3>2. PICK last \in 1..Len(w) :
            /\ AfterRollup(w) = SubSeq(w, last + 1, Len(w)) /\ Tagged(w[last])
            /\ \A j \in 1..Len(w) : Tagged(w[j]) => j <= last
      BY <1>4, <2>1, <3>1, LastTagged
    <3>3. p = SubSeq(w, last + 1, Len(w))
      BY <3>1, <3>2
    <3>4. /\ last \in 1..Len(w) /\ Tagged(w[last]) /\ \A j \in 1..Len(w) : Tagged(w[j]) => j <= last
          /\ Len(w) \in Nat
      BY <3>1, <3>2
    <3>5. ~Loads(w[last])
      <4> SUFFICES ASSUME Loads(w[last]) PROVE FALSE
        OBVIOUS
      <4>1. last < Len(w) /\ Tagged(w[last + 1])
        BY <1>3, <3>4 DEF Program, Couples
      <4>2. last + 1 \in 1..Len(w)
        BY <3>4, <4>1
      <4>3. last + 1 <= last
        BY <3>4, <4>1, <4>2
      <4> QED
        BY <3>4, <4>3
    <3>6. last \in 0..Len(w) /\ last > 0
      BY <3>4
    <3>7. /\ Sequence(p) /\ Len(p) = Len(w) - last
          /\ \A i \in 1..Len(p) : p[i] = w[last + i]
      BY ONLY <3>1, <3>3, <3>6, Suffix, ZenonT(30)
    <3>8. Program(a, p) /\ Opens(p)
      BY ONLY <1>3, <3>5, <3>6, <3>7, SuffixProgram
    <3>9. Of1(p, w)
      <4>1. \A i \in 1..Len(p) : last + i \in 1..Len(w)
        BY <3>4, <3>6, <3>7
      <4> QED
        BY <3>7, <4>1 DEF Of1
    <3>10. s.op # "candle"
      BY <1>4, <2>1 DEF StatementFits
    <3> QED
      BY <3>7, <3>8, <3>9, <3>10
  <2>2. CASE ~Tagged(s) /\ "beside" \in DOMAIN s
    <3>1. p = Rest(a)
      BY <1>1, <2>2 DEF Tagged
    <3>2. ~Loads(s)
      BY <1>3, <1>4, <2>2 DEF Program, Couples
    <3>3. s.op # "candle"
      BY <1>4, <2>2 DEF StatementFits
    <3> QED
      BY <1>4, <3>1, <3>2, <3>3
  <2>3. CASE ~Tagged(s) /\ "beside" \notin DOMAIN s
    <3>1. p = << >>
      BY <1>1, <2>3 DEF Tagged
    <3>2. Plain(a, << >>) /\ Len(<< >>) = 0
      BY EmptyPlain, EmptyIsSequence
    <3> QED
      BY <3>1, <3>2 DEF Plain, Program, Of1
  <2> QED
    BY <2>1, <2>2, <2>3
<1>6. todo'[a] = p /\ held'[a] = NoHold /\ DOMAIN held' = Actor /\ \A b \in Actor \ {a} : held'[b] = held[b]
  BY <1>2, <1>3
<1>7. Holding(a)' /\ OwnResult(a)' /\ ~Storing(a)'
  BY <1>5, <1>6, Released DEF Opens
<1>8. \A k : Row(k)' = Row(k)
  BY <1>2 DEF Row
<1>9. Remains /\ Rows'
  <2>1. \A k, x : Fits(k, x) => Fits(k, x)'
    BY <1>2, KeptFits
  <2> QED
    BY <1>2, <1>3, <1>8, <2>1 DEF Remains, Rows
<1>10. (\E i \in 1..Len(p) : Trade(p[i])) => todo[a] # << >> /\ S(a).op # "candle"
  <2>1. p = << >> => Len(p) = 0
    BY EmptyIsSequence
  <2> QED
    BY <1>1, <1>5, <2>1
<1> QED
  BY <1>1, <1>2, <1>5, <1>6, <1>7, <1>8, <1>9, <1>10, StatementStep

LEMMA RefusedStep ==
  ASSUME IInv, NEW a \in Actor, Refused(a) \/ Fail(a)
  PROVE  IInv'
<1>1. todo[a] # << >> /\ Abandon(a)
  BY DEF Refused, Fail, Is
<1> QED
  BY <1>1, AbandonStep
-----------------------------------------------------------------------------
(* A query: what it finds comes before what there was to run.              *)

LEMMA EmptyFirst == ASSUME NEW p, Sequence(p) PROVE << >> \o p = p
<1> DEFINE q == << >> \o p
<1>1. Sequence(q) /\ Len(q) = Len(p) /\ \A i \in 1..Len(p) : q[i] = p[i]
  <2>1. /\ Sequence(q) /\ Len(q) = Len(<< >>) + Len(p)
        /\ \A i \in 1..Len(p) : q[Len(<< >>) + i] = p[i]
    BY Joined, EmptyIsSequence
  <2>2. Len(<< >>) = 0 /\ Len(p) \in Nat
    BY EmptyIsSequence DEF Sequence
  <2> HIDE DEF q
  <2> QED
    BY <2>1, <2>2
<1> HIDE DEF q
<1>2. q = p
  BY <1>1 DEF Sequence
<1> QED
  BY <1>2 DEF q

LEMMA NoCopies ==
  ASSUME NEW p, Program("consumer", p)
  PROVE  \A i \in 1..Len(p) : ~Copies(p[i])
BY DEF Program, StatementFits, Copies, Cron

LEMMA MeasureCopies ==
  ASSUME NEW q, q.of = "measure", NEW i \in 1..Len(Answer(q)), Copies(Answer(q)[i])
  PROVE  /\ q.day \in DOMAIN candle
         /\ Answer(q)[i].edit.day = q.day /\ Answer(q)[i].edit.volume = candle[q.day]
<1> DEFINE A == Answer(q)
           n == candle[q.day]
           e == [of |-> "measure", day |-> q.day, volume |-> n]
           s == Save(SpotToken, e)
           f == [Find(SpotToken) EXCEPT !.skip = Len(<< s >>)]
<1>1. A = Measure(q.day)
  BY DEF Answer
<1>2. CASE InGraph /\ q.day \in DOMAIN candle
  <2>1. A = flushSpotTokenProfileMetricsChunk(q.day, n)
    BY <1>1, <1>2 DEF Measure
  <2>2. A = << f >> \o << s >>
    BY <2>1 DEF flushSpotTokenProfileMetricsChunk, Needing
  <2>3. f.op = "find" /\ e.day = q.day /\ e.volume = n /\ s.edit = e
    BY DEF Find, Save
  <2>4. A[i] = f \/ A[i] = s
    <3> HIDE DEF f, s
    <3>1. Sequence(<< f >>) /\ Sequence(<< s >>) /\ Len(<< f >>) = 1 /\ Len(<< s >>) = 1
          /\ << f >>[1] = f /\ << s >>[1] = s
      BY OneSequence
    <3>2. /\ Len(A) = Len(<< f >>) + Len(<< s >>)
          /\ \A j \in 1..Len(<< f >>) : A[j] = << f >>[j]
          /\ \A j \in 1..Len(<< s >>) : A[Len(<< f >>) + j] = << s >>[j]
      BY <2>2, <3>1, Joined
    <3> HIDE DEF A
    <3>3. Len(A) = 2 /\ A[1] = f /\ A[2] = s
      BY <3>1, <3>2
    <3>4. i = 1 \/ i = 2
      BY <3>3 DEF A
    <3> QED
      BY <3>3, <3>4
  <2> HIDE DEF f, s, e, n
  <2>5. A[i] = s
    BY <2>3, <2>4 DEF Copies
  <2> QED
    BY <1>2, <2>3, <2>5 DEF A, n
<1>3. CASE ~(InGraph /\ q.day \in DOMAIN candle)
  <2>1. A = << >>
    BY <1>1, <1>3 DEF Measure
  <2>2. Len(A) = 0
    BY <2>1, EmptyIsSequence
  <2> QED
    BY <2>2
<1> QED
  BY <1>2, <1>3

\* After the answer A to q comes r.
LEMMA AnswerFollowed ==
  ASSUME IInv, NEW a \in Actor, todo[a] # << >>, NEW q, q = S(a), q.op = "query",
         NEW A, A = Answer(q), NEW r, r = Rest(a), NEW p, p = A \o r
  PROVE  /\ Program(a, p) /\ (p = << >> \/ p[1].op \notin {"save", "set", "write"})
         /\ Sequence(A) /\ Sequence(r) /\ QueryFits(q)
         /\ p # << >> /\ p[1].op # "candle" => \A i \in 1..Len(A) : ~Trade(A[i])
         /\ q.of # "measure" => \A i \in 1..Len(A) : ~Copies(A[i])
<1>1. /\ Program(a, todo[a]) /\ scenario \in Scenarios /\ now \in 1..scenario.days
      /\ Rows /\ Candled
  BY DEF IInv, Actors
<1>2. /\ q = todo[a][1] /\ 1 \in 1..Len(todo[a]) /\ StatementFits(a, q)
      /\ Program(a, r) /\ Sequence(r) /\ Opens(r) /\ Len(r) = Len(todo[a]) - 1
      /\ \A i \in 1..Len(r) : r[i] = todo[a][1 + i] /\ 1 + i \in 1..Len(todo[a])
  <2>1. ~Loads(S(a))
    BY DEF Loads
  <2> QED
    BY <1>1, <2>1, RestStep
<1>3. QueryFits(q) /\ (q.of = "measure" => a \in Cron)
  BY <1>2 DEF StatementFits
<1>4. /\ q.of \notin {"trade", "candles"} => Plain(a, A)
      /\ q.of = "trade" => Program(a, A) /\ A # << >> /\ A[1].op = "candle"
      /\ q.of = "candles" => A = << >> \/ (A = << Candle(q.day, 0) >> /\ Program(a, A))
  BY <1>1, <1>3, AnswerProgram
<1>5. q.of # "measure" => \A i \in 1..Len(A) : ~Copies(A[i])
  <2> SUFFICES ASSUME q.of # "measure" PROVE \A i \in 1..Len(A) : ~Copies(A[i])
    OBVIOUS
  <2>1. /\ q.of \notin {"trade", "candles"} => Plain("consumer", A)
        /\ q.of = "trade" => Program("consumer", A)
        /\ q.of = "candles" => A = << >> \/ Program("consumer", A)
    BY <1>1, <1>3, AnswerProgram
  <2>2. A = << >> => Len(A) = 0
    BY EmptyIsSequence
  <2>3. Program("consumer", A) \/ A = << >>
    BY <2>1 DEF Plain
  <2> QED
    BY <2>2, <2>3, NoCopies
<1>6. OneTrade(todo[a])
  BY <1>1 DEF Program
<1>7. ASSUME NEW i \in 1..Len(r), Asks(q, "trade") PROVE ~Swaps(r[i]) /\ ~Asks(r[i], "candles")
  <2>1. PICK j : j = 1 + i
    OBVIOUS
  <2>2. j \in 1..Len(todo[a]) /\ r[i] = todo[a][j] /\ j # 1
    BY <1>2, <2>1
  <2>3. Swaps(todo[a][1])
    BY <1>2, <1>7 DEF Swaps
  <2> QED
    BY <1>2, <1>6, <2>2, <2>3 DEF OneTrade
<1>8. ASSUME NEW i \in 1..Len(r), Asks(q, "candles") PROVE ~Swaps(r[i])
  <2>1. PICK j : j = 1 + i
    OBVIOUS
  <2>2. j \in 1..Len(todo[a]) /\ r[i] = todo[a][j]
    BY <1>2, <2>1
  <2> QED
    BY <1>2, <1>6, <1>8, <2>2 DEF OneTrade
<1>9. CASE q.of \notin {"trade", "candles"}
  <2>1. Program(a, p) /\ Opens(p) /\ Program(a, A) /\ \A i \in 1..Len(A) : ~Trade(A[i])
    BY <1>2, <1>4, <1>9, PlainFirst DEF Plain, Quiet, Swaps
  <2> QED
    BY <1>2, <1>3, <1>5, <2>1 DEF Opens, Program
<1>10. CASE q.of = "trade"
  <2>1. Apart(A, r)
    BY <1>7, <1>10 DEF Apart, Asks, Swaps
  <2>2. Program(a, p) /\ Sequence(A)
    BY <1>2, <1>4, <1>10, <2>1, JoinedProgram DEF Program
  <2>3. 1 \in 1..Len(A)
    <3>1. Len(A) # 0 /\ Len(A) \in Nat
      BY <1>4, <1>10, <2>2, EmptyOnly DEF Sequence
    <3> QED
      BY <3>1
  <2>4. p[1] = A[1]
    BY <1>2, <2>2, <2>3, Joined
  <2> QED
    BY <1>2, <1>3, <1>4, <1>5, <1>10, <2>2, <2>4
<1>11. CASE q.of = "candles" /\ A = << >>
  <2>1. p = r
    BY <1>2, <1>11, EmptyFirst
  <2>2. Len(A) = 0 /\ Sequence(A)
    BY <1>11, EmptyIsSequence
  <2>3. \A i \in 1..Len(A) : FALSE
    BY <2>2
  <2>4. p = << >> \/ p[1].op \notin {"save", "set", "write"}
    BY <1>2, <2>1 DEF Opens
  <2> QED
    BY <1>2, <1>3, <2>1, <2>2, <2>3, <2>4
<1>12. CASE q.of = "candles" /\ A # << >>
  <2> DEFINE c == Candle(q.day, 0)
  <2>1. A = << c >> /\ Program(a, A) /\ c.op = "candle"
    BY <1>4, <1>12 DEF Candle
  <2> HIDE DEF c
  <2>2. Sequence(A) /\ Len(A) = 1 /\ A[1] = c
    BY <2>1, OneSequence
  <2>3. Apart(A, r)
    BY <1>8, <1>12, <2>1, <2>2 DEF Apart, Asks, Swaps, Trade
  <2>4. Program(a, p)
    BY <1>2, <2>1, <2>3, JoinedProgram
  <2>5. p[1] = A[1]
    BY <1>2, <2>2, Joined
  <2> QED
    BY <1>2, <1>3, <1>5, <2>1, <2>2, <2>4, <2>5
<1> QED
  BY <1>9, <1>10, <1>11, <1>12

LEMMA CountingOwes ==
  ASSUME NEW b, Couples(todo[b]), Sequence(todo[b]), NEW d, Owes(b, d)
  PROVE  Counting(b)
<1>1. PICK w : w = todo[b]
  OBVIOUS
<1>2. PICK i \in 1..Len(w) : Trade(w[i])
  BY <1>1 DEF Owes
<1>3. w # << >> /\ Sequence(w) /\ S(b) = w[1] /\ S(b).op # "candle" /\ Len(w) \in Nat
  BY <1>1, TailIsSuffix DEF Owes, S, Sequence
<1>4. \A j \in 1..i : w[j].op # "candle"
  <2> TAKE j \in 1..i
  <2>1. j \in 1..Len(w)
    BY <1>2, <1>3
  <2>2. j > 1 => w[j].op # "candle"
    BY <1>1, <2>1 DEF Couples
  <2> QED
    BY <1>3, <2>1, <2>2
<1>5. DOMAIN w = 1..Len(w)
  BY <1>3 DEF Sequence
<1> QED
  BY <1>1, <1>2, <1>4, <1>5 DEF Counting, Trade

LEMMA QueryStep ==
  ASSUME IInv, NEW a \in Actor, RunQuery(a)
  PROVE  IInv'
<1>1. PICK q, A, r, p : q = S(a) /\ A = Answer(q) /\ r = Rest(a) /\ p = A \o r
  OBVIOUS
<1>2. /\ todo[a] # << >> /\ q.op = "query" /\ todo' = [todo EXCEPT ![a] = p]
      /\ UNCHANGED <<scenario, log, now, next, at, selected, started, rows, candle, held, raced>>
  BY <1>1 DEF RunQuery, Is, Untouched, Become
<1>3. ahead' = (ahead \/ (q.of = "measure" /\ \E b \in Actor : Counting(b)))
  BY <1>1 DEF RunQuery
<1>4. /\ Program(a, todo[a]) /\ Holding(a) /\ Actors /\ Candled /\ Rows /\ Covered
      /\ DOMAIN todo = Actor /\ DOMAIN held = Actor
  BY DEF IInv, Actors
<1>5. /\ Program(a, p) /\ (p = << >> \/ p[1].op \notin {"save", "set", "write"})
      /\ Sequence(A) /\ Sequence(r)
      /\ p # << >> /\ p[1].op # "candle" => \A i \in 1..Len(A) : ~Trade(A[i])
      /\ q.of # "measure" => \A i \in 1..Len(A) : ~Copies(A[i])
  BY <1>1, <1>2, AnswerFollowed
<1>6. Of1(r, todo[a]) /\ Sequence(p)
  BY <1>1, <1>2, <1>4, <1>5, RestStep DEF Program
<1>7. \A k : Row(k)' = Row(k)
  BY <1>2 DEF Row
<1>8. Remains /\ Rows'
  <2>1. \A k, x : Fits(k, x) => Fits(k, x)'
    BY <1>2, KeptFits
  <2> QED
    BY <1>2, <1>4, <1>7, <2>1 DEF Remains, Rows
<1>9. /\ todo'[a] = p /\ DOMAIN todo' = Actor
      /\ \A b \in Actor \ {a} : todo'[b] = todo[b] /\ Holding(b)' /\ OwnResult(b)'
      /\ \A b \in Actor : Program(b, todo[b])'
  BY <1>2, <1>5, <1>7, <1>8, Stepped
<1>10. held'[a] = NoHold
  BY <1>1, <1>2, <1>4 DEF Holding, At
<1>11. Holding(a)' /\ OwnResult(a)' /\ ~Storing(a)'
  BY <1>5, <1>6, <1>9, <1>10, Released
<1>12. Actors'
  BY <1>2, <1>4, <1>9, SameActors
<1>13. \A i \in 1..Len(p) :
         \/ \E j \in 1..Len(A) : p[i] = A[j]
         \/ \E j \in 1..Len(r) : p[i] = r[j]
  <2>1. /\ Len(p) = Len(A) + Len(r) /\ Len(A) \in Nat /\ Len(r) \in Nat
        /\ \A j \in 1..Len(A) : p[j] = A[j]
        /\ \A j \in 1..Len(r) : p[Len(A) + j] = r[j]
    BY <1>1, <1>5, Joined DEF Sequence
  <2> TAKE i \in 1..Len(p)
  <2>2. CASE i <= Len(A)
    BY <2>1, <2>2
  <2>3. CASE i > Len(A)
    <3>1. PICK j : j = i - Len(A)
      OBVIOUS
    <3>2. j \in 1..Len(r) /\ Len(A) + j = i
      BY <2>1, <2>3, <3>1
    <3> QED
      BY <2>1, <3>2
  <2> QED
    BY <2>1, <2>2, <2>3
<1>14. \A d : Owes(a, d)' => Owes(a, d)
  <2> SUFFICES ASSUME NEW d, Owes(a, d)' PROVE Owes(a, d)
    OBVIOUS
  <2>1. /\ p # << >> /\ Head(p).op # "candle"
        /\ \E i \in 1..Len(p) : Trade(p[i]) /\ p[i].edit.day = d
    BY <1>9 DEF Owes, S
  <2>2. p[1].op # "candle"
    BY <1>6, <2>1, TailIsSuffix
  <2>3. \E j \in 1..Len(r) : Trade(r[j]) /\ r[j].edit.day = d
    BY <1>5, <1>13, <2>1, <2>2
  <2>4. \E j \in 1..Len(todo[a]) : Trade(todo[a][j]) /\ todo[a][j].edit.day = d
    BY <1>6, <2>3 DEF Of1
  <2> QED
    BY <1>1, <1>2, <2>4 DEF Owes
<1>15. \A b \in Actor : \A d : Owes(b, d)' => Owes(b, d)
  BY <1>9, <1>14, SameOwed
<1>16. \A d \in Days : /\ Late(d)' <=> Late(d)
                       /\ Free(d) \in Int /\ Free(d)' \in Int /\ Free(d) <= Free(d)'
  BY <1>2, <1>4, <1>15, FreeKept
<1>17. ASSUME NEW d \in Days, ~ahead', ~Late(d)' PROVE CopiesFit(p, d, Free(d)')
  <2>1. CopiesFit(todo[a], d, Free(d)) /\ ~ahead
    BY <1>3, <1>4, <1>16, <1>17 DEF Covered
  <2>2. CopiesFit(todo[a], d, Free(d)')
    BY <1>16, <2>1, Within
  <2>3. CopiesFit(r, d, Free(d)')
    BY <1>6, <2>2 DEF CopiesFit, Of1
  <2>4. CopiesFit(A, d, Free(d)')
    <3>1. CASE q.of # "measure"
      BY <1>5, <3>1 DEF CopiesFit
    <3>2. CASE q.of = "measure"
      <4>1. \A b \in Actor : ~Counting(b)
        BY <1>3, <1>17, <3>2
      <4>2. \A b \in Actor : ~Owes(b, d)
        BY <4>1, CountingOwes DEF IInv, Program
      <4>3. \A b \in Actor : ~Owes(b, d)'
        BY <1>15, <4>2
      <4>4. Owing(d)' = 0
        BY <4>3, Owing1
      <4>5. Room(d) \in Nat /\ Free(d)' = Room(d)
        BY <1>2, <1>4, <4>4 DEF Free, Room, Candled
      <4>6. \A i \in 1..Len(A) : Copies(A[i]) =>
              /\ q.day \in DOMAIN candle
              /\ A[i].edit.day = q.day /\ A[i].edit.volume = candle[q.day]
        BY <1>1, <3>2, MeasureCopies
      <4>7. d \in DOMAIN candle => Room(d) = candle[d]
        BY DEF Room
      <4> QED
        BY <4>5, <4>6, <4>7 DEF CopiesFit
    <3> QED
      BY <3>1, <3>2
  <2> QED
    BY <1>13, <2>3, <2>4 DEF CopiesFit
<1>18. \A b \in Actor, d \in Days :
         ~ahead' /\ ~Late(d)' =>
           \/ CopiesFit(todo'[b], d, Free(d)')
           \/ \A n : CopiesFit(todo[b], d, n) => CopiesFit(todo'[b], d, n)
  BY <1>9, <1>17
<1>19. \A b \in Actor : Storing(b)' => Storing(b) /\ Result(b)' = Result(b)
  <2> SUFFICES ASSUME NEW b \in Actor \ {a}, Storing(b)' PROVE Storing(b) /\ Result(b)' = Result(b)
    BY <1>11
  <2>1. todo'[b] = todo[b]
    BY <1>9
  <2> QED
    BY <1>7, <2>1, SameOwed
<1>20. Covered'
  BY <1>2, <1>3, <1>4, <1>7, <1>16, <1>18, <1>19, CoveredStep
<1>21. Candled'
  BY <1>2, <1>4 DEF Candled
<1> QED
  BY <1>8, <1>9, <1>11, <1>12, <1>20, <1>21 DEF IInv
-----------------------------------------------------------------------------
(* A save: the columns to write.                                           *)

LEMMA DifferenceColumns ==
  ASSUME NEW E, NEW row, NEW f, f = Difference(E, row)
  PROVE  /\ DOMAIN f \subseteq DOMAIN E
         /\ \A c \in DOMAIN f : f[c] = E[c]
<1>1. CASE row = NoRow
  BY <1>1 DEF Difference
<1>2. CASE row # NoRow
  <2>1. f = [c \in Changed(E, row) |-> E[c]]
    BY <1>2 DEF Difference
  <2>2. Changed(E, row) \subseteq DOMAIN E
    BY DEF Changed
  <2> QED
    BY <2>1, <2>2
<1> QED
  BY <1>1, <1>2

LEMMA DifferencePatched ==
  ASSUME NEW C, NEW E, E = [c \in C |-> E[c]],
         NEW row, row = NoRow \/ row = [c \in C |-> row[c]]
  PROVE  Patched(Difference(E, row), row) = E
<1>1. CASE row = NoRow
  BY <1>1 DEF Patched, Difference
<1>2. CASE row # NoRow
  <2> DEFINE D == Changed(E, row)
             f == [c \in D |-> E[c]]
             u == Over(f, row)
  <2>1. Patched(Difference(E, row), row) = u
    BY <1>2 DEF Patched, Difference
  <2>2. DOMAIN E = C /\ DOMAIN row = C
    <3>1. \A g : g = [c \in C |-> g[c]] => DOMAIN g = C
      OBVIOUS
    <3> QED
      BY <1>2, <3>1
  <2>3. D \subseteq C /\ \A c \in C : c \notin D => row[c] = E[c]
    BY <2>2 DEF Changed
  <2>4. u = [c \in D \cup C |-> IF c \in D THEN f[c] ELSE row[c]]
    BY <2>2 DEF Over
  <2> HIDE DEF D
  <2>5. u = [c \in C |-> u[c]] /\ \A c \in C : u[c] = E[c]
    <3>1. D \cup C = C
      BY <2>3
    <3>2. u = [c \in C |-> IF c \in D THEN f[c] ELSE row[c]]
      BY <2>4, <3>1
    <3> HIDE DEF u
    <3>3. \A c \in C : u[c] = IF c \in D THEN f[c] ELSE row[c]
      BY <3>2
    <3>4. \A c \in D : f[c] = E[c]
      OBVIOUS
    <3> HIDE DEF f
    <3> QED
      BY <2>3, <3>2, <3>3, <3>4
  <2> HIDE DEF u
  <2>6. u = E
    BY <2>5
  <2> QED
    BY <2>1, <2>6
<1> QED
  BY <1>1, <1>2

LEMMA MixedPair ==
  ASSUME NEW n, NEW E \in PairRow(n), NEW r \in PairRow(n), NEW f, DOMAIN f \subseteq DOMAIN E,
         \A c \in DOMAIN f : f[c] = E[c]
  PROVE  Over(f, r) \in PairRow(n)
<1>1. /\ E = [c \in PairColumns |-> E[c]]
      /\ E.dyn \in BOOLEAN /\ E.bps \in FeeBps \cup {Unset} /\ E.src \in AnySource
      /\ E.cl \in BOOLEAN /\ E.flip \in BOOLEAN /\ E.listed \in BOOLEAN /\ E.gauge \in BOOLEAN
      /\ E.price \in {"none", "token1/token0", "token0/token1"} /\ E.day \in 0..n
      /\ E.dayTvl \in Nat /\ E.dayUsd \in Nat /\ E.liquidity \in Nat /\ E.fees \in Nat
  BY PairRowColumns
<1>2. DOMAIN f \subseteq PairColumns
  BY <1>1
<1> QED
  BY <1>1, <1>2, PairPatch

LEMMA MixedToken ==
  ASSUME NEW n, NEW E \in TokenRow(n), NEW r \in TokenRow(n), NEW f, DOMAIN f \subseteq DOMAIN E,
         \A c \in DOMAIN f : f[c] = E[c]
  PROVE  Over(f, r) \in TokenRow(n)
<1> DEFINE C == {"listed", "day", "dayVol", "dayTvl", "trades"}
           u == Over(f, r)
<1>1. /\ E = [c \in C |-> E[c]] /\ r = [c \in C |-> r[c]]
  BY TokenRowColumns
<1>2. DOMAIN E = C /\ DOMAIN r = C
  BY <1>1
<1>3. u = [c \in DOMAIN f \cup DOMAIN r |-> IF c \in DOMAIN f THEN f[c] ELSE r[c]]
  BY DEF Over
<1>4. DOMAIN f \cup DOMAIN r = C
  BY <1>2
<1>5. u = [c \in C |-> IF c \in DOMAIN f THEN f[c] ELSE r[c]]
  BY <1>3, <1>4
<1>6. {"listed", "day", "dayVol", "dayTvl", "trades"} \subseteq C
  OBVIOUS
<1> HIDE DEF C, u
<1>7. u = [c \in C |-> u[c]] /\ \A c \in C : u[c] = E[c] \/ u[c] = r[c]
  BY <1>5
<1>8. u \in TokenRow(n)
  BY <1>6, <1>7, TokenRowColumns DEF C
<1> QED
  BY <1>8 DEF u

LEMMA MixedBucket ==
  ASSUME NEW E \in BucketRow, NEW r \in BucketRow, NEW f, DOMAIN f \subseteq DOMAIN E,
         \A c \in DOMAIN f : f[c] = E[c]
  PROVE  Over(f, r) \in BucketRow
<1> DEFINE C == {"volume", "tvl", "trades", "pairs"}
           u == Over(f, r)
<1>1. /\ E = [c \in C |-> E[c]] /\ r = [c \in C |-> r[c]]
  BY BucketRowColumns
<1>2. DOMAIN E = C /\ DOMAIN r = C
  BY <1>1
<1>3. u = [c \in DOMAIN f \cup DOMAIN r |-> IF c \in DOMAIN f THEN f[c] ELSE r[c]]
  BY DEF Over
<1>4. DOMAIN f \cup DOMAIN r = C
  BY <1>2
<1>5. u = [c \in C |-> IF c \in DOMAIN f THEN f[c] ELSE r[c]]
  BY <1>3, <1>4
<1>6. {"volume", "tvl", "trades", "pairs"} \subseteq C
  OBVIOUS
<1> HIDE DEF C, u
<1>7. u = [c \in C |-> u[c]] /\ \A c \in C : u[c] = E[c] \/ u[c] = r[c]
  BY <1>5
<1>8. u \in BucketRow
  BY <1>6, <1>7, BucketRowColumns DEF C
<1> QED
  BY <1>8 DEF u

LEMMA DifferenceAmends ==
  ASSUME NEW k, k # Tiers, NEW E, Fits(k, E), NEW row
  PROVE  Amends(k, Difference(E, row))
<1> DEFINE f == Difference(E, row)
<1>1. DOMAIN f \subseteq DOMAIN E /\ \A c \in DOMAIN f : f[c] = E[c]
  BY DifferenceColumns
<1> HIDE DEF f
<1> SUFFICES ASSUME NEW r, Fits(k, r) PROVE Fits(k, Over(f, r))
  BY DEF Amends, f
<1>2. k[1] = "pair" => Over(f, r) \in PairRow(scenario.days)
  BY <1>1, MixedPair DEF Fits
<1>3. k = SpotToken => Over(f, r) \in TokenRow(scenario.days)
  BY <1>1, MixedToken DEF Fits
<1>4. IsBucket(k) => Over(f, r) \in BucketRow
  BY <1>1, MixedBucket DEF Fits
<1> QED
  BY <1>2, <1>3, <1>4 DEF Fits
-----------------------------------------------------------------------------
(* What a save is replaced by.                                             *)

LEMMA FollowingColumns ==
  ASSUME NEW s, NEW p, Sequence(p), NEW q, q = Following(s, p)
  PROVE  /\ Sequence(q) /\ Len(q) = Len(p)
         /\ \A i \in 1..Len(p) : q[i] = IF Tagged(s) THEN InRollup(p[i]) ELSE p[i]
<1>1. DOMAIN p = 1..Len(p) /\ Len(p) \in Nat
  <2>1. p = [i \in 1..Len(p) |-> p[i]] /\ Len(p) \in Nat
    BY DEF Sequence
  <2>2. \A g, D : g = [i \in D |-> g[i]] => DOMAIN g = D
    OBVIOUS
  <2> QED
    BY <2>1, <2>2
<1>2. CASE Tagged(s)
  <2>1. q = [i \in 1..Len(p) |-> InRollup(p[i])]
    BY <1>1, <1>2 DEF Following, Tagged
  <2>2. q = [i \in 1..Len(p) |-> q[i]] /\ \A i \in 1..Len(p) : q[i] = InRollup(p[i])
    BY <2>1
  <2>3. Sequence(q) /\ Len(q) = Len(p)
    BY <1>1, <2>2, MadeSequence
  <2> QED
    BY <1>2, <2>2, <2>3
<1>3. CASE ~Tagged(s)
  <2>1. q = p
    BY <1>3 DEF Following, Tagged
  <2> QED
    BY <1>3, <2>1
<1> QED
  BY <1>2, <1>3

LEMMA FollowingJoin ==
  ASSUME NEW s, NEW p, NEW r, Sequence(p), Sequence(r)
  PROVE  Following(s, p \o r) = Following(s, p) \o Following(s, r)
<1>1. PICK u : u = p \o r
  OBVIOUS
<1>9. PICK fp : fp = Following(s, p)
  OBVIOUS
<1>10. PICK fr : fr = Following(s, r)
  OBVIOUS
<1>11. PICK fu : fu = Following(s, u)
  OBVIOUS
<1>12. PICK v : v = fp \o fr
  OBVIOUS
<1>13. Len(p) \in Nat /\ Len(r) \in Nat
  BY DEF Sequence
<1>2. /\ Sequence(u) /\ Len(u) = Len(p) + Len(r)
      /\ \A i \in 1..Len(p) : u[i] = p[i]
      /\ \A i \in 1..Len(r) : u[Len(p) + i] = r[i]
  BY <1>1, Joined
<1>3. /\ Sequence(fp) /\ Len(fp) = Len(p)
      /\ \A i \in 1..Len(p) : fp[i] = IF Tagged(s) THEN InRollup(p[i]) ELSE p[i]
  BY <1>9, FollowingColumns
<1>4. /\ Sequence(fr) /\ Len(fr) = Len(r)
      /\ \A i \in 1..Len(r) : fr[i] = IF Tagged(s) THEN InRollup(r[i]) ELSE r[i]
  BY <1>10, FollowingColumns
<1>5. /\ Sequence(fu) /\ Len(fu) = Len(u)
      /\ \A i \in 1..Len(u) : fu[i] = IF Tagged(s) THEN InRollup(u[i]) ELSE u[i]
  BY <1>2, <1>11, FollowingColumns
<1>6. /\ Sequence(v) /\ Len(v) = Len(p) + Len(r)
      /\ \A i \in 1..Len(p) : v[i] = fp[i]
      /\ \A i \in 1..Len(r) : v[Len(p) + i] = fr[i]
  <2>1. /\ Sequence(v) /\ Len(v) = Len(fp) + Len(fr)
        /\ \A i \in 1..Len(fp) : v[i] = fp[i]
        /\ \A i \in 1..Len(fr) : v[Len(fp) + i] = fr[i]
    <3>1. Sequence(fp) /\ Sequence(fr)
      BY <1>3, <1>4
    <3> QED
      BY <1>12, <3>1, Joined
  <2> QED
    BY <1>3, <1>4, <2>1
<1>7. ASSUME NEW i \in 1..Len(u) PROVE fu[i] = v[i]
  <2>1. CASE i <= Len(p)
    BY <1>2, <1>3, <1>5, <1>6, <1>13, <2>1
  <2>2. CASE i > Len(p)
    <3>1. PICK j : j = i - Len(p)
      OBVIOUS
    <3>2. j \in 1..Len(r) /\ Len(p) + j = i
      BY <1>2, <1>13, <2>2, <3>1
    <3> QED
      BY <1>2, <1>4, <1>5, <1>6, <3>2
  <2> QED
    BY <1>2, <1>13, <2>1, <2>2
<1>8. fu = v
  BY <1>2, <1>5, <1>6, <1>7 DEF Sequence
<1> QED
  BY <1>1, <1>8, <1>9, <1>10, <1>11, <1>12

LEMMA CountPlain ==
  ASSUME NEW a, NEW s, NEW res, NEW q, q = Following(s, CountBucket(res))
  PROVE  Plain(a, q) /\ Sequence(CountBucket(res))
<1>1. PICK e, x, c, f, t :
        /\ e = [of |-> "count", res |-> res] /\ x = EnsureTotals /\ c = Save(Totals, e)
        /\ f = [Find(Totals) EXCEPT !.skip = Len(<< c >>)]
        /\ t = << x >> \o (<< f >> \o << c >>)
  OBVIOUS
<1>2. t = CountBucket(res)
  BY <1>1 DEF CountBucket, Needing
<1>3. /\ e.of = "count"
      /\ x.op = "upsert" /\ x.key = Totals /\ DOMAIN x = {"op", "key", "patch", "new"}
      /\ c.op = "save" /\ c.key = Totals /\ c.edit = e /\ DOMAIN c = {"op", "key", "edit"}
      /\ f.op = "find" /\ f.key = Totals /\ DOMAIN f = {"op", "key", "skip"}
  BY <1>1 DEF EnsureTotals, Upsert, Save, Find
<1>4. f.skip = 1
  BY <1>1, OneSequence DEF Find
<1>5. Sequence(t) /\ Len(t) = 3 /\ t[1] = x /\ t[2] = f /\ t[3] = c
  <2>1. PICK g, h : g = << f >> /\ h = << c >>
    OBVIOUS
  <2>9. PICK u : u = g \o h
    OBVIOUS
  <2>2. /\ Sequence(g) /\ Len(g) = 1 /\ g[1] = f /\ Sequence(h) /\ Len(h) = 1 /\ h[1] = c
    BY <2>1, OneSequence
  <2>3. /\ Sequence(u) /\ Len(u) = Len(g) + Len(h)
        /\ \A i \in 1..Len(g) : u[i] = g[i]
        /\ \A i \in 1..Len(h) : u[Len(g) + i] = h[i]
    <3>1. Sequence(g) /\ Sequence(h)
      BY <2>2
    <3> QED
      BY <2>9, <3>1, Joined
  <2>4. Sequence(u) /\ Len(u) = 2 /\ u[1] = f /\ u[2] = c
    BY <2>2, <2>3
  <2>5. PICK y : y = << x >>
    OBVIOUS
  <2>6. Sequence(y) /\ Len(y) = 1 /\ y[1] = x
    BY <2>5, OneSequence
  <2>7. t = y \o u
    BY <1>1, <2>1, <2>5, <2>9
  <2>8. /\ Sequence(t) /\ Len(t) = Len(y) + Len(u)
        /\ \A i \in 1..Len(y) : t[i] = y[i]
        /\ \A i \in 1..Len(u) : t[Len(y) + i] = u[i]
    <3>1. Sequence(y) /\ Sequence(u)
      BY <2>4, <2>6
    <3> QED
      BY <2>7, <3>1, Joined
  <2> QED
    BY <2>4, <2>6, <2>8
<1>6. /\ Sequence(q) /\ Len(q) = 3
      /\ \A i \in 1..3 : q[i] = IF Tagged(s) THEN InRollup(t[i]) ELSE t[i]
  BY <1>2, <1>5, FollowingColumns
<1>7. PICK X, F, C : X = q[1] /\ F = q[2] /\ C = q[3]
  OBVIOUS
<1>8. \A y \in {x, c, f} : /\ \A z \in DOMAIN y : z # "rollup" => InRollup(y)[z] = y[z]
                          /\ DOMAIN InRollup(y) = {"rollup"} \cup DOMAIN y
  BY OverColumn DEF InRollup, Over
<1>9. /\ X.op = "upsert" /\ X.key = Totals
      /\ C.op = "save" /\ C.key = Totals /\ C.edit = e /\ "beside" \notin DOMAIN C
      /\ F.op = "find" /\ F.key = Totals /\ F.skip = 1 /\ "beside" \notin DOMAIN F
      /\ Tagged(F) <=> Tagged(C)
  <2>1. CASE Tagged(s)
    <3>1. X = InRollup(x) /\ F = InRollup(f) /\ C = InRollup(c)
      BY <1>5, <1>6, <1>7, <2>1
    <3> QED
      BY <1>3, <1>4, <1>8, <3>1 DEF Tagged
  <2>2. CASE ~Tagged(s)
    <3>1. X = x /\ F = f /\ C = c
      BY <1>5, <1>6, <1>7, <2>2
    <3> QED
      BY <1>3, <1>4, <3>1 DEF Tagged
  <2> QED
    BY <2>1, <2>2
<1>10. Totals[1] = "totals" /\ Totals # Discount /\ Totals # SpotToken /\ ~IsBucket(Totals)
       /\ Totals # Tiers /\ Totals[1] # "pair"
  BY Keys
<1>11. StatementFits(a, X) /\ StatementFits(a, F) /\ StatementFits(a, C)
  <2>1. StatementFits(a, X)
    BY <1>9, <1>10, UpsertFits
  <2>2. StatementFits(a, F)
    BY <1>9, <1>10, FindFits
  <2>3. StatementFits(a, C)
    BY <1>3, <1>9, <1>10 DEF StatementFits, EditFits
  <2> QED
    BY <2>1, <2>2, <2>3
<1>12. \A i \in 1..Len(q) : (i = 1 /\ q[i] = X) \/ (i = 2 /\ q[i] = F) \/ (i = 3 /\ q[i] = C)
  BY <1>6, <1>7
<1>13. Couples(q)
  BY <1>6, <1>7, <1>9, <1>12 DEF Couples, Loads, Stores
<1>14. \A i \in 1..Len(q) : ~Swaps(q[i]) /\ ~Asks(q[i], "candles") /\ q[i].op # "candle"
  BY <1>3, <1>9, <1>12 DEF Swaps, Trade, Asks
<1>15. Program(a, q)
  BY <1>6, <1>11, <1>12, <1>13, <1>14 DEF Program, OneTrade, Swaps
<1>16. Opens(q)
  BY <1>7, <1>9 DEF Opens
<1> QED
  BY <1>2, <1>5, <1>14, <1>15, <1>16 DEF Plain, Quiet

\* The statement that writes, before what there is to run.
LEMMA WriteFirst ==
  ASSUME NEW a, NEW t, t.op = "write", StatementFits(a, t), NEW q, Program(a, q), Opens(q)
  PROVE  Program(a, << t >> \o q)
<1>1. PICK p : p = << t >>
  OBVIOUS
<1>2. Sequence(p) /\ Len(p) = 1 /\ p[1] = t
  BY <1>1, OneSequence
<1>3. \A i \in 1..Len(p) : i = 1 /\ p[i] = t
  BY <1>2
<1>4. Program(a, p)
  BY <1>2, <1>3 DEF Program, Couples, OneTrade, Loads, Stores, Swaps, Trade, Asks
<1>5. Apart(p, q)
  BY <1>3 DEF Apart, Swaps, Trade, Asks
<1> QED
  BY <1>1, <1>4, <1>5, JoinedProgram

LEMMA Of1Joined ==
  ASSUME NEW p, NEW r, NEW w, Sequence(p), Sequence(r), Of1(r, w), NEW u, u = p \o r,
         \A i \in 1..Len(p) : ~Trade(p[i]) /\ ~Copies(p[i])
  PROVE  Of1(u, w)
<1>1. Len(p) \in Nat /\ Len(r) \in Nat
  BY DEF Sequence
<1>2. /\ Sequence(u) /\ Len(u) = Len(p) + Len(r)
      /\ \A i \in 1..Len(p) : u[i] = p[i]
      /\ \A i \in 1..Len(r) : u[Len(p) + i] = r[i]
  BY Joined
<1>3. ASSUME NEW i \in 1..Len(u), Trade(u[i]) \/ Copies(u[i]) PROVE \E j \in 1..Len(w) : u[i] = w[j]
  <2>1. ~(i <= Len(p))
    BY <1>1, <1>2, <1>3
  <2>2. PICK j : j = i - Len(p)
    OBVIOUS
  <2>3. j \in 1..Len(r) /\ Len(p) + j = i
    BY <1>1, <1>2, <2>1, <2>2
  <2>4. u[i] = r[j]
    BY <1>2, <2>3
  <2> QED
    BY <1>3, <2>3, <2>4 DEF Of1
<1> QED
  BY <1>3 DEF Of1

\* The row in hand, edited.
LEMMA EditedRow ==
  ASSUME IInv, NEW a \in Actor, todo[a] # << >>, NEW s, s = S(a), s.op = "save",
         NEW h, h = held[a].row, NEW k, k = s.key, NEW e, e = s.edit, NEW E, E = Edited(e, h)
  PROVE  /\ held[a].key = k /\ (h = NoRow \/ Fits(k, h)) /\ (k \notin raced => h = Row(k))
         /\ h # NoRow /\ Profile(k) => Row(k) # NoRow
         /\ StatementFits(a, s) /\ EditFits(k, e) /\ Fits(k, E) /\ k # Discount
         /\ e.of = "list" => a = "admin"
         /\ k[1] = "pair" => E \in PairRow(scenario.days) /\ (h # NoRow => OwnEdit(e, E, h))
         /\ k = SpotToken =>
              /\ E \in TokenRow(scenario.days) /\ (h # NoRow => OwnEdit(e, E, h))
              /\ \A d \in Days : CountsAs(e, E, h, d)
<1>1. /\ Program(a, todo[a]) /\ Holding(a) /\ scenario \in Scenarios /\ now \in 1..scenario.days
  BY DEF IInv, Actors
<1>2. StatementFits(a, s)
  BY <1>1, RestStep
<1>3. EditFits(k, e) /\ k # Discount /\ (e.of = "list" => a = "admin")
  BY <1>2 DEF StatementFits
<1>4. At(a, {"save", "set", "write"}) /\ ~At(a, {"write"})
  BY DEF At
<1>5. /\ held[a].key = k /\ (h = NoRow \/ Fits(k, h)) /\ (k \notin raced => h = Row(k))
      /\ h # NoRow /\ Profile(k) => Row(k) # NoRow
      /\ Needy(s) => h # NoRow
  BY <1>1, <1>4 DEF Holding
<1>6. e.of \in {"mintPair", "mintUsd", "backfill", "measure", "list", "count"} => h # NoRow
  BY <1>5 DEF Needy
<1>7. k[1] = "pair" => E \in PairRow(scenario.days) /\ (h # NoRow => OwnEdit(e, E, h))
  <2> SUFFICES ASSUME k[1] = "pair"
               PROVE  E \in PairRow(scenario.days) /\ (h # NoRow => OwnEdit(e, E, h))
    OBVIOUS
  <2>1. h \in PairRow(scenario.days) \/ (h = NoRow /\ e.of \in {"minimal", "tradePair"})
    BY <1>3, <1>5, <1>6 DEF Fits, EditFits
  <2> QED
    BY <1>1, <1>3, <2>1, PairEdits
<1>8. k = SpotToken =>
        /\ E \in TokenRow(scenario.days) /\ (h # NoRow => OwnEdit(e, E, h))
        /\ \A d \in Days : CountsAs(e, E, h, d)
  <2> SUFFICES ASSUME k = SpotToken
               PROVE  /\ E \in TokenRow(scenario.days) /\ (h # NoRow => OwnEdit(e, E, h))
                      /\ \A d \in Days : CountsAs(e, E, h, d)
    OBVIOUS
  <2>1. h \in TokenRow(scenario.days)
        \/ (h = NoRow /\ e.of \in {"tokenInfo", "mintToken", "tradeToken"})
    BY <1>3, <1>5, <1>6 DEF Fits, EditFits
  <2> QED
    BY <1>1, <1>3, <2>1, TokenEdits
<1>9. IsBucket(k) => E \in BucketRow
  <2> SUFFICES ASSUME IsBucket(k) PROVE E \in BucketRow
    OBVIOUS
  <2>1. e.of = "bump" /\ e.delta \in BucketRow
    BY <1>3 DEF EditFits
  <2>2. h = NoRow \/ h \in BucketRow
    BY <1>5 DEF Fits
  <2> QED
    BY <2>1, <2>2, BucketEdits
<1>10. Fits(k, E)
  BY <1>3, <1>7, <1>8, <1>9 DEF Fits, EditFits
<1> QED
  BY <1>2, <1>3, <1>5, <1>7, <1>8, <1>10

\* What a save is replaced by: t, or nothing; the count of a new bucket; the rest.
Writes(t) == t.op = "write" /\ t.insert \in BOOLEAN /\ DOMAIN t = {"op", "key", "patch", "insert"}
WriteOrNone(t, x) == x = << >> \/ x = << t >>
CountOrNone(c) == c = << >> \/ \E res : c = CountBucket(res)
Replaced(s, x, c, r, p) == p = Following(s, x \o c) \o r

LEMMA SameWrite ==
  ASSUME NEW a, NEW t, NEW T, StatementFits(a, t), t.op = "write", t.insert \in BOOLEAN,
         T.op = "write", T.key = t.key, T.patch = t.patch, T.insert = t.insert
  PROVE  StatementFits(a, T)
<1>1. /\ t.key # Discount /\ t.key # Tiers
      /\ t.insert => Fits(t.key, t.patch)
      /\ ~t.insert => Amends(t.key, t.patch) /\ (Profile(t.key) => Row(t.key) # NoRow)
  BY DEF StatementFits
<1>2. /\ T.key # Discount /\ T.key # Tiers /\ T.insert \in BOOLEAN
      /\ T.insert => Fits(T.key, T.patch)
      /\ ~T.insert => Amends(T.key, T.patch) /\ (Profile(T.key) => Row(T.key) # NoRow)
  BY <1>1
<1> QED
  BY <1>2 DEF StatementFits

LEMMA SavedProgram ==
  ASSUME NEW a, NEW s, NEW t, Writes(t), StatementFits(a, t),
         NEW c, CountOrNone(c), NEW x, WriteOrNone(t, x),
         NEW r, Program(a, r), Opens(r), NEW p, Replaced(s, x, c, r, p)
  PROVE  /\ Program(a, p) /\ Of1(p, r) /\ Sequence(p)
         /\ x = << >> => Opens(p)
         /\ x = << t >> =>
              p # << >> /\ p[1].op = "write" /\ p[1].key = t.key /\ p[1].patch = t.patch
<1> DEFINE w == r
<1>0. Of1(r, w)
  BY DEF Of1
<1> HIDE DEF w
<1>10. t.op = "write" /\ DOMAIN t = {"op", "key", "patch", "insert"}
  BY DEF Writes
<1>1. PICK C : C = Following(s, c)
  OBVIOUS
<1>2. Plain(a, C) /\ Plain("consumer", C) /\ Sequence(c)
  <2>1. CASE c = << >>
    <3>1. Sequence(c) /\ Len(c) = 0
      BY <2>1, EmptyIsSequence
    <3>2. Sequence(C) /\ Len(C) = 0
      BY <1>1, <3>1, FollowingColumns
    <3>3. C = << >>
      BY <3>2, EmptyOnly
    <3> QED
      BY <3>1, <3>3, EmptyPlain
  <2>2. CASE \E res : c = CountBucket(res)
    BY <1>1, <2>2, CountPlain
  <2> QED
    BY <2>1, <2>2 DEF CountOrNone
<1>3. Sequence(C) /\ Sequence(r)
  BY <1>2 DEF Plain, Program
<1>4. \A i \in 1..Len(C) : ~Trade(C[i]) /\ ~Copies(C[i])
  BY <1>2, NoCopies DEF Plain, Quiet, Swaps
<1>5. PICK q : q = C \o r
  OBVIOUS
<1>6. Program(a, q) /\ Opens(q) /\ Of1(q, w)
  BY <1>0, <1>2, <1>3, <1>4, <1>5, PlainFirst, Of1Joined
<1>7. Sequence(q)
  BY <1>6 DEF Program
<1>8. CASE x = << >>
  <2>1. x \o c = c
    BY <1>2, <1>8, EmptyFirst
  <2>2. p = q
    BY <1>1, <1>5, <2>1 DEF Replaced
  <2>3. x # << t >>
    <3>1. Len(<< t >>) = 1 /\ Len(<< >>) = 0
      BY OneSequence, EmptyIsSequence
    <3> QED
      BY <1>8, <3>1
  <2> QED
    BY <1>6, <1>7, <2>2, <2>3 DEF w
<1>9. CASE x = << t >>
  <2>1. Sequence(x) /\ Len(x) = 1 /\ x[1] = t
    BY <1>9, OneSequence
  <2>2. PICK T : T = IF Tagged(s) THEN InRollup(t) ELSE t
    OBVIOUS
  <2>3. T.op = "write" /\ T.key = t.key /\ T.patch = t.patch /\ T.insert = t.insert
    <3>1. \A z \in DOMAIN t : z # "rollup" => InRollup(t)[z] = t[z]
      BY OverColumn DEF InRollup, Over
    <3>2. /\ InRollup(t).op = "write" /\ InRollup(t).key = t.key /\ InRollup(t).patch = t.patch
          /\ InRollup(t).insert = t.insert
      BY <1>10, <3>1
    <3> QED
      BY <1>10, <2>2, <3>2
  <2>4. StatementFits(a, T)
    BY <2>3, SameWrite DEF Writes
  <2>5. PICK y, z : y = Following(s, x) /\ z = << T >>
    OBVIOUS
  <2>6. y = z
    <3>1. Sequence(y) /\ Len(y) = 1 /\ y[1] = T
      BY <2>1, <2>2, <2>5, FollowingColumns
    <3>2. Sequence(z) /\ Len(z) = 1 /\ z[1] = T
      BY <2>5, OneSequence
    <3>3. \A i \in 1..1 : y[i] = z[i]
      BY <3>1, <3>2
    <3> QED
      BY <3>1, <3>2, <3>3 DEF Sequence
  <2>7. Following(s, x \o c) = y \o C
    BY <1>1, <1>2, <2>1, <2>5, FollowingJoin
  <2>8. Sequence(z) /\ Len(z) = 1 /\ z[1] = T
    BY <2>5, OneSequence
  <2>9. (z \o C) \o r = z \o (C \o r)
    BY <1>3, <2>8, JoinAgain
  <2>10. p = z \o q
    BY <1>5, <2>6, <2>7, <2>9 DEF Replaced
  <2>11. Program(a, p)
    BY <1>6, <2>3, <2>4, <2>5, <2>10, WriteFirst
  <2>12. Sequence(p)
    BY <2>11 DEF Program
  <2>13. /\ Len(p) = Len(z) + Len(q) /\ \A i \in 1..Len(z) : p[i] = z[i]
    <3>1. Sequence(z)
      BY <2>8
    <3>2. /\ Sequence(p) /\ Len(p) = Len(z) + Len(q)
          /\ \A i \in 1..Len(z) : p[i] = z[i]
          /\ \A i \in 1..Len(q) : p[Len(z) + i] = q[i]
      BY <1>7, <2>10, <3>1, Joined
    <3> QED
      BY <3>2
  <2>14. p[1] = T /\ Len(p) # 0
    <3>1. Len(q) \in Nat
      BY <1>7 DEF Sequence
    <3> QED
      BY <2>8, <2>13, <3>1
  <2>15. p # << >>
    BY <2>12, <2>14, EmptyOnly
  <2>16. Of1(p, w)
    <3>1. ~Trade(T) /\ ~Copies(T)
      BY <2>3 DEF Trade, Copies
    <3>2. \A i \in 1..Len(z) : ~Trade(z[i]) /\ ~Copies(z[i])
      BY <2>8, <3>1
    <3>3. Sequence(z) /\ Of1(q, w)
      BY <1>6, <2>8
    <3> QED
      BY <1>7, <2>10, <3>2, <3>3, Of1Joined
  <2>17. x # << >>
    BY <2>1, EmptyIsSequence
  <2> QED
    BY <2>3, <2>11, <2>12, <2>14, <2>15, <2>16, <2>17 DEF w
<1> QED
  BY <1>8, <1>9 DEF WriteOrNone

LEMMA SaveStep ==
  ASSUME IInv, NEW a \in Actor, RunSave(a)
  PROVE  IInv'
<1>1. PICK s, h, k, e, E :
        /\ s = S(a) /\ h = held[a].row /\ k = s.key /\ e = s.edit /\ E = Edited(e, h)
  OBVIOUS
<1>2. PICK row, f, t, x, c, r, p :
        /\ row = (IF h = NoRow /\ Generated(k) THEN NoRow ELSE Row(k))
        /\ f = Difference(E, row)
        /\ t = [op |-> "write", key |-> k, patch |-> f, insert |-> row = NoRow]
        /\ x = (IF DOMAIN f = {} THEN << >> ELSE << t >>)
        /\ c = (IF IsBucket(k) /\ h = NoRow THEN CountBucket(k[1]) ELSE << >>)
        /\ r = Rest(a) /\ p = Following(s, x \o c) \o r
  OBVIOUS
<1>3. /\ todo[a] # << >> /\ s.op = "save" /\ todo' = [todo EXCEPT ![a] = p]
      /\ IF x = << >> THEN Release(a) ELSE UNCHANGED held
      /\ UNCHANGED <<scenario, log, now, next, at, selected, started, candle, rows, raced, ahead>>
  BY <1>1, <1>2 DEF RunSave, Is, Untouched, Become
<1>4. /\ Program(a, todo[a]) /\ Holding(a) /\ Actors /\ Candled /\ Rows /\ Covered
      /\ DOMAIN todo = Actor /\ DOMAIN held = Actor
  BY DEF IInv, Actors
<1>5. /\ held[a].key = k /\ (h = NoRow \/ Fits(k, h)) /\ (k \notin raced => h = Row(k))
      /\ h # NoRow /\ Profile(k) => Row(k) # NoRow
      /\ StatementFits(a, s) /\ EditFits(k, e) /\ Fits(k, E) /\ k # Discount
      /\ e.of = "list" => a = "admin"
      /\ k[1] = "pair" => E \in PairRow(scenario.days) /\ (h # NoRow => OwnEdit(e, E, h))
      /\ k = SpotToken =>
           /\ E \in TokenRow(scenario.days) /\ (h # NoRow => OwnEdit(e, E, h))
           /\ \A d \in Days : CountsAs(e, E, h, d)
  BY <1>1, <1>3, EditedRow
<1>6. /\ s = todo[a][1] /\ 1 \in 1..Len(todo[a]) /\ Program(a, r) /\ Of1(r, todo[a])
      /\ Opens(r) /\ Sequence(r) /\ Len(r) = Len(todo[a]) - 1
      /\ \A i \in 1..Len(r) : r[i] = todo[a][1 + i] /\ 1 + i \in 1..Len(todo[a])
  BY <1>1, <1>2, <1>3, <1>4, RestStep DEF Loads
<1>7. /\ t.op = "write" /\ t.key = k /\ t.patch = f /\ t.insert = (row = NoRow)
      /\ t.insert \in BOOLEAN /\ DOMAIN t = {"op", "key", "patch", "insert"}
  BY <1>2
<1>8. StatementFits(a, t)
  <2>1. k # Tiers
    BY <1>5 DEF EditFits
  <2>2. row = NoRow => Fits(k, f)
    BY <1>2, <1>5 DEF Difference
  <2>3. Amends(k, f)
    BY <1>2, <1>5, <2>1, DifferenceAmends
  <2>4. row # NoRow => Row(k) # NoRow
    BY <1>2
  <2> QED
    BY <1>5, <1>7, <2>1, <2>2, <2>3, <2>4 DEF StatementFits
<1>9. (x = << >> \/ x = << t >>) /\ CountOrNone(c)
  BY <1>2 DEF CountOrNone
<1>17. /\ Program(a, p) /\ Of1(p, r) /\ Sequence(p)
       /\ x = << >> => Opens(p)
       /\ x = << t >> => /\ p # << >> /\ p[1].op = "write" /\ p[1].key = t.key
                         /\ p[1].patch = t.patch
  <2>1. Replaced(s, x, c, r, p)
    BY <1>2 DEF Replaced
  <2>2. Program(a, r) /\ Opens(r)
    BY <1>6
  <2>3. Writes(t) /\ WriteOrNone(t, x)
    BY <1>7, <1>9 DEF Writes, WriteOrNone
  <2> QED
    BY ONLY <1>8, <1>9, <2>1, <2>2, <2>3, SavedProgram
<1>10. /\ Program(a, p) /\ Of1(p, todo[a]) /\ Sequence(p)
       /\ x = << >> => Opens(p)
       /\ x = << t >> => p # << >> /\ p[1].op = "write" /\ p[1].key = k /\ p[1].patch = f
  BY <1>6, <1>7, <1>17 DEF Of1
<1>11. todo'[a] = p /\ DOMAIN held' = Actor /\ \A b \in Actor \ {a} : held'[b] = held[b]
  BY <1>3, <1>4 DEF Release
<1>12. \A j : Row(j)' = Row(j)
  BY <1>3 DEF Row
<1>13. Remains /\ Rows'
  <2>1. \A j, y : Fits(j, y) => Fits(j, y)'
    BY <1>3, KeptFits
  <2> QED
    BY <1>3, <1>4, <1>12, <2>1 DEF Remains, Rows
<1>14. S(a).op # "candle"
  BY <1>1, <1>3
<1>15. CASE x = << >>
  <2>1. held'[a] = NoHold
    BY <1>3, <1>4, <1>15 DEF Release
  <2>2. Holding(a)' /\ OwnResult(a)' /\ ~Storing(a)'
    BY <1>10, <1>11, <1>15, <2>1, Released DEF Opens
  <2> QED
    BY <1>3, <1>10, <1>11, <1>12, <1>13, <1>14, <2>2, StatementStep
<1>16. CASE x # << >>
  <2>1. x = << t >> /\ held' = held
    BY <1>3, <1>9, <1>16
  <2>2. Head(p) = p[1] /\ p # << >>
    BY <1>10, <2>1, TailIsSuffix
  <2>3. PICK T : T = p[1]
    OBVIOUS
  <2>4. T.op = "write" /\ T.key = k /\ T.patch = f
    BY <1>10, <2>1, <2>3
  <2>5. S(a)' = T /\ todo'[a] # << >>
    BY <1>11, <2>2, <2>3 DEF S
  <2>6. At(a, {"save", "set", "write"})' /\ At(a, {"write"})'
    BY <2>4, <2>5 DEF At
  <2>7. Holding(a)'
    <3>1. held'[a] = held[a]
      BY <2>1
    <3>2. \A j, y : Fits(j, y) => Fits(j, y)'
      BY <1>3, KeptFits
    <3>3. \A j, y : j = k /\ y = h => (y = NoRow \/ Fits(j, y)') /\ (j \notin raced' => y = Row(j)')
                                   /\ (y # NoRow /\ Profile(j) => Row(j)' # NoRow)
      BY <1>3, <1>5, <1>12, <3>2
    <3>4. held'[a].key = k /\ held'[a].row = h
      BY <1>1, <1>5, <3>1
    <3>5. /\ held'[a].row = NoRow \/ Fits(held[a].key, held[a].row)'
          /\ held'[a].key \notin raced' => held'[a].row = Row(held[a].key)'
          /\ held'[a].row # NoRow /\ Profile(held'[a].key) => Row(held[a].key)' # NoRow
      BY <3>3, <3>4
    <3> QED
      BY <2>4, <2>5, <2>6, <3>4, <3>5 DEF Holding
  <2>8. k[1] = "pair" \/ k = SpotToken => Patched(f, Row(k)) = E /\ row = Row(k)
    <3> SUFFICES ASSUME k[1] = "pair" \/ k = SpotToken PROVE Patched(f, Row(k)) = E /\ row = Row(k)
      OBVIOUS
    <3>1. row = Row(k)
      BY <1>2, Keys DEF Generated
    <3>2. row # NoRow => Fits(k, row)
      BY <1>4, <3>1 DEF Rows, Row
    <3>3. CASE k[1] = "pair"
      <4>1. E = [z \in PairColumns |-> E[z]]
        BY <1>5, <3>3, PairRowColumns
      <4>2. row # NoRow => row \in PairRow(scenario.days)
        BY <3>2, <3>3 DEF Fits
      <4>3. row # NoRow => row = [z \in PairColumns |-> row[z]]
        BY <4>2, PairRowColumns
      <4> QED
        BY <1>2, <3>1, <4>1, <4>3, DifferencePatched
    <3>4. CASE k = SpotToken
      <4> DEFINE C == {"listed", "day", "dayVol", "dayTvl", "trades"}
      <4>1. E = [z \in C |-> E[z]]
        BY <1>5, <3>4, TokenRowColumns
      <4>2. row # NoRow => row \in TokenRow(scenario.days)
        BY <3>2, <3>4 DEF Fits
      <4>3. row # NoRow => row = [z \in C |-> row[z]]
        BY <4>2, TokenRowColumns
      <4> HIDE DEF C
      <4> QED
        BY <1>2, <3>1, <4>1, <4>3, DifferencePatched
    <3> QED
      BY <3>3, <3>4
  <2>9. \A j, y : j = k /\ y = f => Patched(y, Row(j))' = Patched(y, Row(j))
    BY <1>12 DEF Patched, Over
  <2>10. k[1] = "pair" \/ k = SpotToken => Result(a)' = E
    BY <2>4, <2>5, <2>8, <2>9 DEF Result
  <2>11. OwnResult(a)'
    <3> SUFFICES ASSUME k \notin raced', Row(k)' # NoRow, k[1] = "pair" \/ k = SpotToken
                 PROVE  /\ E.listed # Row(k).listed => a = "admin"
                        /\ E.dayTvl < Row(k).dayTvl => E.day # Row(k).day
      <4>1. \A j : j = k => Row(j)' = Row(k)
        BY <1>12
      <4>2. Row(S(a).key)' = Row(k) /\ S(a)'.key = k
        BY <2>4, <2>5, <4>1
      <4> QED
        BY <1>12, <2>10, <4>2 DEF OwnResult
    <3>1. h = Row(k) /\ h # NoRow
      BY <1>3, <1>5, <1>12
    <3>2. OwnEdit(e, E, h)
      BY <1>5, <3>1
    <3> QED
      BY <1>5, <3>1, <3>2 DEF OwnEdit
  <2>12. ASSUME SpotToken \notin raced', Storing(a)', NEW d \in Days, ~ahead', ~Late(d)'
         PROVE  Volume(Result(a), d)' \in 0..Free(d)'
    <3>1. k = SpotToken
      BY <2>4, <2>5, <2>12 DEF Storing
    <3>2. Result(a)' = E /\ E \in TokenRow(scenario.days) /\ CountsAs(e, E, h, d)
      BY <1>5, <2>10, <2>12, <3>1
    <3>3. Volume(Result(a), d)' = Volume(E, d)
      BY <3>2 DEF Volume
    <3>4. Volume(E, d) \in Nat
      BY <3>2 DEF Volume, TokenRow
    <3>5. \A b \in Actor : \A y : Owes(b, y)' => Owes(b, y)
      <4>1. \A b \in Actor \ {a} : todo'[b] = todo[b]
        BY <1>3, <1>4
      <4> QED
        BY <1>3, <1>10, <1>11, <1>14, <4>1, OwedBefore, SameOwed
    <3>6. /\ Late(d)' <=> Late(d)
          /\ Free(d) \in Int /\ Free(d)' \in Int /\ Free(d) <= Free(d)'
          /\ Owes(a, d) /\ ~Owes(a, d)' => Free(d) + 1 <= Free(d)'
      BY <1>3, <1>4, <3>5, FreeKept
    <3>7. /\ CopiesFit(todo[a], d, Free(d)) /\ Volume(Row(SpotToken), d) \in 0..Free(d)
      BY <1>3, <1>4, <2>12, <3>6 DEF Covered
    <3>8. Volume(h, d) \in 0..Free(d)
      BY <1>3, <1>5, <2>12, <3>1, <3>7
    <3>9. CASE e.of = "tradeToken" /\ e.day = d
      <4>1. Trade(s) /\ Owes(a, d)
        BY <1>1, <1>3, <1>6, <3>9 DEF Owes, Trade
      <4>2. ~Owes(a, d)'
        <5> SUFFICES ASSUME NEW i \in 1..Len(p), Trade(p[i]) PROVE FALSE
          BY <1>11 DEF Owes
        <5>1. PICK j \in 1..Len(r) : Trade(r[j])
          BY <1>17 DEF Of1
        <5>2. PICK n : n = 1 + j
          OBVIOUS
        <5>3. n # 1 /\ n \in 1..Len(todo[a]) /\ Trade(todo[a][n])
          BY <1>6, <5>1, <5>2
        <5> QED
          BY <1>4, <1>6, <4>1, <5>3 DEF Program, OneTrade, Swaps
      <4>3. Volume(E, d) <= Volume(h, d) + 1
        BY <3>2, <3>9 DEF CountsAs
      <4> QED
        BY <3>3, <3>4, <3>6, <3>8, <4>1, <4>2, <4>3
    <3>10. CASE e.of = "measure" /\ e.day = d
      <4>1. e.volume \in 0..Free(d)
        BY <1>1, <1>3, <1>6, <3>7, <3>10 DEF CopiesFit, Copies
      <4>2. Volume(E, d) <= e.volume
        BY <3>2, <3>10 DEF CountsAs
      <4> QED
        BY <3>3, <3>4, <3>6, <4>1, <4>2
    <3>11. CASE e.of \in {"tradeToken", "measure"} /\ e.day # d
      <4>1. Volume(E, d) <= 0
        BY <3>2, <3>11 DEF CountsAs
      <4> QED
        BY <3>3, <3>4, <3>6, <3>8, <4>1
    <3>12. CASE e.of \notin {"tradeToken", "measure"}
      <4>1. Volume(E, d) <= Volume(h, d)
        BY <3>2, <3>12 DEF CountsAs
      <4> QED
        BY <3>3, <3>4, <3>6, <3>8, <4>1
    <3> QED
      BY <3>9, <3>10, <3>11, <3>12
  <2> QED
    BY <1>3, <1>10, <1>11, <1>12, <1>13, <1>14, <2>7, <2>11, <2>12, StatementStep
<1> QED
  BY <1>15, <1>16
-----------------------------------------------------------------------------
(* Steps that write no row: actors begin and end.                          *)

\* A program to begin with.
Fresh(b, p) ==
  Program(b, p) /\ Opens(p) /\ \A i \in 1..Len(p) : ~Trade(p[i]) /\ ~Copies(p[i])

LEMMA ActorsStep ==
  ASSUME IInv, UNCHANGED <<scenario, candle, rows, raced, ahead>>, now <= now', Actors',
         \A b \in Actor : \/ todo'[b] = todo[b] /\ held'[b] = held[b]
                          \/ Fresh(b, todo'[b]) /\ held'[b] = NoHold
  PROVE  IInv'
<1>1. /\ Candled /\ Covered /\ Rows /\ now \in Nat /\ now' \in Nat
      /\ \A b \in Actor : Program(b, todo[b]) /\ Holding(b) /\ OwnResult(b)
  BY DEF IInv, Actors
<1>2. \A k : Row(k)' = Row(k)
  BY DEF Row
<1>3. Remains /\ Rows'
  <2>1. \A k, x : Fits(k, x) => Fits(k, x)'
    BY KeptFits
  <2> QED
    BY <1>1, <1>2, <2>1 DEF Remains, Rows
<1>4. Candled'
  <2>1. \A x : x \in 1..now => x \in 1..now'
    BY <1>1
  <2> QED
    BY <1>1, <2>1 DEF Candled
<1>5. ASSUME NEW b \in Actor, Fresh(b, todo'[b]), held'[b] = NoHold
      PROVE  /\ Program(b, todo[b])' /\ Holding(b)' /\ OwnResult(b)' /\ ~Storing(b)'
             /\ \A d : ~Owes(b, d)' /\ \A n : CopiesFit(todo'[b], d, n)
  <2>1. PICK p : p = todo'[b]
    OBVIOUS
  <2>2. Program(b, p) /\ Opens(p) /\ \A i \in 1..Len(p) : ~Trade(p[i]) /\ ~Copies(p[i])
    BY <1>5, <2>1 DEF Fresh
  <2>3. Program(b, p)'
    BY <1>1, <1>3, <2>2, KeptProgram
  <2>4. Sequence(p) /\ (p = << >> \/ p[1].op \notin {"save", "set", "write"})
    BY <2>2 DEF Program, Opens
  <2>5. Holding(b)' /\ OwnResult(b)' /\ ~Storing(b)'
    BY <1>5, <2>1, <2>4, Released
  <2>6. \A d : ~Owes(b, d)'
    BY <2>1, <2>2 DEF Owes
  <2>7. \A d, n : CopiesFit(p, d, n)
    BY <2>2 DEF CopiesFit
  <2> QED
    BY <2>1, <2>3, <2>5, <2>6, <2>7
<1>6. ASSUME NEW b \in Actor, todo'[b] = todo[b], held'[b] = held[b]
      PROVE  /\ Program(b, todo[b])' /\ Holding(b)' /\ OwnResult(b)'
             /\ \A d : Owes(b, d)' => Owes(b, d)
             /\ \A d, n : CopiesFit(todo[b], d, n) => CopiesFit(todo'[b], d, n)
             /\ Storing(b)' => Storing(b) /\ Result(b)' = Result(b)
  <2>1. Row(held[b].key)' = Row(held[b].key)
    <3> DEFINE k == held[b].key
    <3>1. k' = k
      BY <1>6
    <3> HIDE DEF k
    <3>2. Row(k)' = Row(k)
      BY <1>2, <3>1 DEF Row
    <3> QED
      BY <3>2 DEF k
  <2>2. Program(b, todo[b])' /\ Holding(b)' /\ OwnResult(b)'
    BY <1>1, <1>3, <1>6, <2>1, Others
  <2> QED
    BY <1>2, <1>6, <2>2, SameOwed
<1>7. \A b \in Actor : \A d : Owes(b, d)' => Owes(b, d)
  BY <1>5, <1>6
<1>8. \A d \in Days : ~Late(d)' =>
        ~Late(d) /\ Free(d) \in Int /\ Free(d)' \in Int /\ Free(d) <= Free(d)'
  BY <1>1, <1>7, FreeKept
<1>9. \A b \in Actor, d \in Days :
        ~ahead' /\ ~Late(d)' =>
          \/ CopiesFit(todo'[b], d, Free(d)')
          \/ \A n : CopiesFit(todo[b], d, n) => CopiesFit(todo'[b], d, n)
  BY <1>5, <1>6
<1>10. SpotToken \notin raced' =>
         \A b \in Actor :
           Storing(b)' =>
             \/ Storing(b) /\ Result(b)' = Result(b)
             \/ \A d \in Days : ~ahead' /\ ~Late(d)' => Volume(Result(b), d)' \in 0..Free(d)'
  BY <1>5, <1>6
<1>11. Covered'
  <2>1. SpotToken \notin raced' =>
          \/ Row(SpotToken)' = Row(SpotToken)
          \/ \E b \in Actor : Storing(b) /\ Row(SpotToken)' = Result(b)
    BY <1>2
  <2> QED
    BY <1>1, <1>8, <1>9, <1>10, <2>1, CoveredStep
<1>12. \A b \in Actor : Program(b, todo[b])' /\ Holding(b)' /\ OwnResult(b)'
  BY <1>5, <1>6
<1> QED
  BY <1>3, <1>4, <1>11, <1>12 DEF IInv

\* An event as its handler is given it.
LEMMA IdentifiedFits ==
  ASSUME NEW l, EventFits(l), NEW n, NEW e, e = Over([id |-> n], l)
  PROVE  EventFits(e) /\ e.day = l.day
<1>1. DOMAIN l \subseteq DOMAIN e /\ \A c \in DOMAIN l : c # "id" => e[c] = l[c]
  BY DEF Over
<1>2. {"type", "day"} \subseteq DOMAIN l
  BY DEF EventFits
<1>3. e.type = l.type /\ e.day = l.day
  BY <1>1, <1>2
<1>4. \A c \in {"pool", "bps", "info", "class", "lo", "hi"} : c \in DOMAIN l => c \in DOMAIN e /\ e[c] = l[c]
  BY <1>1
<1> QED
  BY <1>1, <1>2, <1>3, <1>4 DEF EventFits

LEMMA BeginStep ==
  ASSUME IInv, log' = log, scenario' = scenario, NEW a \in Actor, NEW n \in DOMAIN log,
         log[n].day <= now, Begin(a, n)
  PROVE  /\ Fresh(a, todo'[a]) /\ DOMAIN todo' = Actor
         /\ \A b \in Actor \ {a} : todo'[b] = todo[b] /\ at'[b] = at[b]
         /\ at'[a] = n /\ at' \in [Actor -> {0} \cup Stored']
         /\ Stored \subseteq Stored' /\ n \in Stored'
         /\ started' \in [DOMAIN log' -> Nat]
         /\ \A m \in Stored' : log[m].day <= now
<1>1. /\ Actors /\ EventFits(log[n]) /\ DOMAIN todo = Actor /\ started \in [DOMAIN log -> Nat]
      /\ at \in [Actor -> {0} \cup Stored] /\ \A m \in Stored : log[m].day <= now
      /\ now \in Nat
  BY DEF IInv, Actors
<1>2. PICK e : e = Over([id |-> n], log[n])
  OBVIOUS
<1>3. EventFits(e) /\ e.day = log[n].day
  BY <1>1, <1>2, IdentifiedFits
<1>4. e.day \in 1..now
  BY <1>1, <1>3 DEF EventFits, Actors
<1>5. PICK p \in Programs(e) : todo' = [todo EXCEPT ![a] = p]
  BY <1>2 DEF Begin, Become
<1>6. \A b : Program(b, p) /\ Opens(p) /\ \A i \in 1..Len(p) : ~Trade(p[i])
  BY <1>3, <1>4, HandlerProgram
<1>7. \A i \in 1..Len(p) : ~Copies(p[i])
  BY <1>6, NoCopies
<1>8. Fresh(a, p)
  BY <1>6, <1>7 DEF Fresh
<1>9. /\ at' = [at EXCEPT ![a] = n] /\ started' = [started EXCEPT ![n] = @ + 1]
  BY DEF Begin
<1>10. /\ started' \in [DOMAIN log' -> Nat] /\ Stored \subseteq Stored' /\ n \in Stored'
       /\ \A m \in Stored' : m \in Stored \/ m = n
  BY <1>1, <1>9 DEF Stored
<1> QED
  BY <1>1, <1>5, <1>8, <1>9, <1>10

\* An actor at rest has no row in hand.
LEMMA AtRest ==
  ASSUME IInv, NEW a \in Actor, todo[a] = << >>
  PROVE  held[a] = NoHold
<1>1. Holding(a) /\ ~At(a, {"save", "set", "write"})
  BY DEF IInv, At
<1> QED
  BY <1>1 DEF Holding

LEMMA DeliverStep ==
  ASSUME IInv, Deliver
  PROVE  IInv'
<1>1. /\ todo["consumer"] = << >> /\ next \in DOMAIN log /\ log[next].day <= now
      /\ Begin("consumer", next) /\ "consumer" \in Actor
      /\ UNCHANGED <<scenario, log, rows, candle, now, next, selected, held, raced, ahead>>
  BY DEF Deliver, Idle, Actor
<1>2. /\ Fresh("consumer", todo'["consumer"]) /\ DOMAIN todo' = Actor
      /\ \A b \in Actor \ {"consumer"} : todo'[b] = todo[b] /\ at'[b] = at[b]
      /\ at'["consumer"] = next /\ at' \in [Actor -> {0} \cup Stored']
      /\ Stored \subseteq Stored' /\ started' \in [DOMAIN log' -> Nat]
      /\ \A m \in Stored' : log[m].day <= now
  BY <1>1, BeginStep
<1>3. held["consumer"] = NoHold
  BY <1>1, AtRest
<1>4. Actors'
  <2>1. \A e : EventFits(e)' <=> EventFits(e)
    BY <1>1 DEF EventFits
  <2> QED
    BY <1>1, <1>2, <2>1 DEF IInv, Actors
<1>5. now <= now'
  BY <1>1 DEF IInv, Actors
<1> QED
  BY <1>1, <1>2, <1>3, <1>4, <1>5, ActorsStep

LEMMA StartReplayStep ==
  ASSUME IInv, StartReplay
  PROVE  IInv'
<1>1. PICK m \in Stored, n \in Stored :
        Begin("replay", m) /\ selected' = {k \in Stored : m < k /\ k <= n}
  BY DEF StartReplay
<1>2. /\ todo["replay"] = << >> /\ "replay" \in Actor /\ "replay" # "consumer"
      /\ UNCHANGED <<scenario, log, rows, candle, now, next, held, raced, ahead>>
  BY DEF StartReplay, MayStart, Idle, Actor
<1>3. m \in DOMAIN log /\ log[m].day <= now
  BY DEF IInv, Actors, Stored
<1>4. /\ Fresh("replay", todo'["replay"]) /\ DOMAIN todo' = Actor
      /\ \A b \in Actor \ {"replay"} : todo'[b] = todo[b] /\ at'[b] = at[b]
      /\ at' \in [Actor -> {0} \cup Stored']
      /\ Stored \subseteq Stored' /\ started' \in [DOMAIN log' -> Nat]
      /\ \A k \in Stored' : log[k].day <= now
  BY <1>1, <1>2, <1>3, BeginStep
<1>5. held["replay"] = NoHold
  BY <1>2, AtRest
<1>6. Actors'
  <2>1. \A e : EventFits(e)' <=> EventFits(e)
    BY <1>2 DEF EventFits
  <2>2. at'["consumer"] = at["consumer"]
    BY <1>2, <1>4 DEF Actor
  <2> QED
    BY <1>1, <1>2, <1>4, <2>1, <2>2 DEF IInv, Actors
<1>7. now <= now'
  BY <1>2 DEF IInv, Actors
<1> QED
  BY <1>2, <1>4, <1>5, <1>6, <1>7, ActorsStep

\* The actors after a step that takes up no event.
LEMMA ActorsKept ==
  ASSUME Actors, UNCHANGED <<scenario, log, started>>, now' \in 1..scenario.days, now <= now',
         next' \in Nat \ {0}, at' \in [Actor -> {0} \cup Stored], at'["consumer"] \in {0, next'},
         selected' \subseteq Stored, DOMAIN todo' = Actor, DOMAIN held' = Actor
  PROVE  Actors'
<1>1. Stored' = Stored
  BY DEF Stored
<1>2. \A e : EventFits(e)' <=> EventFits(e)
  BY DEF EventFits
<1>3. \A m \in Stored : m \in DOMAIN log /\ log[m].day <= now /\ log[m].day \in Nat
  BY DEF Actors, Stored, EventFits
<1>4. now \in Nat /\ now' \in Nat
  BY DEF Actors
<1>5. \A m \in Stored : log[m].day <= now'
  BY <1>3, <1>4
<1> QED
  BY <1>1, <1>2, <1>5 DEF Actors

LEMMA ReplayNextStep ==
  ASSUME IInv, ReplayNext
  PROVE  IInv'
<1>1. /\ todo["replay"] = << >> /\ "replay" \in Actor /\ "replay" # "consumer" /\ Actors
      /\ UNCHANGED <<scenario, log, rows, candle, now, next, held, raced, ahead>>
      /\ now \in 1..scenario.days /\ now <= now'
  BY DEF ReplayNext, Actor, IInv, Actors
<1>2. CASE selected # {}
  <2>1. PICK m : m = Min(selected)
    OBVIOUS
  <2>2. Begin("replay", m) /\ selected' = selected \ {m}
    BY <1>2, <2>1 DEF ReplayNext
  <2>3. selected \subseteq Nat
    <3>1. DOMAIN log = 1..Len(scenario.shape) /\ Len(scenario.shape) \in Nat
      BY <1>1, ScenariosAssumption DEF Actors
    <3> QED
      BY <1>1, <3>1 DEF Actors, Stored
  <2>4. m \in selected
    BY <1>2, <2>1, <2>3, LeastOf
  <2>5. m \in DOMAIN log /\ log[m].day <= now /\ selected \subseteq Stored
    BY <1>1, <2>4 DEF Actors, Stored
  <2>6. /\ Fresh("replay", todo'["replay"]) /\ DOMAIN todo' = Actor
        /\ \A b \in Actor \ {"replay"} : todo'[b] = todo[b] /\ at'[b] = at[b]
        /\ at' \in [Actor -> {0} \cup Stored']
        /\ Stored \subseteq Stored' /\ started' \in [DOMAIN log' -> Nat]
        /\ \A k \in Stored' : log[k].day <= now
    BY <1>1, <2>2, <2>5, BeginStep
  <2>7. held["replay"] = NoHold
    BY <1>1, AtRest
  <2>8. Actors'
    <3>1. \A e : EventFits(e)' <=> EventFits(e)
      BY <1>1 DEF EventFits
    <3>2. at'["consumer"] = at["consumer"]
      BY <1>1, <2>6 DEF Actor
    <3>3. selected' \subseteq Stored'
      BY <2>2, <2>5, <2>6
    <3> QED
      BY <1>1, <2>6, <3>1, <3>2, <3>3 DEF Actors
  <2> QED
    BY <1>1, <2>6, <2>7, <2>8, ActorsStep
<1>3. CASE selected = {}
  <2>1. at' = [at EXCEPT !["replay"] = 0] /\ UNCHANGED <<todo, started, selected>>
    BY <1>3 DEF ReplayNext
  <2>2. Actors'
    <3>1. at' \in [Actor -> {0} \cup Stored] /\ at'["consumer"] = at["consumer"]
      BY <1>1, <2>1 DEF Actors, Actor
    <3>2. /\ at["consumer"] \in {0, next} /\ next \in Nat \ {0} /\ selected \subseteq Stored
          /\ DOMAIN todo = Actor /\ DOMAIN held = Actor
      BY <1>1 DEF Actors
    <3> QED
      BY <1>1, <2>1, <3>1, <3>2, ActorsKept
  <2> QED
    BY <1>1, <2>1, <2>2, ActorsStep
<1> QED
  BY <1>2, <1>3

LEMMA AcknowledgeStep ==
  ASSUME IInv, Acknowledge
  PROVE  IInv'
<1>1. /\ "consumer" \in Actor /\ Actors /\ now \in 1..scenario.days /\ next' = next + 1
      /\ at' = [at EXCEPT !["consumer"] = 0]
      /\ UNCHANGED <<scenario, log, rows, candle, now, selected, todo, held, started, raced, ahead>>
  BY DEF Acknowledge, Actor, IInv, Actors
<1>2. Actors'
  <2>1. /\ next \in Nat \ {0} /\ selected \subseteq Stored /\ DOMAIN todo = Actor
        /\ DOMAIN held = Actor /\ at \in [Actor -> {0} \cup Stored]
    BY <1>1 DEF Actors
  <2>2. at' \in [Actor -> {0} \cup Stored] /\ at'["consumer"] = 0 /\ next' \in Nat \ {0}
    BY <1>1, <2>1
  <2> QED
    BY <1>1, <2>1, <2>2, ActorsKept
<1> QED
  BY <1>1, <1>2, ActorsStep

LEMMA FreshEmpty == ASSUME NEW a PROVE Fresh(a, << >>)
<1>1. Plain(a, << >>) /\ Len(<< >>) = 0
  BY EmptyPlain, EmptyIsSequence
<1> QED
  BY <1>1 DEF Plain, Fresh

LEMMA RestartStep ==
  ASSUME IInv, Restart
  PROVE  IInv'
<1>1. /\ "consumer" \in Broker /\ Broker \subseteq Actor /\ Actors /\ now \in 1..scenario.days
      /\ at' = [a \in Actor |-> IF a \in Broker THEN 0 ELSE at[a]]
      /\ todo' = [a \in Actor |-> IF a \in Broker THEN << >> ELSE todo[a]]
      /\ held' = [a \in Actor |-> IF a \in Broker THEN NoHold ELSE held[a]]
      /\ UNCHANGED <<scenario, log, rows, candle, now, next, selected, started, raced, ahead>>
  BY DEF Restart, history, Broker, Actor, IInv, Actors
<1>2. \A b \in Actor : \/ todo'[b] = todo[b] /\ held'[b] = held[b]
                       \/ Fresh(b, todo'[b]) /\ held'[b] = NoHold
  BY <1>1, FreshEmpty
<1>3. Actors'
  <2>1. /\ next \in Nat \ {0} /\ selected \subseteq Stored /\ at \in [Actor -> {0} \cup Stored]
    BY <1>1 DEF Actors
  <2>2. at' \in [Actor -> {0} \cup Stored] /\ at'["consumer"] = 0
    BY <1>1, <2>1
  <2>3. DOMAIN todo' = Actor /\ DOMAIN held' = Actor
    BY <1>1
  <2> QED
    BY <1>1, <2>1, <2>2, <2>3, ActorsKept
<1> QED
  BY <1>1, <1>2, <1>3, ActorsStep

LEMMA PublicationStep ==
  ASSUME IInv, Rewind \/ Lose
  PROVE  IInv'
<1>1. /\ Actors /\ now \in 1..scenario.days /\ at["consumer"] = 0 /\ next' \in Nat \ {0}
      /\ UNCHANGED <<scenario, log, rows, candle, now, at, selected, todo, held, started, raced, ahead>>
  <2>1. CASE Rewind
    BY <2>1 DEF Rewind, Idle, jobVars, history, IInv, Actors
  <2>2. CASE Lose
    BY <2>2 DEF Lose, Idle, jobVars, IInv, Actors
  <2> QED
    BY <2>1, <2>2
<1>2. Actors'
  <2>1. /\ selected \subseteq Stored /\ DOMAIN todo = Actor /\ DOMAIN held = Actor
        /\ at \in [Actor -> {0} \cup Stored]
    BY <1>1 DEF Actors
  <2> QED
    BY <1>1, <2>1, ActorsKept
<1> QED
  BY <1>1, <1>2, ActorsStep

LEMMA StopReplayStep ==
  ASSUME IInv, StopReplay
  PROVE  IInv'
<1>1. /\ "replay" \in Actor /\ "replay" # "consumer" /\ "consumer" \in Actor
      /\ Actors /\ now \in 1..scenario.days /\ selected' = {}
      /\ DOMAIN todo = Actor /\ DOMAIN held = Actor
      /\ at' = [at EXCEPT !["replay"] = 0] /\ todo' = [todo EXCEPT !["replay"] = << >>]
      /\ held' = [held EXCEPT !["replay"] = NoHold]
      /\ UNCHANGED <<scenario, log, rows, candle, now, next, started, raced, ahead>>
  BY DEF StopReplay, Become, Release, Actor, IInv, Actors
<1>2. \A b \in Actor : \/ todo'[b] = todo[b] /\ held'[b] = held[b]
                       \/ Fresh(b, todo'[b]) /\ held'[b] = NoHold
  BY <1>1, FreshEmpty
<1>3. Actors'
  <2>1. next \in Nat \ {0} /\ at \in [Actor -> {0} \cup Stored] /\ at["consumer"] \in {0, next}
    BY <1>1 DEF Actors
  <2>2. at' \in [Actor -> {0} \cup Stored] /\ at'["consumer"] = at["consumer"]
    BY <1>1, <2>1
  <2>3. DOMAIN todo' = Actor /\ DOMAIN held' = Actor
    BY <1>1
  <2> QED
    BY <1>1, <2>1, <2>2, <2>3, ActorsKept
<1> QED
  BY <1>1, <1>2, <1>3, ActorsStep

\* One run of the minute cron.
LEMMA CronFresh ==
  ASSUME NEW c \in Cron, now \in Nat \ {0}, NEW p, p = ensureWallClockBuckets(now)
  PROVE  Fresh(c, p)
<1>1. PICK q, r, u, v :
        /\ q = Query([of |-> "candles", day |-> now]) /\ r = Rollup(now, NewBucket)
        /\ u = Query([of |-> "backfill"]) /\ v = Query([of |-> "measure", day |-> now])
  OBVIOUS
<1>2. /\ q.op = "query" /\ q.of = "candles" /\ q.day = now
      /\ u.op = "query" /\ u.of = "backfill"
      /\ v.op = "query" /\ v.of = "measure" /\ v.day = now
  BY <1>1, QuerySides
<1>3. now \in 1..now
  OBVIOUS
<1>4. QueryFits(q) /\ QueryFits(u) /\ QueryFits(v)
  BY <1>2, <1>3 DEF QueryFits
<1>5. Plain(c, << u >>) /\ Plain(c, << v >>)
  BY <1>2, <1>4, QueryPlain
<1>6. PICK w : w = << u, v >>
  OBVIOUS
<1>7. Plain(c, w)
  BY <1>5, <1>6, TwoJoined, JoinedPlain
<1>8. Plain(c, r) /\ Plain("consumer", r)
  BY <1>1, Records
<1>9. Sequence(w) /\ Sequence(r)
  BY <1>7, <1>8 DEF Plain, Program
<1>10. PICK t : t = r \o w
  OBVIOUS
<1>11. Plain(c, t)
  BY <1>7, <1>8, <1>10, JoinedPlain
<1>12. PICK o : o = << q >>
  OBVIOUS
<1>13. Sequence(o) /\ Len(o) = 1 /\ o[1] = q
  BY <1>12, OneSequence
<1>14. p = o \o t
  <2>1. p = (o \o r) \o w
    BY <1>1, <1>6, <1>12 DEF ensureWallClockBuckets
  <2> QED
    BY <1>9, <1>10, <1>13, <2>1, JoinAgain
<1>15. Program(c, o) /\ Opens(o)
  <2>1. StatementFits(c, q)
    BY <1>2, <1>4 DEF StatementFits
  <2>2. Couples(o)
    BY <1>2, <1>13 DEF Couples, Loads
  <2>3. OneTrade(o)
    BY <1>2, <1>13 DEF OneTrade, Swaps, Trade, Asks
  <2> QED
    BY <1>2, <1>13, <2>1, <2>2, <2>3 DEF Program, Opens
<1>16. Apart(o, t)
  BY <1>2, <1>11, <1>13 DEF Apart, Plain, Quiet, Swaps, Trade, Asks
<1>17. Program(c, p) /\ Opens(p)
  BY <1>11, <1>14, <1>15, <1>16, JoinedProgram DEF Plain
<1>18. PICK none : none = << >>
  OBVIOUS
<1>19. Of1(w, none)
  <2>1. Len(w) = 2 /\ w[1] = u /\ w[2] = v
    BY <1>6, TwoSequence
  <2>2. \A i \in 1..2 : ~Trade(w[i]) /\ ~Copies(w[i])
    BY <1>2, <2>1 DEF Trade, Copies
  <2> QED
    BY <2>1, <2>2 DEF Of1
<1>20. \A i \in 1..Len(r) : ~Trade(r[i]) /\ ~Copies(r[i])
  BY <1>8, NoCopies DEF Plain, Quiet, Swaps
<1>21. Sequence(t) /\ Of1(t, none)
  BY <1>9, <1>10, <1>11, <1>19, <1>20, Of1Joined DEF Plain, Program
<1>22. Of1(p, none)
  <2>1. \A i \in 1..Len(o) : ~Trade(o[i]) /\ ~Copies(o[i])
    BY <1>2, <1>13 DEF Trade, Copies
  <2> QED
    BY <1>13, <1>14, <1>21, <2>1, Of1Joined
<1>23. Len(none) = 0
  BY <1>18, EmptyIsSequence
<1> QED
  BY <1>17, <1>22, <1>23 DEF Fresh, Of1

\* An actor begins with p, at no event.
LEMMA BecomeStep ==
  ASSUME IInv, NEW a \in Actor, todo[a] = << >>, NEW p, Fresh(a, p), Become(a, p),
         UNCHANGED <<scenario, log, rows, candle, now, next, at, selected, held, started, raced, ahead>>
  PROVE  IInv'
<1>1. DOMAIN todo = Actor /\ Actors /\ now <= now' /\ held[a] = NoHold
  BY AtRest DEF IInv, Actors
<1>2. DOMAIN todo' = Actor /\ todo'[a] = p /\ \A b \in Actor \ {a} : todo'[b] = todo[b]
  BY <1>1 DEF Become
<1>3. Actors'
  <2>1. DOMAIN held' = Actor
    BY <1>1 DEF Actors
  <2> QED
    BY <1>1, <1>2, <2>1, SameActors
<1> QED
  BY <1>1, <1>2, <1>3, ActorsStep

LEMMA StartCronStep ==
  ASSUME IInv, NEW c \in Cron, StartCron(c)
  PROVE  IInv'
<1>1. PICK p : p = ensureWallClockBuckets(now)
  OBVIOUS
<1>2. /\ c \in Actor /\ todo[c] = << >> /\ Become(c, p)
      /\ UNCHANGED <<scenario, log, rows, candle, now, next, at, selected, held, started, raced, ahead>>
  BY <1>1 DEF StartCron, MayStart, Idle, Actor, history
<1>3. now \in Nat \ {0}
  BY DEF IInv, Actors
<1>4. Fresh(c, p)
  BY <1>1, <1>3, CronFresh
<1> QED
  BY <1>2, <1>4, BecomeStep

LEMMA AdministerStep ==
  ASSUME IInv, Administer
  PROVE  IInv'
<1>1. /\ "admin" \in Actor /\ todo["admin"] = << >>
      /\ UNCHANGED <<scenario, log, rows, candle, now, next, at, selected, held, started, raced, ahead>>
  BY DEF Administer, MayStart, Idle, Actor, history
<1>2. PICK v \in BOOLEAN :
        \/ Become("admin", setTokenListed(v))
        \/ \E p \in Pool : Become("admin", setPairListed(p, v)) \/ Become("admin", setListed(p, v))
  BY DEF Administer
<1>3. ASSUME NEW p, Plain("admin", p) PROVE Fresh("admin", p)
  <2>1. ASSUME NEW i \in 1..Len(p) PROVE ~Trade(p[i]) /\ ~Copies(p[i])
    <3>1. StatementFits("admin", p[i]) /\ ~Trade(p[i])
      BY <1>3 DEF Plain, Program, Quiet, Swaps
    <3>2. "admin" \notin Cron
      BY DEF Cron
    <3> QED
      BY <3>1, <3>2 DEF StatementFits, Copies
  <2> QED
    BY <1>3, <2>1 DEF Plain, Fresh
<1>4. \A p : Plain("admin", p) /\ Become("admin", p) => IInv'
  BY <1>1, <1>3, BecomeStep
<1> QED
  BY <1>2, <1>4, CatalogPlain

LEMMA MidnightStep ==
  ASSUME IInv, Midnight
  PROVE  IInv'
<1>1. /\ Actors /\ now < scenario.days /\ now' = now + 1 /\ now \in 1..scenario.days
      /\ UNCHANGED <<scenario, log, rows, candle, next, at, selected, todo, held, started, raced, ahead>>
  BY DEF Midnight, jobVars, history, IInv, Actors
<1>2. scenario.days \in Nat
  BY <1>1, ScenariosAssumption DEF Actors
<1>3. now' \in 1..scenario.days /\ now <= now'
  BY <1>1, <1>2
<1>4. Actors'
  <2>1. /\ next \in Nat \ {0} /\ selected \subseteq Stored /\ at \in [Actor -> {0} \cup Stored]
        /\ at["consumer"] \in {0, next} /\ DOMAIN todo = Actor /\ DOMAIN held = Actor
    BY <1>1 DEF Actors
  <2> QED
    BY <1>1, <1>3, <2>1, ActorsKept
<1> QED
  BY <1>1, <1>3, <1>4, ActorsStep
-----------------------------------------------------------------------------
(* The invariant.                                                          *)

LEMMA StutterStep ==
  ASSUME IInv, UNCHANGED vars
  PROVE  IInv'
<1>1. /\ Actors /\ now <= now' /\ DOMAIN todo = Actor /\ DOMAIN held = Actor
      /\ UNCHANGED <<scenario, log, rows, candle, now, next, at, selected, todo, held, started, raced, ahead>>
  BY DEF vars, jobVars, history, IInv, Actors
<1>2. Actors'
  <2>1. DOMAIN todo' = Actor /\ DOMAIN held' = Actor
    BY <1>1
  <2> QED
    BY <1>1, <2>1, SameActors
<1> QED
  BY <1>1, <1>2, ActorsStep

LEMMA NextStep ==
  ASSUME IInv, [Next]_vars
  PROVE  IInv'
<1>1. ASSUME NEW a \in Actor, Step(a) \/ Fail(a) PROVE IInv'
  <2>1. CASE RunQuery(a)   BY <2>1, QueryStep
  <2>2. CASE RunFind(a)    BY <2>2, FindStep
  <2>3. CASE RunSave(a)    BY <2>3, SaveStep
  <2>4. CASE RunWrite(a)   BY <2>4, WriteStep
  <2>5. CASE RunSet(a)     BY <2>5, SetStep
  <2>6. CASE RunUpsert(a)  BY <2>6, UpsertStep
  <2>7. CASE RunUpdate(a)  BY <2>7, UpdateStep
  <2>8. CASE RunCompute(a) BY <2>8, ComputeStep
  <2>9. CASE RunDelete(a)  BY <2>9, DeleteStep
  <2>10. CASE RunCandle(a) BY <2>10, CandleStep
  <2>11. CASE Refused(a) \/ Fail(a) BY <2>11, RefusedStep
  <2> QED
    BY <1>1, <2>1, <2>2, <2>3, <2>4, <2>5, <2>6, <2>7, <2>8, <2>9, <2>10, <2>11 DEF Step
<1>2. CASE Deliver BY <1>2, DeliverStep
<1>3. CASE Acknowledge BY <1>3, AcknowledgeStep
<1>4. CASE Restart BY <1>4, RestartStep
<1>5. CASE Rewind \/ Lose BY <1>5, PublicationStep
<1>6. CASE StartReplay BY <1>6, StartReplayStep
<1>7. CASE ReplayNext BY <1>7, ReplayNextStep
<1>8. CASE StopReplay BY <1>8, StopReplayStep
<1>9. ASSUME NEW c \in Cron, StartCron(c) PROVE IInv'
  BY <1>9, StartCronStep
<1>10. CASE Administer BY <1>10, AdministerStep
<1>11. CASE Midnight BY <1>11, MidnightStep
<1>12. CASE UNCHANGED vars BY <1>12, StutterStep
<1> QED
  BY <1>1, <1>2, <1>3, <1>4, <1>5, <1>6, <1>7, <1>8, <1>9, <1>10, <1>11, <1>12 DEF Next

LEMMA DrawnFits ==
  ASSUME NEW s \in Scenarios, NEW n \in DOMAIN s.shape, NEW e \in Events(s, n), scenario = s
  PROVE  EventFits(e)
<1>1. PICK t \in s.shape[n], d \in 1..s.days : e \in Event(s, t, d)
  BY DEF Events
<1>2. /\ t \in EventTypes /\ s.pools \subseteq Pool /\ s.info \subseteq BOOLEAN
      /\ \A r \in s.ranges : r.lo \in Int /\ r.hi \in Int
  BY ScenariosAssumption
<1>3. CASE t = "created"
  BY <1>1, <1>2, <1>3 DEF Event, EventFits
<1>4. CASE t = "setFee"
  BY <1>1, <1>2, <1>4, SpotRowsAssumption DEF Event, EventFits, CL
<1>5. CASE t \in {"customFee", "moduleFee", "capSet", "feeReset"}
  BY <1>1, <1>2, <1>5 DEF Event, EventFits
<1>6. CASE t \in {"default", "discount", "undiscount"}
  BY <1>1, <1>2, <1>6 DEF Event, EventFits
<1>7. CASE t = "whitelist"
  BY <1>1, <1>2, <1>7 DEF Event, EventFits
<1>8. CASE t = "mint"
  <2>1. \/ e \in [type : {t}, pool : {p \in s.pools : ~CL(p)}, day : {d}]
        \/ \E p \in s.pools, r \in s.ranges :
             e = [type |-> t, pool |-> p, day |-> d, lo |-> r.lo, hi |-> r.hi]
    BY <1>1, <1>8 DEF Event
  <2>2. CASE e \in [type : {t}, pool : {p \in s.pools : ~CL(p)}, day : {d}]
    BY <1>1, <1>2, <1>8, <2>2 DEF EventFits
  <2>3. ASSUME NEW p \in s.pools, NEW r \in s.ranges,
               e = [type |-> t, pool |-> p, day |-> d, lo |-> r.lo, hi |-> r.hi]
        PROVE  EventFits(e)
    BY <1>1, <1>2, <1>8, <2>3 DEF EventFits
  <2> QED
    BY <2>1, <2>2, <2>3
<1>9. CASE t \in {"swap", "gauge", "claim", "stake"}
  BY <1>1, <1>2, <1>9 DEF Event, EventFits
<1> QED
  BY <1>2, <1>3, <1>4, <1>5, <1>6, <1>7, <1>8, <1>9 DEF EventTypes

LEMMA Initially == Init => IInv
<1> SUFFICES ASSUME Init PROVE IInv
  OBVIOUS
<1>1. /\ scenario \in Scenarios /\ log \in Logs(scenario)
      /\ rows = << >> /\ candle = << >> /\ now = 1 /\ next = 1
      /\ at = [a \in Actor |-> 0] /\ selected = {}
      /\ todo = [a \in Actor |-> << >>] /\ held = [a \in Actor |-> NoHold]
      /\ started = [n \in DOMAIN log |-> 0] /\ raced = {}
  BY DEF Init
<1>2. DOMAIN log = DOMAIN scenario.shape /\ \A n \in DOMAIN log : log[n] \in Events(scenario, n)
  BY <1>1 DEF Logs, Drawn
<1>3. \A n \in DOMAIN log : EventFits(log[n])
  BY <1>1, <1>2, DrawnFits
<1>4. Stored = {}
  BY <1>1 DEF Stored
<1>5. scenario.days \in Nat \ {0}
  BY <1>1, ScenariosAssumption
<1>6. Actors
  BY <1>1, <1>2, <1>3, <1>4, <1>5 DEF Actors, Actor
<1>7. DOMAIN << >> = {}
  BY EmptyIsSequence
<1>8. Rows /\ Candled
  BY <1>1, <1>7 DEF Rows, Candled
<1>9. ASSUME NEW a \in Actor
      PROVE  /\ Program(a, todo[a]) /\ Holding(a) /\ OwnResult(a)
             /\ ~Storing(a) /\ \A d : ~Owes(a, d) /\ \A n : CopiesFit(todo[a], d, n)
  <2>1. todo[a] = << >> /\ held[a] = NoHold /\ Len(<< >>) = 0
    BY <1>1, EmptyIsSequence
  <2>2. Program(a, todo[a])
    BY <2>1, FreshEmpty DEF Fresh
  <2>3. Holding(a) /\ OwnResult(a) /\ ~Storing(a)
    BY <2>1 DEF Holding, OwnResult, Storing, At
  <2>4. \A d : ~Owes(a, d) /\ \A n : CopiesFit(todo[a], d, n)
    BY <2>1 DEF Owes, CopiesFit
  <2> QED
    BY <2>2, <2>3, <2>4
<1>10. Covered
  <2> SUFFICES ASSUME NEW d \in Days
               PROVE  /\ \A a \in Actor : CopiesFit(todo[a], d, Free(d))
                      /\ Volume(Row(SpotToken), d) \in 0..Free(d)
                      /\ \A a \in Actor : ~Storing(a)
    BY DEF Covered
  <2>1. Row(SpotToken) = NoRow
    BY <1>1, <1>7 DEF Row
  <2>2. {a \in Actor : Owes(a, d)} = {}
    BY <1>9
  <2>3. Owing(d) = 0
    BY <2>2, FS_EmptySet DEF Owing
  <2>4. Free(d) = 0
    BY <1>1, <1>7, <2>3 DEF Free, Room
  <2>5. Volume(Row(SpotToken), d) = 0
    BY <2>1 DEF Volume
  <2> QED
    BY <1>9, <2>4, <2>5
<1> QED
  BY <1>6, <1>8, <1>9, <1>10 DEF IInv

LEMMA Inductive == Spec => []IInv
<1>1. Init => IInv
  BY Initially
<1>2. IInv /\ [Next]_vars => IInv'
  BY NextStep
<1> QED
  BY <1>1, <1>2, PTL DEF Spec

(***************************************************************************)
(* In every state, between any two statements of any actors, the rows that *)
(* are shown have their types, no bucket of the token is of a day to come, *)
(* an actor that is done holds no row, and the consumer handles the event  *)
(* that is next: aggregateIndexedEvent and all it calls, the flushes of    *)
(* the cron and the catalog's edits, for any log.                          *)
(***************************************************************************)
THEOREM RowsTyped == Spec => []TypeOK
<1>1. IInv => TypeOK
  <2> SUFFICES ASSUME IInv PROVE TypeOK
    OBVIOUS
  <2>1. Rows /\ Candled /\ at["consumer"] \in {0, next} /\ now \in Nat
    BY DEF IInv, Actors
  <2>2. \A k \in DOMAIN rows :
          /\ k[1] = "pair" => rows[k] \in PairRow(scenario.days)
          /\ k = SpotToken => rows[k] \in TokenRow(scenario.days)
          /\ IsBucket(k) => rows[k] \in BucketRow
    BY <2>1 DEF Rows, Fits
  <2>3. \A d \in DOMAIN candle : d \in 1..now /\ candle[d] \in Nat
    <3>1. CASE candle = << >>
      BY <3>1, EmptyIsSequence
    <3>2. CASE \E lo, hi \in 1..now : lo <= hi /\ DOMAIN candle = lo..hi
      BY <2>1, <3>2 DEF Candled
    <3> QED
      BY <2>1, <3>1, <3>2 DEF Candled
  <2> QED
    BY <2>1, <2>2, <2>3, AtRest DEF TypeOK
<1> QED
  BY <1>1, Inductive, PTL

(***************************************************************************)
(* The day volume of the token's row is within the candle of its day at    *)
(* every moment: over late swaps, races of the consumer with a replay,     *)
(* failures between the two transactions of a swap, restarts, and runs of  *)
(* the cron that overlap, for any number of days and events.               *)
(***************************************************************************)
THEOREM DayVolumeWithinCandle == Spec => []DayVolumeOfItsDay
<1>1. IInv => DayVolumeOfItsDay
  <2> SUFFICES ASSUME IInv, ~ahead, SpotToken \in DOMAIN rows, SpotToken \notin raced,
                      NEW t, t = rows[SpotToken], t.day \in DOMAIN candle
               PROVE  t.dayVol <= candle[t.day]
    BY DEF DayVolumeOfItsDay
  <2>1. Rows /\ Candled /\ Covered
    BY DEF IInv
  <2>2. t \in TokenRow(scenario.days) /\ Row(SpotToken) = t
    BY <2>1 DEF Rows, Fits, Row
  <2>3. t.day \in Days /\ t.dayVol \in Nat
    BY <2>2 DEF TokenRow, Days
  <2>4. ~Late(t.day)
    BY DEF Late
  <2>5. t # NoRow
    BY <2>2, ScenariosAssumption DEF IInv, Actors
  <2>6. Volume(Row(SpotToken), t.day) = t.dayVol
    BY <2>2, <2>5 DEF Volume
  <2>7. t.dayVol \in 0..Free(t.day)
    BY <2>1, <2>3, <2>4, <2>6 DEF Covered
  <2>8. Free(t.day) = candle[t.day] - Owing(t.day) /\ candle[t.day] \in Nat
    BY <2>1 DEF Free, Room, Candled
  <2>9. Owing(t.day) \in Nat
    BY Owing1
  <2> QED
    BY <2>7, <2>8, <2>9
<1> QED
  BY <1>1, Inductive, PTL
-----------------------------------------------------------------------------
(* Columns and their writers.                                              *)

Own(a, new, old) ==
  /\ new.listed # old.listed => a = "admin"
  /\ new.dayTvl < old.dayTvl => new.day # old.day

\* A statement leaves a row as it is, or it is a's and writes columns a may write.
LEMMA StepOwn ==
  ASSUME IInv, NEW a \in Actor, Step(a), NEW k \in Listable \ raced
  PROVE  rows'[k] = rows[k] \/ (Own(a, rows'[k], rows[k]) /\ todo'[a] # todo[a])
<1>1. /\ k \in DOMAIN rows /\ k \notin raced /\ (k[1] = "pair" \/ k = SpotToken)
      /\ Row(k) = rows[k] /\ k # Discount
  BY Keys DEF Listable, Row
<1>2. /\ k[1] = "pair" => rows[k] \in PairRow(scenario.days)
      /\ k = SpotToken => rows[k] \in TokenRow(scenario.days)
  BY <1>1 DEF IInv, Rows, Fits
<1>3. rows[k].dayTvl \in Nat /\ rows[k] # NoRow
  BY <1>1, <1>2, ScenariosAssumption DEF PairRow, TokenRow, IInv, Actors
<1>4. PICK s : s = S(a)
  OBVIOUS
<1>5. ASSUME todo[a] # << >>
      PROVE  /\ StatementFits(a, s) /\ Program(a, todo[a]) /\ Holding(a) /\ OwnResult(a)
             /\ Become(a, Rest(a)) => todo'[a] # todo[a]
  <2>1. Program(a, todo[a]) /\ Holding(a) /\ OwnResult(a) /\ DOMAIN todo = Actor
    BY DEF IInv, Actors
  <2>2. StatementFits(a, s) /\ Len(Rest(a)) = Len(todo[a]) - 1 /\ Len(todo[a]) \in Nat
    BY <1>4, <1>5, <2>1, RestStep DEF Program, Sequence
  <2>3. Become(a, Rest(a)) => todo'[a] = Rest(a)
    BY <2>1 DEF Become
  <2> QED
    BY <2>1, <2>2, <2>3
<1>6. ASSUME NEW f, Write(a, f) PROVE rows'[k] = IF k \in DOMAIN f THEN f[k] ELSE rows[k]
  BY <1>1, <1>6 DEF Write, Over
<1>7. CASE RunQuery(a) \/ RunFind(a) \/ RunSave(a) \/ RunCandle(a) \/ Refused(a)
  <2>1. rows' = rows
    BY <1>7 DEF RunQuery, RunFind, RunSave, RunCandle, Refused, Abandon
  <2> QED
    BY <2>1
<1>8. CASE RunWrite(a)
  <2>1. PICK f : f = One(s.key, Patched(s.patch, Row(s.key)))
    OBVIOUS
  <2>2. todo[a] # << >> /\ s.op = "write" /\ Write(a, f) /\ Become(a, Rest(a))
    BY <1>4, <1>8, <2>1 DEF RunWrite, Is
  <2>3. DOMAIN f = {s.key} /\ f[s.key] = Result(a)
    BY <1>4, <2>1 DEF One, Result
  <2>4. CASE k = s.key
    <3>1. rows'[k] = Result(a)
      BY <1>6, <2>2, <2>3, <2>4
    <3>2. At(a, {"write"}) /\ OwnResult(a)
      BY <1>4, <1>5, <2>2 DEF At
    <3>3. Own(a, Result(a), rows[k])
      BY <1>1, <1>3, <1>4, <2>4, <3>2 DEF OwnResult, Own
    <3> QED
      BY <1>5, <2>2, <3>1, <3>3
  <2> QED
    BY <1>6, <2>2, <2>3, <2>4
<1>9. CASE RunSet(a)
  <2>1. PICK g, f : /\ g = [c \in s.cols |-> Edited(s.edit, held[a].row)[c]]
                    /\ f = One(s.key, Over(g, Row(s.key)))
    OBVIOUS
  <2>2. todo[a] # << >> /\ s.op = "set" /\ Write(a, f) /\ Become(a, Rest(a))
    BY <1>4, <1>9, <2>1 DEF RunSet, Is
  <2>3. s.cols = {"liquidity", "price"} /\ s.key[1] = "pair"
    BY <1>5, <2>2 DEF StatementFits
  <2>4. DOMAIN f = {s.key} /\ f[s.key] = Over(g, Row(s.key)) /\ DOMAIN g = {"liquidity", "price"}
    BY <2>1, <2>3 DEF One
  <2>5. CASE k = s.key
    <3>1. rows'[k] = Over(g, rows[k])
      BY <1>1, <1>6, <2>2, <2>4, <2>5
    <3>2. DOMAIN rows[k] = PairColumns
      BY <1>2, <2>3, <2>5, PairRowColumns
    <3>3. /\ rows'[k].listed = rows[k].listed /\ rows'[k].dayTvl = rows[k].dayTvl
      BY <2>4, <3>1, <3>2 DEF Over, PairColumns
    <3> QED
      BY <1>3, <1>5, <2>2, <3>3 DEF Own
  <2> QED
    BY <1>6, <2>2, <2>4, <2>5
<1>10. CASE RunUpsert(a)
  <2>1. PICK f : f = One(s.key, IF Row(s.key) = NoRow THEN s.new ELSE Over(s.patch, Row(s.key)))
    OBVIOUS
  <2>2. todo[a] # << >> /\ s.op = "upsert" /\ Write(a, f)
    BY <1>4, <1>10, <2>1 DEF RunUpsert, Is
  <2>3. k \notin DOMAIN f
    BY <1>1, <1>5, <2>1, <2>2 DEF StatementFits, One
  <2> QED
    BY <1>6, <2>2, <2>3
<1>11. CASE RunUpdate(a)
  <2>1. PICK K, f : /\ K = {j \in s.keys : Row(j) # NoRow /\ rows[j].src \in s.where}
                    /\ f = [j \in K |-> Over(s.patch, rows[j])]
    OBVIOUS
  <2>2. todo[a] # << >> /\ s.op = "update" /\ Write(a, f) /\ Become(a, Rest(a))
    BY <1>4, <1>11, <2>1 DEF RunUpdate, Is
  <2>3. CASE k \in K
    <3>1. rows'[k] = Over(s.patch, rows[k])
      BY <1>6, <2>1, <2>2, <2>3
    <3>2. /\ k[1] = "pair" /\ DOMAIN s.patch \cap {"dayTvl", "day"} = {}
          /\ "listed" \in DOMAIN s.patch => a = "admin"
      BY <1>5, <2>1, <2>2, <2>3 DEF StatementFits
    <3>3. DOMAIN rows[k] = PairColumns
      BY <1>2, <3>2, PairRowColumns
    <3>4. /\ rows'[k].dayTvl = rows[k].dayTvl
          /\ "listed" \notin DOMAIN s.patch => rows'[k].listed = rows[k].listed
      BY <3>1, <3>2, <3>3 DEF Over, PairColumns
    <3> QED
      BY <1>3, <1>5, <2>2, <3>2, <3>4 DEF Own
  <2> QED
    BY <1>6, <2>1, <2>2, <2>3
<1>12. CASE RunCompute(a)
  <2>1. PICK f : f = [j \in s.keys \cap DOMAIN rows |-> Computed(s.expr, rows[j])]
    OBVIOUS
  <2>2. todo[a] # << >> /\ s.op = "compute" /\ Write(a, f) /\ Become(a, Rest(a))
    BY <1>4, <1>12, <2>1 DEF RunCompute, Is
  <2>3. CASE k \in s.keys
    <3>1. k # Account
      BY <1>1, Keys
    <3>2. k[1] = "pair" /\ s.expr = [of |-> "gauge"]
      BY <1>5, <2>2, <2>3, <3>1 DEF StatementFits
    <3>3. rows'[k] = Computed(s.expr, rows[k])
      BY <1>1, <1>6, <2>1, <2>2, <2>3
    <3>4. rows'[k] = [rows[k] EXCEPT !.gauge = BothWhitelisted]
      BY <3>2, <3>3 DEF Computed
    <3>5. rows'[k].listed = rows[k].listed /\ rows'[k].dayTvl = rows[k].dayTvl
      BY <1>2, <3>2, <3>4 DEF PairRow
    <3> QED
      BY <1>3, <1>5, <2>2, <3>5 DEF Own
  <2> QED
    BY <1>6, <2>1, <2>2, <2>3
<1>13. CASE RunDelete(a)
  <2>1. todo[a] # << >> /\ s.op = "delete" /\ rows' = Restrict(rows, DOMAIN rows \ {s.key})
    BY <1>4, <1>13 DEF RunDelete, Is
  <2>2. k # s.key
    BY <1>1, <1>5, <2>1 DEF StatementFits
  <2> QED
    BY <1>1, <2>1, <2>2 DEF Restrict
<1> QED
  BY <1>7, <1>8, <1>9, <1>10, <1>11, <1>12, <1>13 DEF Step

(***************************************************************************)
(* A step changes whether a pair or the token is listed only when it is    *)
(* the administrator's, and makes a day's liquidity less only with a new   *)
(* day, but for a row that was raced on: whatever the other handlers write *)
(* of the same row between any two of its statements.                      *)
(***************************************************************************)
THEOREM ColumnsOwned == Spec => OwnColumns
<1> DEFINE Kept == \A k \in Listable \ raced :
                     /\ rows'[k].listed # rows[k].listed => todo'["admin"] # todo["admin"]
                     /\ rows'[k].dayTvl < rows[k].dayTvl => rows'[k].day # rows[k].day
<1>1. IInv /\ [Next]_vars => [Kept]_vars
  <2> SUFFICES ASSUME IInv, Next, NEW k \in Listable \ raced
               PROVE  /\ rows'[k].listed # rows[k].listed => todo'["admin"] # todo["admin"]
                      /\ rows'[k].dayTvl < rows[k].dayTvl => rows'[k].day # rows[k].day
    OBVIOUS
  <2>1. rows[k].dayTvl \in Nat
    BY DEF IInv, Rows, Fits, Listable, PairRow, TokenRow
  <2>2. CASE rows'[k] = rows[k]
    BY <2>1, <2>2
  <2>3. ASSUME NEW a \in Actor, Step(a)
        PROVE  /\ rows'[k].listed # rows[k].listed => todo'["admin"] # todo["admin"]
               /\ rows'[k].dayTvl < rows[k].dayTvl => rows'[k].day # rows[k].day
    BY <2>2, <2>3, StepOwn DEF Own
  <2>4. ASSUME ~ \E a \in Actor : Step(a) PROVE rows' = rows
    BY <2>4 DEF Next, Fail, Abandon, Deliver, Acknowledge, Restart, Rewind, Lose, StartReplay,
                ReplayNext, StopReplay, StartCron, Administer, Midnight
  <2> QED
    BY <2>2, <2>3, <2>4
<1>2. OwnColumns <=> [][Kept]_vars
  BY DEF OwnColumns
<1> QED
  BY <1>1, <1>2, Inductive, PTL DEF Spec
=============================================================================
