------------------------ MODULE OhlcvBuckets_proofs ------------------------
(***************************************************************************)
(* Theorems about the streams of candles.                                  *)
(***************************************************************************)
EXTENDS OhlcvBuckets, WellFoundedInduction, TLAPS

Opened == \E a \in Actor : tx[a] # Idle
Index(s) == rows[s].index
Sorted(S) == \A s, t \in S : s < t => Index(s) < Index(t)
New == Starts' \ Starts

\* Windows are of the past, indices are not given twice.
Bounds ==
  /\ Starts \subseteq 0..now /\ cursor.start <= now
  /\ Distinct(rows) /\ (cursor # None => cursor.index > 0)
  /\ changed <= now
  /\ \A a \in Actor : tx[a] # Idle =>
       tx[a].w <= now /\ tx[a].w % period = 0 /\ tx[a].swap \in Price \cup {NoSwap}

\* Without a cursor nothing has happened yet.
Before ==
  cursor = None =>
    Starts = {} /\ unlocked = {} /\ holes = {} /\ \A w \in Time : counted[w] = 0

CursorRow ==
  cursor # None =>
    /\ cursor.start \in Starts \cup holes \/ cursor.start < pruned
    /\ cursor.start \in Starts /\ holes = {} => Index(cursor.start) = cursor.index

\* A candle whose low is not known has no open either.
Quoted(r) == Candle(r) /\ (r.low = 0 => r.open = 0)

\* Row r of window w goes on from the row before.
Joins(r, w) ==
  ~Disturbed =>
    \A s \in Starts : Adjacent(s, w) /\ s \notin late \cup unlocked => GoesOn(rows[s], r)

Linked == \A t \in Starts : Joins(rows[t], t)

\* What a transaction without a lock has read is a row of its window still.
Read(x) ==
  /\ x.pc \in {"merge", "write"} => x.w \in Starts /\ Index(x.w) = x.index
  /\ x.pc = "write" => \E r \in Row : x.found = {r} /\ r.index = x.index /\ Quoted(r) /\ Joins(r, x.w)

\* The rows a transaction without a lock has left beyond the cursor.
AheadOrder ==
  /\ \A t \in Starts : t > cursor.start => Index(t) > cursor.index
  /\ Sorted({t \in Starts : t > cursor.start})

\* As long as a transaction without a lock is open nothing has been pruned.
Dense ==
  Opened /\ cursor # None =>
    /\ Sorted(Starts) /\ \A t \in Starts : \A k \in 1..Index(t) : HasIndex(k)
    /\ \E s \in Starts : Index(s) = cursor.index

\* With every transaction locked the cursor is at the end, and nothing is left out.
Locked ==
  unlocked = {} =>
    /\ Sorted(Starts) /\ \A s \in Starts : s <= cursor.start /\ Index(s) <= cursor.index
    /\ holes = {} => \A s, t \in Starts : Adjacent(s, t) =>
         (\E p \in Periods : t <= s + p) /\ Index(t) = Index(s) + 1

\* With one period and no hole, windows and indices are both an arithmetic series.
OnGrid(s) == \E i \in Int : s = Bucket(i) /\ Index(s) = cursor.index + i

Regular ==
  holes = {} /\ changed = 0 => cursor.start % period = 0 /\ \A s \in Starts : OnGrid(s)

\* The windows on the way of the cursor have rows, or are holes.
Passed ==
  \A u \in Time :
    u % period = 0 /\ u >= changed /\ u >= pruned =>
      /\ u > cursor.start /\ (\E t \in Starts : u <= t) => u \in Starts \cup holes
      /\ u <= cursor.start /\ (\E s \in Starts : s <= u) => u \in Starts \cup holes

Tallied ==
  \A u \in Time :
    u >= changed /\ u >= pruned /\ u \notin holes \cup unlocked =>
      /\ u \in Starts => rows[u].count = counted[u]
      /\ u \notin Starts /\ counted[u] > 0 => u < cursor.start /\ \A s \in Starts : u < s

IInv ==
  /\ TypeOK /\ Bounds /\ Before /\ CursorRow
  /\ (\A s \in Starts : Quoted(rows[s])) /\ Linked /\ (\A a \in Actor : Read(tx[a]))
  /\ AheadOrder /\ Dense /\ Locked /\ Regular /\ Passed /\ Tallied

-----------------------------------------------------------------------------
(* Arithmetic.                                                             *)

LEMMA Least ==
  ASSUME NEW S \in SUBSET Nat, S # {}
  PROVE  \E x \in S : \A y \in S : x <= y
<1> DEFINE R == OpToRel(<, Nat)
<1>1. \A x, y \in Nat : y < x => <<y, x>> \in R
  BY DEF OpToRel
<1>2. IsWellFoundedOn(R, Nat)
  BY NatLessThanWellFounded
<1> HIDE DEF R
<1>3. PICK x \in S : \A y \in S : ~(<<y, x>> \in R)
  BY <1>2, WFMin
<1>4. \A y \in S : ~(y < x)
  BY <1>1, <1>3, Zenon
<1> QED
  BY <1>4


LEMMA Greatest ==
  ASSUME NEW n \in Nat, NEW S, S \subseteq 0..n, S # {}
  PROVE  Max(S) \in S /\ \A y \in S : Max(S) >= y
<1> DEFINE D == {n - y : y \in S}
<1>1. PICK d \in D : \A e \in D : d <= e
  <2>1. D \in SUBSET Nat /\ D # {}
    <3>1. \A y \in S : n - y \in Nat
      OBVIOUS
    <3> QED
      BY <3>1
  <2> HIDE DEF D
  <2> QED
    BY <2>1, Least
<1>2. PICK x \in S : d = n - x
  OBVIOUS
<1>3. \A y \in S : x >= y
  <2> TAKE y \in S
  <2>1. n - y \in D /\ y \in Nat /\ x \in Nat
    OBVIOUS
  <2>2. n - x <= n - y
    BY <1>1, <1>2, <2>1
  <2> QED
    BY <2>1, <2>2
<1> QED
  BY <1>3 DEF Max

LEMMA Divided ==
  ASSUME NEW a \in Nat, NEW p \in Nat \ {0}
  PROVE  /\ a \div p \in Nat /\ (a \div p) * p <= a /\ a < (a \div p) * p + p
         /\ a % p \in Nat /\ a % p < p /\ a = (a \div p) * p + (a % p)
  OBVIOUS

LEMMA Grow ==
  ASSUME NEW i \in Int, NEW j \in Int, i < j, NEW p \in Nat \ {0}
  PROVE  i * p + p <= j * p
  OBVIOUS

LEMMA Multiple ==
  ASSUME NEW i \in Nat, NEW p \in Nat \ {0}
  PROVE  (i * p) \div p = i /\ (i * p) % p = 0
  OBVIOUS

LEMMA Onward ==
  ASSUME NEW a \in Nat, NEW b \in Nat, NEW p \in Nat \ {0}, a % p = 0, b % p = 0, a <= b
  PROVE  b = a + ((b - a) \div p) * p
<1>1. a = (a \div p) * p /\ b = (b \div p) * p /\ a \div p \in Nat /\ b \div p \in Nat
  BY Divided
<1> DEFINE x == a \div p
           y == b \div p
<1> HIDE DEF x, y
<1>2. x <= y
  <2>1. y \in Nat /\ x \in Nat /\ a = x * p /\ b = y * p
    BY <1>1 DEF x, y
  <2>2. ASSUME y < x PROVE FALSE
    BY <2>1, <2>2, Grow
  <2> QED
    BY <2>1, <2>2
<1>3. y - x \in Nat /\ b - a = (y - x) * p
  BY <1>1, <1>2 DEF x, y
<1>4. (b - a) \div p = y - x
  BY <1>3, Multiple
<1> QED
  BY <1>1, <1>3, <1>4

LEMMA Aligned ==
  ASSUME period \in Nat \ {0}, NEW t \in Nat
  PROVE  /\ alignBucketStart(t) \in 0..t /\ alignBucketStart(t) % period = 0
<1>1. alignBucketStart(t) = (t \div period) * period /\ t \div period \in Nat
  BY Divided DEF alignBucketStart
<1>2. (t % period) \in Nat /\ t = (t \div period) * period + (t % period) /\ (t \div period) * period <= t
  BY Divided
<1>3. (t \div period) * period \in Nat
  BY <1>1
<1>4. ((t \div period) * period) % period = 0
  BY <1>1, Multiple
<1> HIDE DEF alignBucketStart
<1> QED
  BY <1>1, <1>2, <1>3, <1>4

-----------------------------------------------------------------------------
(* Rows.                                                                   *)

Swap == Price \cup {NoSwap}

LEMMA SwapType == Swap \subseteq Nat /\ \A x \in Swap : x # NoSwap => x > 0
  BY OhlcvAssumption DEF Swap, NoSwap

\* Finitely many rows have a last one, whatever their indices.
LEMMA LastRow ==
  ASSUME Starts \subseteq Time, Starts # {}, \A s \in Starts : rows[s].index \in Nat
  PROVE  \E x \in Starts : \A y \in Starts : Index(y) <= Index(x)
<1> DEFINE Top(m, x) == \A y \in Starts : y < m => Index(y) <= Index(x)
           T == {m \in 0..MaxTime + 1 : \E x \in Starts : Top(m, x)}
<1>0. MaxTime \in Nat
  BY OhlcvAssumption
<1>1. 0 \in T
  <2>1. \A y \in Starts : ~(y < 0)
    BY DEF Time
  <2>2. \E x \in Starts : Top(0, x)
    BY <2>1
  <2>3. 0 \in 0..MaxTime + 1
    BY <1>0
  <2> HIDE DEF Top
  <2> QED
    BY <2>2, <2>3
<1>2. Max(T) \in T /\ \A y \in T : Max(T) >= y
  <2>1. T \subseteq 0..MaxTime + 1 /\ T # {}
    BY <1>1
  <2>2. MaxTime + 1 \in Nat
    BY <1>0
  <2> HIDE DEF T
  <2> QED
    BY <2>1, <2>2, Greatest
<1>3. PICK m \in T : \A y \in T : m >= y
  BY <1>2
<1>4. PICK x \in Starts : Top(m, x)
  BY <1>3
<1>5. ASSUME m <= MaxTime PROVE FALSE
  <2>1. m + 1 \in 0..MaxTime + 1 /\ m \in Nat
    BY <1>0, <1>3, <1>5
  <2>2. \E z \in Starts : Top(m + 1, z)
    <3>1. CASE m \in Starts /\ Index(m) > Index(x)
      <4>1. \A y \in Starts : y < m + 1 => Index(y) <= Index(m)
        BY <1>4, <3>1, <2>1 DEF Index, Time
      <4> QED
        BY <4>1, <3>1
    <3>2. CASE ~(m \in Starts /\ Index(m) > Index(x))
      <4>1. \A y \in Starts : y < m + 1 => Index(y) <= Index(x)
        BY <1>4, <3>2, <2>1 DEF Index, Time
      <4> QED
        BY <4>1
    <3> QED
      BY <3>1, <3>2
  <2>3. m + 1 \in T
    BY <2>1, <2>2
  <2> HIDE DEF T, Top
  <2> QED
    BY <1>3, <2>1, <2>3
<1>6. \A y \in Starts : y < m
  BY <1>0, <1>3, <1>5 DEF Time
<1> QED
  BY <1>4, <1>6

LEMMA TailType ==
  ASSUME Starts \subseteq Time, \A s \in Starts : rows[s] \in Row
  PROVE  Tail.close \in Nat /\ Tail.total \in Nat
<1>1. CASE Starts = {}
  BY <1>1 DEF Tail
<1>2. CASE Starts # {}
  <2> DEFINE Last(x) == \A y \in Starts : rows[y].index <= rows[x].index
  <2>1. \E x \in Starts : Last(x)
    BY <1>2, LastRow DEF Row, Index
  <2>2. PICK s \in Starts : s = CHOOSE x \in Starts : Last(x)
    BY <2>1
  <2>3. Tail = [close |-> rows[s].close, total |-> rows[s].total]
    BY <1>2, <2>2 DEF Tail
  <2> QED
    BY <2>3 DEF Row
<1> QED
  BY <1>1, <1>2

\* In a sorted table the tail is the latest row.
LEMMA LatestTail ==
  ASSUME Starts \subseteq Time, \A s \in Starts : rows[s] \in Row, Sorted(Starts),
         NEW s \in Starts, \A y \in Starts : y <= s
  PROVE  Tail.close = rows[s].close /\ Tail.total = rows[s].total
<1> DEFINE Last(x) == \A y \in Starts : rows[y].index <= rows[x].index
<1>1. \A y \in Starts : y # s => y < s /\ Index(y) < Index(s)
  BY DEF Sorted, Time
<1>2. Last(s)
  BY <1>1 DEF Index, Row
<1>3. ASSUME NEW x \in Starts, Last(x) PROVE x = s
  BY <1>1, <1>3 DEF Index, Row
<1>4. (CHOOSE x \in Starts : Last(x)) = s
  BY <1>2, <1>3
<1>5. Tail = [close |-> rows[s].close, total |-> rows[s].total]
  BY <1>4 DEF Tail
<1> QED
  BY <1>5

LEMMA NewRowType ==
  ASSUME NEW i \in Nat \ {0}, NEW x \in Swap, NEW tail, tail.close \in Nat, tail.total \in Nat
  PROVE  /\ NewRow(i, x, tail) \in Row /\ NewRow(i, x, tail).index = i
         /\ Quoted(NewRow(i, x, tail))
         /\ NewRow(i, x, tail).count = (IF x = NoSwap THEN 0 ELSE 1)
<1> DEFINE p == IF x = NoSwap THEN tail.close ELSE x
           n == IF x = NoSwap THEN 0 ELSE 1
<1>1. p \in Nat /\ n \in Nat /\ tail.total + n \in Nat
  BY SwapType
<1>2. NewRow(i, x, tail) = [index |-> i, open |-> p, high |-> p, low |-> p, close |-> p,
                            count |-> n, total |-> tail.total + n]
  BY DEF NewRow
<1> HIDE DEF p
<1> QED
  BY <1>1, <1>2 DEF Row, Quoted, Candle

LEMMA NewRowJoins ==
  ASSUME NEW i, NEW x, NEW r, NEW tail, tail.close = r.close, tail.total = r.total
  PROVE  GoesOn(r, NewRow(i, x, tail))
  BY DEF GoesOn, NewRow

LEMMA MergedType ==
  ASSUME NEW r \in Row, NEW x \in Swap
  PROVE  /\ Merged(r, x) \in Row /\ Merged(r, x).index = r.index
         /\ Quoted(r) => Quoted(Merged(r, x))
         /\ Merged(r, x).count = r.count + (IF x = NoSwap THEN 0 ELSE 1)
<1>1. CASE x = NoSwap
  BY <1>1 DEF Merged, Row
<1>2. CASE x # NoSwap
  <2> DEFINE h == IF r.high > x THEN r.high ELSE x
             l == IF r.low = 0 THEN x ELSE IF r.low < x THEN r.low ELSE x
  <2>1. x \in Nat /\ x > 0 /\ r.high \in Nat /\ r.low \in Nat /\ r.open \in Nat
    BY <1>2, SwapType DEF Row
  <2>2. Merged(r, x) = [index |-> r.index, open |-> r.open, high |-> h, low |-> l, close |-> x,
                        count |-> r.count + 1, total |-> r.total + 1]
    BY <1>2 DEF Merged, Row, Larger, Smaller
  <2>3. h \in Nat /\ l \in Nat /\ r.count + 1 \in Nat /\ r.total + 1 \in Nat
    BY <2>1 DEF Row
  <2>4. h >= x /\ h >= r.high /\ l <= x /\ l > 0 /\ (r.low # 0 => l <= r.low)
    BY <2>1
  <2> HIDE DEF h, l
  <2>5. Merged(r, x) \in Row
    BY <2>1, <2>2, <2>3 DEF Row
  <2>6. Quoted(r) => Quoted(Merged(r, x))
    BY <2>1, <2>2, <2>3, <2>4 DEF Quoted, Candle
  <2> QED
    BY <1>2, <2>2, <2>5, <2>6
<1> QED
  BY <1>1, <1>2

LEMMA MergedJoins ==
  ASSUME NEW q \in Row, NEW r \in Row, NEW x \in Swap, GoesOn(q, r)
  PROVE  GoesOn(q, Merged(r, x))
<1>1. CASE x = NoSwap
  BY <1>1 DEF Merged
<1>2. CASE x # NoSwap
  <2>1. Merged(r, x).count = r.count + 1 /\ Merged(r, x).total = r.total + 1
    BY <1>2 DEF Merged, Row
  <2>2. r.count \in Nat /\ r.total \in Nat /\ q.total \in Nat /\ r.total = q.total + r.count
    BY DEF Row, GoesOn
  <2> QED
    BY <2>1, <2>2 DEF GoesOn
<1> QED
  BY <1>1, <1>2

-----------------------------------------------------------------------------
(* Filling up to a window beyond the cursor.                               *)

LEMMA Numbers ==
  ASSUME TypeOK
  PROVE  /\ period \in Nat \ {0} /\ MAX_GAP_STEPS \in Nat \ {0} /\ MaxTime \in Nat
         /\ Time \subseteq Nat /\ cursor.start \in Time /\ cursor.start \in Nat /\ cursor.index \in Nat
         /\ now \in Nat /\ now <= MaxTime
         /\ \A s \in Starts : s \in Time /\ s \in Nat /\ rows[s] \in Row /\ Index(s) \in Nat \ {0}
  BY OhlcvAssumption DEF TypeOK, Time, Row, Index

LEMMA Gap ==
  ASSUME TypeOK, NEW w \in Time, w > cursor.start
  PROVE  /\ Steps(w) \in 0..MAX_GAP_STEPS
         /\ \A i \in 1..Steps(w) : /\ Bucket(i) \in Nat /\ cursor.start < Bucket(i) /\ Bucket(i) <= w
                                   /\ (Bucket(i) - cursor.start) \div period = i
         /\ \A i, j \in Nat : i < j => Bucket(i) + period <= Bucket(j)
         /\ w \in GapFill(w) => Steps(w) \in 1..MAX_GAP_STEPS /\ w = Bucket(Steps(w))
         /\ Steps(w) = 0 => w < cursor.start + period
         /\ w \notin GapFill(w) /\ cursor.start % period = 0 /\ w % period = 0 =>
              w - cursor.start > MAX_GAP_STEPS * period
<1> DEFINE c == cursor.start  d == w - c  k == d \div period  n == Steps(w)
<1>1. /\ period \in Nat \ {0} /\ MAX_GAP_STEPS \in Nat \ {0} /\ c \in Nat /\ w \in Nat
      /\ d \in Nat /\ d > 0 /\ w = c + d
  BY Numbers
<1>2. k \in Nat /\ k * period <= d /\ d < k * period + period
  BY <1>1, Divided
<1>3. n \in 0..MAX_GAP_STEPS /\ n <= k /\ (n = k \/ n = MAX_GAP_STEPS)
  BY <1>1, <1>2 DEF Steps, Smaller
<1> HIDE DEF k, n
<1>4. \A i, j \in Nat : i < j => Bucket(i) + period <= Bucket(j)
  <2> TAKE i, j \in Nat
  <2> HAVE i < j
  <2>1. i * period + period <= j * period /\ i * period \in Nat /\ j * period \in Nat
    BY <1>1, Grow
  <2> HIDE DEF d
  <2> QED
    BY <2>1, <1>1 DEF Bucket
<1>5. ASSUME NEW i \in 1..n
      PROVE  /\ Bucket(i) \in Nat /\ c < Bucket(i) /\ Bucket(i) <= w
             /\ (Bucket(i) - c) \div period = i
  <2>1. i \in Nat /\ i > 0 /\ i <= k
    BY <1>2, <1>3
  <2>2. i * period \in Nat /\ (i * period) \div period = i
    BY <1>1, <2>1, Multiple
  <2>3. period <= i * period
    <3>1. 0 * period + period <= i * period
      BY <2>1, <1>1, Grow
    <3>2. 0 * period = 0
      BY <1>1
    <3> QED
      BY <3>1, <3>2, <1>1, <2>2
  <2>4. i * period <= k * period
    <3>1. CASE i = k
      BY <3>1, <2>2
    <3>2. CASE i < k
      <4>1. i * period + period <= k * period /\ k * period \in Nat
        BY <3>2, <2>1, <1>1, <1>2, Grow
      <4> QED
        BY <4>1, <2>2, <1>1
    <3> QED
      BY <3>1, <3>2, <2>1, <1>2
  <2>5. k * period \in Nat
    BY <1>1, <1>2
  <2>6. Bucket(i) = c + i * period /\ Bucket(i) - c = i * period
    BY <1>1, <2>2 DEF Bucket
  <2> HIDE DEF d
  <2> QED
    BY <1>1, <1>2, <2>2, <2>3, <2>4, <2>5, <2>6
<1>6. ASSUME w \in GapFill(w) PROVE n \in 1..MAX_GAP_STEPS /\ w = Bucket(n)
  <2>1. PICK i \in 1..n : w = Bucket(i)
    BY <1>6 DEF GapFill, n
  <2>2. i \in Nat /\ n \in Nat /\ n >= 1 /\ i <= n
    BY <1>3
  <2>3. ASSUME i < n PROVE FALSE
    <3>1. Bucket(i) + period <= Bucket(n) /\ Bucket(n) <= w /\ Bucket(n) \in Nat
      BY <1>4, <1>5, <2>2, <2>3
    <3> QED
      BY <3>1, <2>1, <1>1
  <2>4. i = n
    BY <2>2, <2>3
  <2> QED
    BY <2>1, <2>2, <2>4, <1>3
<1>7. ASSUME n = 0 PROVE w < c + period
  <2>1. k = 0 /\ k * period = 0
    BY <1>1, <1>2, <1>3, <1>7
  <2> HIDE DEF d
  <2> QED
    BY <2>1, <1>2, <1>1
<1>8. ASSUME w \notin GapFill(w), c % period = 0, w % period = 0
      PROVE  d > MAX_GAP_STEPS * period
  <2>1. w = c + k * period
    <3>1. c <= w /\ c % period = 0 /\ w % period = 0
      BY <1>1, <1>8
    <3> HIDE DEF c
    <3> QED
      BY <1>1, <3>1, Onward DEF k
  <2>2. w = Bucket(k)
    BY <2>1 DEF Bucket
  <2>3. k # 0
    BY <2>1, <1>1
  <2>4. n # k
    <3>1. ASSUME n = k PROVE FALSE
      <4>1. n \in 1..n
        BY <1>2, <2>3, <3>1
      <4> QED
        BY <4>1, <3>1, <2>2, <1>8 DEF GapFill, n
    <3> QED
      BY <3>1
  <2>5. MAX_GAP_STEPS < k
    BY <1>1, <1>2, <1>3, <2>4
  <2>6. MAX_GAP_STEPS * period + period <= k * period
    BY <1>1, <1>2, <2>5, Grow
  <2>7. MAX_GAP_STEPS * period \in Nat /\ k * period \in Nat
    BY <1>1, <1>2
  <2> HIDE DEF d
  <2> QED
    BY <2>6, <2>7, <1>1, <1>2
<1> QED
  BY <1>3, <1>4, <1>5, <1>6, <1>7, <1>8 DEF n

Known(j) == j = 0 \/ Bucket(j) \in Starts
Base(j) == IF j = 0 THEN cursor.index ELSE rows[Bucket(j)].index
NoneIn(j, i) == \A k \in Nat : j < k /\ k <= i => Bucket(k) \notin Starts

LEMMA IndexFrom ==
  ASSUME NEW i \in Nat, NEW j \in 0..i, Known(j), NoneIn(j, i)
  PROVE  IndexAfter(i) = Base(j) + (i - j)
<1> DEFINE S == {k \in 0..i : k = 0 \/ Bucket(k) \in Starts}
<1>1. j \in S
  BY DEF Known
<1>2. \A k \in S : k <= j
  <2> TAKE k \in S
  <2>1. k \in Nat /\ j \in Nat /\ k <= i /\ (k = 0 \/ Bucket(k) \in Starts)
    OBVIOUS
  <2> QED
    BY <2>1 DEF NoneIn
<1>3. \A x \in S : (\A y \in S : x >= y) => x = j
  BY <1>1, <1>2
<1>4. \A y \in S : j >= y
  BY <1>1, <1>2
<1>5. (CHOOSE x \in S : \A y \in S : x >= y) = j
  <2> HIDE DEF S
  <2> QED
    BY <1>1, <1>3, <1>4
<1>6. Max(S) = j
  BY <1>5 DEF Max
<1> QED
  BY <1>6 DEF IndexAfter, Base

LEMMA LastKnown ==
  ASSUME NEW i \in Nat
  PROVE  \E j \in 0..i : Known(j) /\ NoneIn(j, i)
<1> DEFINE S == {k \in 0..i : Known(k)}
<1>1. 0 \in S
  BY DEF Known
<1>2. Max(S) \in S /\ \A y \in S : Max(S) >= y
  <2>1. S \subseteq 0..i /\ S # {}
    BY <1>1
  <2> HIDE DEF S
  <2> QED
    BY <2>1, Greatest
<1>3. PICK j \in S : \A y \in S : j >= y
  BY <1>2
<1>4. NoneIn(j, i)
  <2> SUFFICES ASSUME NEW k \in Nat, j < k, k <= i, Bucket(k) \in Starts PROVE FALSE
    BY DEF NoneIn
  <2>1. k \in S
    BY DEF Known
  <2> QED
    BY <1>3, <2>1
<1> QED
  BY <1>3, <1>4

LEMMA FilledRows ==
  ASSUME TypeOK, NEW w \in Time, w > cursor.start, NEW x \in Swap
  PROVE  /\ DOMAIN Filled(w, x) = Starts \cup GapFill(w)
         /\ \A s \in Starts :
              /\ Filled(w, x)[s] = IF s \in GapFill(w) /\ s = w THEN Merged(rows[s], x) ELSE rows[s]
              /\ Filled(w, x)[s].index = Index(s)
         /\ \A i \in 1..Steps(w) : Bucket(i) \notin Starts =>
              Filled(w, x)[Bucket(i)] = NewRow(IndexAfter(i), IF Bucket(i) = w THEN x ELSE NoSwap, Tail)
<1>1. DOMAIN Filled(w, x) = Starts \cup GapFill(w)
  BY DEF Filled
<1>2. ASSUME NEW s \in Starts
      PROVE  /\ Filled(w, x)[s] = IF s \in GapFill(w) /\ s = w THEN Merged(rows[s], x) ELSE rows[s]
             /\ Filled(w, x)[s].index = Index(s)
  <2>1. Filled(w, x)[s] = IF s \in GapFill(w) /\ s = w THEN Merged(rows[s], x) ELSE rows[s]
    BY DEF Filled
  <2>2. Merged(rows[s], x).index = rows[s].index
    BY Numbers, MergedType
  <2> QED
    BY <2>1, <2>2 DEF Index
<1>3. ASSUME NEW i \in 1..Steps(w), Bucket(i) \notin Starts
      PROVE  Filled(w, x)[Bucket(i)] = NewRow(IndexAfter(i), IF Bucket(i) = w THEN x ELSE NoSwap, Tail)
  <2>1. Bucket(i) \in GapFill(w)
    BY DEF GapFill
  <2>2. (Bucket(i) - cursor.start) \div period = i
    BY Gap
  <2>3. PICK s : s = Bucket(i)
    OBVIOUS
  <2>4. Filled(w, x)[s] = NewRow(IndexAfter((s - cursor.start) \div period),
                                 IF s = w THEN x ELSE NoSwap, Tail)
    BY <1>3, <2>1, <2>3 DEF Filled
  <2> QED
    BY <2>2, <2>3, <2>4
<1> QED
  BY <1>1, <1>2, <1>3

\* What is known of the indices without looking at the table that results.
LEMMA IndexBound ==
  ASSUME TypeOK, AheadOrder, NEW w \in Time, w > cursor.start
  PROVE  /\ IndexAfter(0) = cursor.index
         /\ \A i \in 1..Steps(w) :
              /\ IndexAfter(i) \in Nat /\ IndexAfter(i) > cursor.index
              /\ Bucket(i) \in Starts => IndexAfter(i) = Index(Bucket(i))
         /\ LastOfGap(w) \in Nat
<1> USE Numbers
<1>1. IndexAfter(0) = cursor.index
  <2>1. Known(0) /\ NoneIn(0, 0) /\ Base(0) = cursor.index
    BY DEF Known, NoneIn, Base
  <2> QED
    BY <2>1, IndexFrom
<1>2. ASSUME NEW i \in 1..Steps(w)
      PROVE  /\ IndexAfter(i) \in Nat /\ IndexAfter(i) > cursor.index
             /\ Bucket(i) \in Starts => IndexAfter(i) = Index(Bucket(i))
  <2>0. Steps(w) \in Nat /\ i \in Nat /\ i > 0
    BY Gap
  <2>1. PICK j \in 0..i : Known(j) /\ NoneIn(j, i)
    BY <2>0, LastKnown
  <2>2. IndexAfter(i) = Base(j) + (i - j)
    BY <2>0, <2>1, IndexFrom
  <2>3. Base(j) \in Nat /\ Base(j) >= cursor.index /\ (j # 0 => Base(j) > cursor.index)
    <3>1. CASE j = 0
      BY <3>1 DEF Base
    <3>2. CASE j # 0
      <4>1. Bucket(j) \in Starts /\ j \in 1..Steps(w)
        BY <2>0, <2>1, <3>2 DEF Known
      <4>2. Bucket(j) > cursor.start
        BY <4>1, Gap
      <4> QED
        BY <4>1, <4>2, <3>2 DEF Base, AheadOrder, Index
    <3> QED
      BY <3>1, <3>2
  <2>4. IndexAfter(i) \in Nat /\ IndexAfter(i) > cursor.index
    BY <2>0, <2>2, <2>3
  <2>5. ASSUME Bucket(i) \in Starts PROVE IndexAfter(i) = Index(Bucket(i))
    <3>1. Known(i) /\ NoneIn(i, i) /\ Base(i) = Index(Bucket(i))
      BY <2>0, <2>5 DEF Known, NoneIn, Base, Index
    <3>2. Index(Bucket(i)) \in Nat
      BY <2>5
    <3> QED
      BY <2>0, <3>1, <3>2, IndexFrom
  <2> QED
    BY <2>4, <2>5
<1>3. LastOfGap(w) \in Nat
  <2>1. Steps(w) = 0 \/ Steps(w) \in 1..Steps(w)
    BY Gap
  <2> QED
    BY <1>1, <1>2, <2>1 DEF LastOfGap
<1> QED
  BY <1>1, <1>2, <1>3

LEMMA Missed ==
  ASSUME TypeOK, AheadOrder, NEW w \in Time, w > cursor.start
  PROVE  Misaligned(w) <=> Steps(w) = 0
<1>1. Steps(w) = 0 \/ Steps(w) \in 1..Steps(w)
  BY Gap
<1> QED
  BY <1>1, IndexBound, Numbers DEF Misaligned, LastOfGap

\* As no index is given twice, the rows beyond a bucket have greater ones.
LEMMA GapOrder ==
  ASSUME TypeOK, AheadOrder, NEW w \in Time, w > cursor.start, NEW x \in Swap,
         Distinct(Filled(w, x))
  PROVE  /\ \A i \in 0..Steps(w), t \in Starts : t > Bucket(i) => Index(t) > IndexAfter(i)
         /\ \A i, j \in 0..Steps(w) : i < j => IndexAfter(i) < IndexAfter(j)
<1>a. /\ DOMAIN Filled(w, x) = Starts \cup GapFill(w)
      /\ \A s \in Starts : Filled(w, x)[s].index = Index(s)
      /\ \A i \in 1..Steps(w) : Bucket(i) \notin Starts =>
           Filled(w, x)[Bucket(i)] = NewRow(IndexAfter(i), IF Bucket(i) = w THEN x ELSE NoSwap, Tail)
  BY FilledRows
<1> USE Numbers
<1>0. Steps(w) \in Nat /\ Bucket(0) = cursor.start
  BY Gap DEF Bucket
<1>1. ASSUME NEW i \in 0..Steps(w), NEW t \in Starts, t > Bucket(i)
      PROVE  Index(t) > IndexAfter(i)
  <2>0. i \in Nat /\ i <= Steps(w)
    BY <1>0
  <2>1. PICK j \in 0..i : Known(j) /\ NoneIn(j, i)
    BY <2>0, LastKnown
  <2>2. IndexAfter(i) = Base(j) + (i - j)
    BY <2>0, <2>1, IndexFrom
  <2>3. t > Bucket(j) /\ t > cursor.start /\ Bucket(j) \in Nat
    <3>1. Bucket(j) \in Nat /\ Bucket(i) \in Nat /\ Bucket(j) >= cursor.start
      <4>1. j = 0 \/ j \in 1..Steps(w)
        BY <1>0, <2>0
      <4>2. i = 0 \/ i \in 1..Steps(w)
        BY <1>0, <2>0
      <4> QED
        BY <4>1, <4>2, <1>0, Gap
    <3>2. Bucket(j) <= Bucket(i)
      <4>1. CASE j = i
        BY <4>1, <3>1
      <4>2. CASE j < i
        <5>1. Bucket(j) + period <= Bucket(i)
          BY <2>0, <4>2, Gap
        <5> QED
          BY <3>1, <5>1
      <4> QED
        BY <4>1, <4>2, <2>0
    <3> QED
      BY <3>1, <3>2, <1>1
  <2>4. Base(j) \in Nat /\ Index(t) > Base(j)
    <3>1. CASE j = 0
      BY <3>1, <2>3 DEF Base, AheadOrder
    <3>2. CASE j # 0
      <4>1. Bucket(j) \in Starts /\ Bucket(j) > cursor.start
        <5>1. j \in 1..Steps(w)
          BY <1>0, <2>0, <3>2
        <5> QED
          BY <5>1, <2>1, <3>2, Gap DEF Known
      <4> QED
        BY <4>1, <2>3, <3>2 DEF Base, AheadOrder, Sorted, Index
    <3> QED
      BY <3>1, <3>2
  <2>5. ASSUME Index(t) <= Base(j) + (i - j) PROVE FALSE
    <3> DEFINE k == j + (Index(t) - Base(j))
    <3>1. k \in Nat /\ j < k /\ k <= i /\ k \in 1..Steps(w)
      BY <2>0, <2>4, <2>5, <1>0
    <3>2. NoneIn(j, k) /\ j \in 0..k
      BY <2>1, <2>0, <3>1 DEF NoneIn
    <3>3. IndexAfter(k) = Base(j) + (k - j)
      <4> HIDE DEF k
      <4> QED
        BY <3>1, <3>2, <2>1, IndexFrom
    <3>4. IndexAfter(k) = Index(t)
      BY <3>3, <2>4
    <3>5. Bucket(k) \notin Starts /\ Bucket(k) \in GapFill(w)
      <4> HIDE DEF k
      <4> QED
        BY <3>1, <2>1 DEF NoneIn, GapFill
    <3>6. Filled(w, x)[Bucket(k)].index = IndexAfter(k)
      <4> HIDE DEF k
      <4>1. Filled(w, x)[Bucket(k)] = NewRow(IndexAfter(k), IF Bucket(k) = w THEN x ELSE NoSwap, Tail)
        BY <3>1, <3>5, <1>a
      <4> QED
        BY <4>1 DEF NewRow
    <3>7. Filled(w, x)[t].index = Index(t)
      BY <1>a
    <3>8. Bucket(k) \in DOMAIN Filled(w, x) /\ t \in DOMAIN Filled(w, x)
      <4> HIDE DEF k
      <4> QED
        BY <3>5, <1>a
    <3>9. Bucket(k) = t
      <4> HIDE DEF k
      <4> QED
        BY <3>4, <3>6, <3>7, <3>8 DEF Distinct
    <3> HIDE DEF k
    <3> QED
      BY <3>5, <3>9
  <2> QED
    BY <2>0, <2>2, <2>4, <2>5
<1>2. ASSUME NEW i \in 0..Steps(w), NEW j \in 0..Steps(w), i < j
      PROVE  IndexAfter(i) < IndexAfter(j)
  <2>0. i \in Nat /\ j \in Nat /\ i <= Steps(w) /\ j <= Steps(w) /\ j \in 1..Steps(w)
    BY <1>0, <1>2
  <2>1. PICK k \in 0..j : Known(k) /\ NoneIn(k, j)
    BY <2>0, LastKnown
  <2>2. IndexAfter(j) = Base(k) + (j - k) /\ IndexAfter(j) \in Nat
    BY <2>0, <2>1, IndexFrom, IndexBound
  <2>3. CASE k <= i
    <3>1. NoneIn(k, i) /\ k \in 0..i
      BY <2>0, <2>1, <2>3, <1>2 DEF NoneIn
    <3>2. IndexAfter(i) = Base(k) + (i - k)
      BY <2>0, <2>1, <3>1, IndexFrom
    <3>3. Base(k) \in Nat
      <4>1. k = 0 \/ Bucket(k) \in Starts
        BY <2>1 DEF Known
      <4> QED
        BY <4>1 DEF Base, Index
    <3> QED
      BY <2>0, <2>2, <3>2, <3>3, <1>2
  <2>4. CASE i < k
    <3>1. Bucket(k) \in Starts /\ Base(k) = Index(Bucket(k)) /\ k \in Nat
      BY <2>0, <2>1, <2>4 DEF Known, Base, Index
    <3>2. Bucket(k) > Bucket(i)
      <4>1. Bucket(i) + period <= Bucket(k)
        BY <2>0, <3>1, <2>4, Gap
      <4>2. Bucket(i) \in Nat
        <5>1. i = 0 \/ i \in 1..Steps(w)
          BY <2>0
        <5> QED
          BY <5>1, <1>0, Gap
      <4>3. Bucket(k) \in Nat
        BY <3>1
      <4> QED
        BY <4>1, <4>2, <4>3
    <3>3. Index(Bucket(k)) > IndexAfter(i) /\ Index(Bucket(k)) \in Nat
      BY <1>1, <3>1, <3>2
    <3>4. IndexAfter(i) \in Nat
      <4>1. i = 0 \/ i \in 1..Steps(w)
        BY <2>0
      <4> QED
        BY <4>1, IndexBound
    <3> QED
      BY <2>0, <2>1, <2>2, <3>1, <3>3, <3>4
  <2> QED
    BY <2>0, <2>3, <2>4
<1> QED
  BY <1>1, <1>2

-----------------------------------------------------------------------------
(* What a transaction does to the rows, and where it leaves the cursor.    *)

Takes(w, x) ==
  /\ w \in Time /\ w <= now /\ w % period = 0 /\ x \in Swap
  /\ Starts \subseteq Starts' /\ \A s \in Starts : s # w => rows'[s] = rows[s]
  /\ w \in Starts => rows'[w] = Merged(rows[w], x) \/ (rows'[w] = rows[w] /\ w \in holes')
  /\ \A u \in New :
       /\ u \in Nat /\ cursor.start <= u /\ u <= w /\ rows'[u].index \in Nat \ {0}
       /\ rows'[u] = NewRow(rows'[u].index, IF u = w THEN x ELSE NoSwap, Tail)
  /\ Distinct(rows')
  /\ Count(w, x) /\ Late(w, x) /\ holes \subseteq holes' /\ holes' \subseteq holes \cup 1..w
  /\ UNCHANGED <<now, period, unlocked, pruned, changed>>

Stays(w, x) ==
  /\ w <= cursor.start /\ (w = cursor.start => w \in Starts \/ x = NoSwap)
  /\ New = {} /\ cursor' = cursor /\ holes' = holes

Reopens(w) ==
  /\ w = cursor.start /\ w \notin Starts /\ cursor # None
  /\ New = {w} /\ rows'[w].index = cursor.index /\ cursor' = cursor /\ holes' = holes

Opens(w) ==
  /\ w > cursor.start /\ Steps(w) = 0 /\ w \notin Starts
  /\ New = {w} /\ rows'[w].index = cursor.index + 1
  /\ cursor' = [index |-> cursor.index + 1, start |-> w] /\ holes' = holes

Moves(w) ==
  /\ w > cursor.start /\ Steps(w) = 0 /\ w \in Starts
  /\ New = {} /\ cursor' = [index |-> Index(w), start |-> w] /\ holes' = holes

Fills(w, x) ==
  /\ w > cursor.start /\ Steps(w) # 0 /\ rows' = Filled(w, x)
  /\ New = GapFill(w) \ Starts
  /\ \A i \in 1..Steps(w) : Bucket(i) \in New => rows'[Bucket(i)].index = IndexAfter(i)
  /\ cursor' = [index |-> LastOfGap(w), start |-> w]
  /\ holes' = holes \cup Skipped(w)

Located(w, x) == Stays(w, x) \/ Reopens(w) \/ Opens(w) \/ Moves(w) \/ Fills(w, x)

LEMMA NewRowIndex ==
  ASSUME NEW i, NEW x, NEW tail
  PROVE  NewRow(i, x, tail).index = i
  BY DEF NewRow

LEMMA StaysStep ==
  ASSUME TypeOK, NEW w \in Time, NEW x \in Swap, w <= cursor.start,
         w = cursor.start => w \in Starts \/ x = NoSwap,
         rows' = Behind(w, x).rows, cursor' = Behind(w, x).cursor, holes' = holes
  PROVE  /\ Stays(w, x) /\ Starts' = Starts
         /\ \A s \in Starts : s # w => rows'[s] = rows[s]
         /\ w \in Starts => rows'[w] = Merged(rows[w], x)
<1>1. CASE w \in Starts
  <2>1. rows' = [rows EXCEPT ![w] = Merged(@, x)] /\ cursor' = cursor
    BY <1>1 DEF Behind
  <2> QED
    BY <1>1, <2>1 DEF Stays, New, Starts
<1>2. CASE w \notin Starts
  <2>1. rows' = rows /\ cursor' = cursor
    BY <1>2 DEF Behind
  <2> QED
    BY <1>2, <2>1 DEF Stays, New, Starts
<1> QED
  BY <1>1, <1>2

LEMMA ReopensStep ==
  ASSUME TypeOK, Bounds, NEW w \in Time, NEW x \in Swap, w = cursor.start, cursor # None,
         w \notin Starts, x # NoSwap,
         rows' = AtCursor(w, x).rows, cursor' = AtCursor(w, x).cursor, holes' = holes
  PROVE  /\ Reopens(w) /\ Starts' = Starts \cup {w}
         /\ \A s \in Starts : rows'[s] = rows[s]
         /\ rows'[w] = NewRow(cursor.index, x, Tail)
<1>1. rows' = With(rows, w, NewRow(cursor.index, x, Tail)) /\ cursor' = cursor
  BY DEF AtCursor
<1>2. Starts' = Starts \cup {w} /\ New = {w}
  BY <1>1 DEF Starts, With, New
<1>3. \A s \in Starts \cup {w} : rows'[s] = IF s = w THEN NewRow(cursor.index, x, Tail) ELSE rows[s]
  BY <1>1 DEF With, Starts
<1> QED
  BY <1>1, <1>2, <1>3, NewRowIndex DEF Reopens

\* Steps(w) = 0: nothing is filled.
LEMMA UnfilledStep ==
  ASSUME TypeOK, AheadOrder, NEW w \in Time, NEW x \in Swap, w > cursor.start, Steps(w) = 0,
         rows' = Ahead(w, x).rows, cursor' = Ahead(w, x).cursor, holes' = holes \cup Skipped(w)
  PROVE  \/ /\ Opens(w) /\ Starts' = Starts \cup {w}
            /\ \A s \in Starts : rows'[s] = rows[s]
            /\ rows'[w] = NewRow(cursor.index + 1, x, Tail)
         \/ /\ Moves(w) /\ Starts' = Starts
            /\ \A s \in Starts : s # w => rows'[s] = rows[s]
            /\ rows'[w] = Merged(rows[w], x)
<1>1. Misaligned(w) /\ GapFill(w) = {}
  BY Missed DEF GapFill
<1>2. holes' = holes
  BY <1>1 DEF Skipped
<1>3. PICK R : R = Filled(w, x)
  OBVIOUS
<1>4. DOMAIN R = Starts /\ \A s \in Starts : R[s] = rows[s] /\ R[s].index = Index(s)
  BY <1>1, <1>3, FilledRows
<1>5. CASE w \in Starts
  <2>1. rows' = [R EXCEPT ![w] = Merged(@, x)] /\ cursor' = [index |-> R[w].index, start |-> w]
    BY <1>1, <1>3, <1>4, <1>5 DEF Ahead
  <2> QED
    BY <1>2, <1>4, <1>5, <2>1 DEF Moves, New, Starts
<1>6. CASE w \notin Starts
  <2>1. /\ rows' = With(R, w, NewRow(cursor.index + 1, x, Tail))
        /\ cursor' = [index |-> cursor.index + 1, start |-> w]
    BY <1>1, <1>3, <1>4, <1>6 DEF Ahead
  <2>2. DOMAIN rows' = Starts \cup {w}
    BY <1>4, <2>1 DEF With
  <2>3. Starts' = Starts \cup {w} /\ New = {w}
    BY <2>2, <1>6 DEF Starts, New
  <2>4. \A s \in Starts \cup {w} :
          rows'[s] = IF s = w THEN NewRow(cursor.index + 1, x, Tail) ELSE R[s]
    BY <1>4, <2>1 DEF With
  <2>5. \A s \in Starts : rows'[s] = rows[s]
    BY <1>4, <1>6, <2>4
  <2>6. rows'[w] = NewRow(cursor.index + 1, x, Tail)
    BY <2>4
  <2> QED
    BY <1>2, <1>6, <2>1, <2>3, <2>5, <2>6, NewRowIndex DEF Opens
<1> QED
  BY <1>5, <1>6

LEMMA FillsStep ==
  ASSUME TypeOK, AheadOrder, NEW w \in Time, NEW x \in Swap, w > cursor.start, Steps(w) # 0,
         rows' = Ahead(w, x).rows, cursor' = Ahead(w, x).cursor, holes' = holes \cup Skipped(w)
  PROVE  /\ Fills(w, x) /\ Starts' = Starts \cup GapFill(w)
         /\ \A s \in Starts : s # w => rows'[s] = rows[s]
         /\ w \in Starts => rows'[w] = Merged(rows[w], x) \/ (rows'[w] = rows[w] /\ w \in holes')
         /\ \A i \in 1..Steps(w) : Bucket(i) \in New =>
              rows'[Bucket(i)] = NewRow(IndexAfter(i), IF Bucket(i) = w THEN x ELSE NoSwap, Tail)
<1>1. ~Misaligned(w)
  BY Missed
<1>2. rows' = Filled(w, x) /\ cursor' = [index |-> LastOfGap(w), start |-> w]
  BY <1>1 DEF Ahead
<1>a. PICK R : R = Filled(w, x)
  OBVIOUS
<1>b. /\ DOMAIN R = Starts \cup GapFill(w)
      /\ \A s \in Starts : R[s] = IF s \in GapFill(w) /\ s = w THEN Merged(rows[s], x) ELSE rows[s]
      /\ \A i \in 1..Steps(w) : Bucket(i) \notin Starts =>
           R[Bucket(i)] = NewRow(IndexAfter(i), IF Bucket(i) = w THEN x ELSE NoSwap, Tail)
  BY <1>a, FilledRows
<1>c. rows' = R
  BY <1>a, <1>2
<1>3. DOMAIN rows' = Starts \cup GapFill(w)
  BY <1>b, <1>c
<1>4. Starts' = Starts \cup GapFill(w) /\ New = GapFill(w) \ Starts
  BY <1>3 DEF Starts, New
<1>5. \A i \in 1..Steps(w) : Bucket(i) \notin Starts =>
        rows'[Bucket(i)] = NewRow(IndexAfter(i), IF Bucket(i) = w THEN x ELSE NoSwap, Tail)
  BY <1>b, <1>c
<1>6. \A s \in Starts : rows'[s] = IF s \in GapFill(w) /\ s = w THEN Merged(rows[s], x) ELSE rows[s]
  BY <1>b, <1>c
<1>7. w \notin GapFill(w) => w \in holes'
  <2>1. w \in (cursor.start + 1)..w
    BY Numbers
  <2> QED
    BY <1>1, <2>1 DEF Skipped
<1>8. \A i \in 1..Steps(w) : Bucket(i) \in New => rows'[Bucket(i)].index = IndexAfter(i)
  BY <1>4, <1>5, NewRowIndex
<1> QED
  BY <1>2, <1>4, <1>5, <1>6, <1>7, <1>8 DEF Fills

LEMMA WindowOf ==
  ASSUME TypeOK, NEW t \in 0..now
  PROVE  alignBucketStart(t) \in Time /\ alignBucketStart(t) <= t /\ alignBucketStart(t) % period = 0
<1>1. t \in Nat /\ t <= now /\ now <= MaxTime
  BY Numbers
<1>2. alignBucketStart(t) \in 0..t /\ alignBucketStart(t) % period = 0
  BY <1>1, Numbers, Aligned
<1> HIDE DEF alignBucketStart
<1> QED
  BY <1>1, <1>2, Numbers DEF Time

LEMMA AdvanceStep ==
  ASSUME TypeOK, Bounds, AheadOrder, NEW a \in Actor, NEW t \in 0..now, NEW x \in Swap,
         Advance(a, t, x)
  PROVE  \/ UNCHANGED vars
         \/ /\ UNCHANGED tx /\ cursor # None
            /\ Takes(alignBucketStart(t), x) /\ Located(alignBucketStart(t), x)
<1>1. PICK w : w = alignBucketStart(t)
  OBVIOUS
<1>2. w \in Time /\ w <= now /\ w % period = 0
  BY <1>1, WindowOf, Numbers
<1> DEFINE r == Advanced(w, x)
<1>3. /\ cursor # None /\ UNCHANGED <<now, period, tx>>
      /\ \/ Refuse
         \/ /\ Distinct(r.rows) /\ rows' = r.rows /\ cursor' = r.cursor /\ Count(w, x) /\ Late(w, x)
            /\ holes' = IF w > cursor.start THEN holes \cup Skipped(w) ELSE holes
            /\ UNCHANGED <<unlocked, pruned, changed>>
  BY <1>1 DEF Advance
<1>4. CASE Refuse
  BY <1>3, <1>4 DEF Refuse, vars, history
<1>5. CASE /\ Distinct(r.rows) /\ rows' = r.rows /\ cursor' = r.cursor /\ Count(w, x) /\ Late(w, x)
           /\ holes' = IF w > cursor.start THEN holes \cup Skipped(w) ELSE holes
           /\ UNCHANGED <<unlocked, pruned, changed>>
  <2> DEFINE Kept ==
        /\ Starts \subseteq Starts' /\ \A s \in Starts : s # w => rows'[s] = rows[s]
        /\ w \in Starts => rows'[w] = Merged(rows[w], x) \/ (rows'[w] = rows[w] /\ w \in holes')
             Added ==
        \A u \in New :
          /\ u \in Nat /\ cursor.start <= u /\ u <= w /\ rows'[u].index \in Nat \ {0}
          /\ rows'[u] = NewRow(rows'[u].index, IF u = w THEN x ELSE NoSwap, Tail)
  <2>0. w \in Nat /\ cursor.start \in Nat /\ cursor.index \in Nat /\ cursor.index > 0
    BY <1>2, <1>3, Numbers DEF Bounds
  <2>1. Located(w, x) /\ Kept /\ Added /\ holes \subseteq holes' /\ holes' \subseteq holes \cup 1..w
    <3>1. CASE w < cursor.start \/ (w = cursor.start /\ (w \in Starts \/ x = NoSwap))
      <4>1. r = Behind(w, x) /\ holes' = holes
        BY <3>1, <1>5, <2>0 DEF Advanced, AtCursor
      <4>2. rows' = Behind(w, x).rows /\ cursor' = Behind(w, x).cursor /\ w <= cursor.start
        BY <4>1, <1>5, <3>1, <2>0
      <4>3. w = cursor.start => w \in Starts \/ x = NoSwap
        BY <3>1, <2>0
      <4> HIDE DEF r
      <4>4. /\ Stays(w, x) /\ Starts' = Starts
            /\ \A s \in Starts : s # w => rows'[s] = rows[s]
            /\ w \in Starts => rows'[w] = Merged(rows[w], x)
        BY <4>1, <4>2, <4>3, <1>2, StaysStep
      <4> QED
        BY <4>1, <4>4 DEF Located, New
    <3>2. CASE w = cursor.start /\ w \notin Starts /\ x # NoSwap
      <4>1. r = AtCursor(w, x) /\ holes' = holes
        BY <3>2, <1>5, <2>0 DEF Advanced
      <4>2. rows' = AtCursor(w, x).rows /\ cursor' = AtCursor(w, x).cursor
        BY <4>1, <1>5
      <4> HIDE DEF r
      <4>3. /\ Reopens(w) /\ Starts' = Starts \cup {w}
            /\ \A s \in Starts : rows'[s] = rows[s]
            /\ rows'[w] = NewRow(cursor.index, x, Tail)
        BY <4>1, <4>2, <3>2, <1>2, <1>3, ReopensStep
      <4>4. Kept /\ New = {w} /\ rows'[w].index = cursor.index
        BY <4>3, <3>2 DEF Reopens
      <4>5. Added
        BY <4>3, <4>4, <3>2, <2>0
      <4> QED
        BY <4>1, <4>3, <4>4, <4>5 DEF Located
    <3>3. CASE w > cursor.start /\ Steps(w) = 0
      <4>1. rows' = Ahead(w, x).rows /\ cursor' = Ahead(w, x).cursor /\ holes' = holes \cup Skipped(w)
        BY <3>3, <1>5, <2>0 DEF Advanced
      <4> HIDE DEF r
      <4>2. CASE /\ Opens(w) /\ Starts' = Starts \cup {w}
                 /\ \A s \in Starts : rows'[s] = rows[s]
                 /\ rows'[w] = NewRow(cursor.index + 1, x, Tail)
        <5>1. Kept /\ New = {w} /\ rows'[w].index = cursor.index + 1 /\ holes' = holes
          BY <4>2 DEF Opens
        <5>2. Added
          BY <4>2, <5>1, <3>3, <2>0
        <5> QED
          BY <4>2, <5>1, <5>2 DEF Located
      <4>3. CASE /\ Moves(w) /\ Starts' = Starts
                 /\ \A s \in Starts : s # w => rows'[s] = rows[s]
                 /\ rows'[w] = Merged(rows[w], x)
        BY <4>3 DEF Moves, Located, New
      <4> QED
        BY <4>1, <4>2, <4>3, <3>3, <1>2, UnfilledStep
    <3>4. CASE w > cursor.start /\ Steps(w) # 0
      <4>1. rows' = Ahead(w, x).rows /\ cursor' = Ahead(w, x).cursor /\ holes' = holes \cup Skipped(w)
        BY <3>4, <1>5, <2>0 DEF Advanced
      <4> HIDE DEF r
      <4>2. /\ Fills(w, x) /\ Starts' = Starts \cup GapFill(w)
            /\ \A s \in Starts : s # w => rows'[s] = rows[s]
            /\ w \in Starts => rows'[w] = Merged(rows[w], x) \/ (rows'[w] = rows[w] /\ w \in holes')
            /\ \A i \in 1..Steps(w) : Bucket(i) \in New =>
                 rows'[Bucket(i)] = NewRow(IndexAfter(i), IF Bucket(i) = w THEN x ELSE NoSwap, Tail)
        BY <4>1, <3>4, <1>2, FillsStep
      <4>3. Added
        <5> SUFFICES ASSUME NEW u \in New
                     PROVE  /\ u \in Nat /\ cursor.start <= u /\ u <= w /\ rows'[u].index \in Nat \ {0}
                            /\ rows'[u] = NewRow(rows'[u].index, IF u = w THEN x ELSE NoSwap, Tail)
          OBVIOUS
        <5>1. PICK i \in 1..Steps(w) : u = Bucket(i)
          BY <4>2 DEF Fills, GapFill
        <5>2. u \in Nat /\ cursor.start < u /\ u <= w
          BY <5>1, <3>4, <1>2, Gap
        <5>3. rows'[u] = NewRow(IndexAfter(i), IF u = w THEN x ELSE NoSwap, Tail)
          BY <4>2, <5>1
        <5>4. rows'[u].index = IndexAfter(i)
          BY <5>3, NewRowIndex
        <5>5. IndexAfter(i) \in Nat \ {0}
          BY <5>1, <3>4, <1>2, <2>0, IndexBound
        <5> QED
          BY <5>2, <5>3, <5>4, <5>5, <2>0
      <4>4. holes' \subseteq holes \cup 1..w
        <5>1. (cursor.start + 1)..w \subseteq 1..w
          BY <2>0
        <5> QED
          BY <4>1, <5>1 DEF Skipped
      <4> QED
        BY <4>1, <4>2, <4>3, <4>4 DEF Located
    <3> QED
      BY <3>1, <3>2, <3>3, <3>4, <2>0
  <2>2. Distinct(rows')
    BY <1>5
  <2> HIDE DEF r
  <2>3. Takes(w, x)
    BY <1>2, <1>3, <1>5, <2>1, <2>2 DEF Takes
  <2> QED
    BY <1>1, <1>3, <2>1, <2>3
<1> QED
  BY <1>3, <1>4, <1>5

\* The first row of all.
First(w) ==
  /\ cursor = None /\ Starts = {} /\ New = {w} /\ rows'[w].index = 1
  /\ cursor' = [index |-> 1, start |-> w] /\ holes' = holes

Closing == tx' \in [Actor -> Tx] /\ \A b \in Actor : tx'[b] \in {tx[b], Idle}

Taken(w, x) ==
  /\ IInv /\ Takes(w, x) /\ Closing
  /\ (cursor # None /\ Located(w, x)) \/ First(w)

LEMMA FirstStep ==
  ASSUME IInv, NEW a \in Actor, InsertFirst(a)
  PROVE  \/ UNCHANGED <<now, period, rows, cursor, history>>
         \/ /\ Takes(tx[a].w, tx[a].swap) /\ First(tx[a].w)
            /\ tx[a].w \in Time /\ tx[a].swap \in Swap
<1> DEFINE w == tx[a].w  x == tx[a].swap
<1>1. tx[a] \in Tx /\ tx[a].pc = "insert" /\ tx[a] # Idle
  BY DEF IInv, TypeOK, InsertFirst, Idle
<1>2. w \in Time /\ w <= now /\ w % period = 0 /\ x \in Swap
  BY <1>1 DEF IInv, Bounds, Tx, Idle, Swap
<1>3. UNCHANGED <<now, period>>
  BY DEF InsertFirst
<1>4. CASE HasIndex(1) \/ w \in Starts
  <2>1. Refuse
    BY <1>4 DEF InsertFirst
  <2> QED
    BY <1>3, <2>1 DEF Refuse
<1>5. CASE ~(HasIndex(1) \/ w \in Starts)
  <2>1. /\ rows' = With(rows, w, NewRow(1, x, Tail)) /\ cursor' = [index |-> 1, start |-> w]
        /\ Count(w, x) /\ Late(w, x) /\ UNCHANGED <<unlocked, holes, pruned, changed>>
    BY <1>5 DEF InsertFirst
  <2>2. cursor = None /\ Starts = {}
    <3>1. ASSUME cursor # None PROVE FALSE
      <4>1. Opened /\ cursor.index > 0 /\ cursor.index \in Nat
        BY <1>1, <3>1 DEF Opened, IInv, Bounds, TypeOK
      <4>2. PICK s \in Starts : Index(s) = cursor.index
        BY <3>1, <4>1 DEF IInv, Dense
      <4>3. HasIndex(1)
        BY <3>1, <4>1, <4>2 DEF IInv, Dense
      <4> QED
        BY <4>3, <1>5
    <3> QED
      BY <3>1 DEF IInv, Before
  <2>3. DOMAIN rows' = {w} /\ rows'[w] = NewRow(1, x, Tail)
    BY <2>1, <2>2 DEF With, Starts
  <2>4. Starts' = {w} /\ New = {w} /\ rows'[w].index = 1
    BY <2>2, <2>3, NewRowIndex DEF Starts, New
  <2>5. Distinct(rows')
    BY <2>3 DEF Distinct
  <2>6. w \in Nat /\ cursor.start <= w /\ cursor.start = 0
    BY <1>2, <2>2, Numbers DEF None, IInv
  <2>7. \A u \in New :
          /\ u \in Nat /\ cursor.start <= u /\ u <= w /\ rows'[u].index \in Nat \ {0}
          /\ rows'[u] = NewRow(rows'[u].index, IF u = w THEN x ELSE NoSwap, Tail)
    BY <2>3, <2>4, <2>6
  <2>8. Takes(w, x)
    BY <1>2, <1>3, <2>1, <2>2, <2>5, <2>7 DEF Takes
  <2>9. First(w)
    BY <2>1, <2>2, <2>4 DEF First
  <2> QED
    BY <1>2, <2>8, <2>9
<1> QED
  BY <1>4, <1>5

\* What all cases have in common.
LEMMA TakenRows ==
  ASSUME NEW w \in Time, NEW x \in Swap, Taken(w, x)
  PROVE  /\ Starts' = Starts \cup New /\ New \cap Starts = {} /\ Starts' \subseteq Time
         /\ \A s \in Starts' : rows'[s] \in Row /\ Quoted(rows'[s]) /\ s <= now
         /\ \A s \in Starts : rows'[s].index = Index(s) /\ Index(s) \in Nat \ {0}
         /\ \A u \in New : u \in Nat /\ cursor.start <= u /\ u <= w
         /\ w \in Nat /\ w <= now
<1>1. Starts' = Starts \cup New /\ New \cap Starts = {}
  BY DEF Taken, Takes, New
<1>2. \A u \in New : u \in Nat /\ cursor.start <= u /\ u <= w
  BY DEF Taken, Takes
<1>3. w \in Nat /\ w <= MaxTime /\ w <= now
  BY Numbers DEF Taken, Takes, IInv
<1>4. \A s \in Starts : s \in Time /\ s <= now /\ rows[s] \in Row /\ Quoted(rows[s])
  BY DEF Taken, IInv, TypeOK, Bounds
<1>5. ASSUME NEW s \in Starts
      PROVE  rows'[s] \in Row /\ Quoted(rows'[s]) /\ rows'[s].index = Index(s)
  <2>1. rows'[s] = rows[s] \/ rows'[s] = Merged(rows[s], x)
    BY DEF Taken, Takes
  <2> QED
    BY <1>4, <2>1, MergedType DEF Index
<1>6. ASSUME NEW u \in New
      PROVE  rows'[u] \in Row /\ Quoted(rows'[u]) /\ u <= now /\ u \in Time
  <2>1. /\ rows'[u].index \in Nat \ {0}
        /\ rows'[u] = NewRow(rows'[u].index, IF u = w THEN x ELSE NoSwap, Tail)
    BY DEF Taken, Takes
  <2>2. Tail.close \in Nat /\ Tail.total \in Nat
    BY TailType DEF Taken, IInv, TypeOK
  <2>3. (IF u = w THEN x ELSE NoSwap) \in Swap
    BY DEF Swap
  <2>4. PICK i : i = rows'[u].index
    OBVIOUS
  <2>5. PICK y : y = IF u = w THEN x ELSE NoSwap
    OBVIOUS
  <2>6. rows'[u] = NewRow(i, y, Tail) /\ i \in Nat \ {0} /\ y \in Swap
    BY <2>1, <2>3, <2>4, <2>5
  <2>7. NewRow(i, y, Tail) \in Row /\ Quoted(NewRow(i, y, Tail))
    BY <2>2, <2>6, NewRowType
  <2>8. u \in 0..MaxTime /\ u <= now
    BY <1>2, <1>3, Numbers DEF Taken, IInv
  <2> QED
    BY <2>6, <2>7, <2>8 DEF Time
<1> QED
  BY <1>1, <1>2, <1>3, <1>4, <1>5, <1>6 DEF Index, Row

LEMMA TakenCursor ==
  ASSUME NEW w \in Time, NEW x \in Swap, Taken(w, x)
  PROVE  /\ cursor' \in [index : Nat, start : Time] /\ cursor'.index > 0
         /\ cursor'.start <= now /\ cursor' # None
<1> USE Numbers DEF Taken, IInv
<1>1. w \in Nat /\ w <= now /\ cursor.index \in Nat /\ cursor.start <= now
  BY DEF Takes, Bounds
<1>2. CASE cursor # None /\ Stays(w, x)
  BY <1>2, <1>1 DEF Stays, Bounds, TypeOK
<1>3. CASE cursor # None /\ Reopens(w)
  BY <1>3, <1>1 DEF Reopens, Bounds, TypeOK
<1>4. CASE Opens(w)
  BY <1>4, <1>1 DEF Opens, None
<1>5. CASE Moves(w)
  <2>1. Index(w) \in Nat \ {0}
    BY <1>5 DEF Moves
  <2> QED
    BY <1>5, <1>1, <2>1 DEF Moves, None
<1>6. CASE Fills(w, x)
  <2>1. LastOfGap(w) \in Nat /\ LastOfGap(w) > cursor.index
    <3>1. Steps(w) \in 1..Steps(w) /\ w > cursor.start
      BY <1>6, Gap DEF Fills
    <3> QED
      BY <3>1, IndexBound DEF LastOfGap
  <2> QED
    BY <1>6, <1>1, <2>1 DEF Fills, None
<1>7. CASE First(w)
  BY <1>7, <1>1 DEF First, None
<1> QED
  BY <1>2, <1>3, <1>4, <1>5, <1>6, <1>7 DEF Located

LEMMA TakenType ==
  ASSUME NEW w \in Time, NEW x \in Swap, Taken(w, x)
  PROVE  /\ TypeOK' /\ Bounds' /\ Before' /\ \A s \in Starts' : Quoted(rows'[s])
<1>1. TypeOK'
  <2>1. /\ now' = now /\ period' = period /\ unlocked' = unlocked
        /\ pruned' = pruned /\ changed' = changed
    BY DEF Taken, Takes
  <2>2. counted' \in [Time -> Nat]
    BY DEF Taken, Takes, Count, IInv, TypeOK
  <2>3. late' \subseteq Time
    BY DEF Taken, Takes, Late, IInv, TypeOK
  <2>4. holes' \subseteq Time
    <3>1. 1..w \subseteq Time
      BY Numbers, TakenRows DEF Taken, IInv, Time
    <3> QED
      BY <3>1 DEF Taken, Takes, IInv, TypeOK
  <2>5. tx' \in [Actor -> Tx]
    BY DEF Taken, Closing
  <2> QED
    BY <2>1, <2>2, <2>3, <2>4, <2>5, TakenRows, TakenCursor DEF Taken, IInv, TypeOK
<1>2. Bounds'
  <2>1. now' = now /\ period' = period /\ changed' = changed /\ Distinct(rows')
    BY DEF Taken, Takes
  <2>2. \A b \in Actor : tx'[b] # Idle =>
          tx'[b].w <= now /\ tx'[b].w % period = 0 /\ tx'[b].swap \in Price \cup {NoSwap}
    BY DEF Taken, Closing, IInv, Bounds
  <2>3. Starts' \subseteq 0..now
    BY TakenRows, Numbers DEF Taken, IInv
  <2> QED
    BY <2>1, <2>2, <2>3, TakenCursor DEF Taken, IInv, Bounds
<1>3. Before'
  BY TakenCursor DEF Before, None
<1> QED
  BY <1>1, <1>2, <1>3, TakenRows

LEMMA FillsRows ==
  ASSUME NEW w \in Time, NEW x \in Swap, Taken(w, x), Fills(w, x)
  PROVE  /\ w > cursor.start /\ Steps(w) \in Nat /\ Steps(w) \in 1..Steps(w)
         /\ cursor' = [index |-> IndexAfter(Steps(w)), start |-> w]
         /\ \A i \in 1..Steps(w) :
              /\ Bucket(i) \in Starts' /\ Bucket(i) > cursor.start /\ Bucket(i) <= w /\ Bucket(i) \in Nat
              /\ rows'[Bucket(i)].index = IndexAfter(i) /\ IndexAfter(i) \in Nat
              /\ IndexAfter(i) > cursor.index
         /\ \A u \in New : \E i \in 1..Steps(w) : u = Bucket(i)
         /\ \A i \in 0..Steps(w), t \in Starts : t > Bucket(i) => Index(t) > IndexAfter(i)
         /\ \A i, j \in 0..Steps(w) : i < j => IndexAfter(i) < IndexAfter(j)
         /\ \A i, j \in 1..Steps(w) : Bucket(i) < Bucket(j) => i < j
<1>a. Starts' = Starts \cup New /\ \A s \in Starts : rows'[s].index = Index(s)
  BY TakenRows
<1>0. TypeOK /\ AheadOrder
  BY DEF Taken, IInv
<1>1. w > cursor.start /\ Steps(w) # 0 /\ cursor' = [index |-> LastOfGap(w), start |-> w]
  BY DEF Fills
<1>2. Steps(w) \in Nat /\ Steps(w) \in 1..Steps(w)
  BY <1>0, <1>1, Gap
<1>3. cursor' = [index |-> IndexAfter(Steps(w)), start |-> w]
  BY <1>1 DEF LastOfGap
<1>4. ASSUME NEW i \in 1..Steps(w)
      PROVE  /\ Bucket(i) \in Starts' /\ Bucket(i) > cursor.start /\ Bucket(i) <= w /\ Bucket(i) \in Nat
             /\ rows'[Bucket(i)].index = IndexAfter(i) /\ IndexAfter(i) \in Nat
             /\ IndexAfter(i) > cursor.index
  <2>1. Bucket(i) > cursor.start /\ Bucket(i) <= w /\ Bucket(i) \in Nat
    BY <1>0, <1>1, Gap
  <2>2. IndexAfter(i) \in Nat /\ IndexAfter(i) > cursor.index
        /\ (Bucket(i) \in Starts => IndexAfter(i) = Index(Bucket(i)))
    BY <1>0, <1>1, IndexBound
  <2>3. Bucket(i) \in GapFill(w)
    BY DEF GapFill
  <2>4. CASE Bucket(i) \in Starts
    BY <2>1, <2>2, <2>4, <1>a
  <2>5. CASE Bucket(i) \notin Starts
    <3>1. Bucket(i) \in New
      BY <2>3, <2>5 DEF Fills
    <3>2. rows'[Bucket(i)].index = IndexAfter(i)
      BY <3>1 DEF Fills
    <3> QED
      BY <2>1, <2>2, <3>1, <3>2, <1>a
  <2> QED
    BY <2>1, <2>2, <2>4, <2>5
<1>5. \A u \in New : \E i \in 1..Steps(w) : u = Bucket(i)
  BY DEF Fills, GapFill
<1>6. Distinct(Filled(w, x))
  BY DEF Fills, Taken, Takes
<1>7. /\ \A i \in 0..Steps(w), t \in Starts : t > Bucket(i) => Index(t) > IndexAfter(i)
      /\ \A i, j \in 0..Steps(w) : i < j => IndexAfter(i) < IndexAfter(j)
  BY <1>0, <1>1, <1>6, GapOrder
<1>8. ASSUME NEW i \in 1..Steps(w), NEW j \in 1..Steps(w), Bucket(i) < Bucket(j) PROVE i < j
  <2>1. i \in Nat /\ j \in Nat /\ Bucket(i) \in Nat /\ Bucket(j) \in Nat /\ period \in Nat
    BY <1>0, <1>2, <1>4, Numbers
  <2>2. j < i => Bucket(j) + period <= Bucket(i)
    BY <2>1, <1>0, <1>1, Gap
  <2> QED
    BY <1>8, <2>1, <2>2
<1> QED
  BY <1>1, <1>2, <1>3, <1>4, <1>5, <1>7, <1>8

LEMMA TakenCursorRow ==
  ASSUME NEW w \in Time, NEW x \in Swap, Taken(w, x)
  PROVE  CursorRow'
<1>1. /\ cursor # None =>
           /\ cursor.start \in Starts \cup holes \/ cursor.start < pruned
           /\ cursor.start \in Starts /\ holes = {} => Index(cursor.start) = cursor.index
      /\ pruned' = pruned /\ holes \subseteq holes'
  BY DEF Taken, Takes, IInv, CursorRow
<1>2. Starts' = Starts \cup New /\ \A s \in Starts : rows'[s].index = Index(s)
  BY TakenRows
<1>3. CASE cursor # None /\ Stays(w, x)
  BY <1>1, <1>2, <1>3 DEF Stays, CursorRow, Index
<1>4. CASE Reopens(w)
  BY <1>2, <1>4 DEF Reopens, CursorRow, Index
<1>5. CASE Opens(w)
  BY <1>2, <1>5 DEF Opens, CursorRow, Index
<1>6. CASE Moves(w)
  BY <1>2, <1>6 DEF Moves, CursorRow, Index
<1>7. CASE Fills(w, x)
  <2>1. cursor'.start = w /\ cursor'.index = IndexAfter(Steps(w))
    BY <1>7, FillsRows
  <2>2. CASE w \in GapFill(w)
    <3>1. w = Bucket(Steps(w)) /\ Steps(w) \in 1..Steps(w)
      BY <1>7, <2>2, FillsRows, Gap DEF Taken, IInv
    <3>2. w \in Starts' /\ rows'[w].index = IndexAfter(Steps(w))
      BY <1>7, <3>1, FillsRows
    <3> QED
      BY <2>1, <3>2 DEF CursorRow, Index
  <2>3. CASE w \notin GapFill(w)
    <3>1. w \in (cursor.start + 1)..w
      BY <1>7, Numbers, FillsRows DEF Taken, IInv
    <3>2. ~Misaligned(w)
      BY <1>7, Missed DEF Taken, IInv, Fills
    <3>3. w \in holes'
      BY <1>7, <2>3, <3>1, <3>2 DEF Fills, Skipped
    <3> QED
      BY <2>1, <3>3 DEF CursorRow
  <2> QED
    BY <2>2, <2>3
<1>8. CASE First(w)
  BY <1>2, <1>8 DEF First, CursorRow, Index
<1> QED
  BY <1>3, <1>4, <1>5, <1>6, <1>7, <1>8 DEF Taken, Located

LEMMA TakenAhead ==
  ASSUME NEW w \in Time, NEW x \in Swap, Taken(w, x)
  PROVE  AheadOrder'
<1>0. /\ \A t \in Starts : t > cursor.start => Index(t) > cursor.index
      /\ Sorted({t \in Starts : t > cursor.start})
      /\ Distinct(rows')
  BY DEF Taken, Takes, IInv, AheadOrder
<1>1. /\ Starts' = Starts \cup New /\ \A s \in Starts : rows'[s].index = Index(s) /\ Index(s) \in Nat
      /\ \A u \in New : u \in Nat /\ u <= w
      /\ w \in Nat /\ cursor.index \in Nat /\ cursor.start \in Nat
      /\ \A s \in Starts : s \in Nat
  BY TakenRows, Numbers DEF Taken, IInv
<1>2. ASSUME NEW t \in Starts', t > cursor'.start
      PROVE  t \in Starts /\ t > cursor.start /\ Index(t) > cursor'.index
  <2>1. CASE cursor # None /\ Stays(w, x)
    BY <1>0, <1>1, <1>2, <2>1 DEF Stays
  <2>2. CASE Reopens(w)
    BY <1>0, <1>1, <1>2, <2>2 DEF Reopens
  <2>3. CASE Opens(w)
    <3>1. cursor'.start = w /\ cursor'.index = cursor.index + 1 /\ w > cursor.start
          /\ New = {w} /\ rows'[w].index = cursor.index + 1
      BY <2>3 DEF Opens
    <3>2. t \in Starts /\ t # w /\ t > cursor.start
      BY <1>1, <1>2, <3>1
    <3>3. t \in DOMAIN rows' /\ w \in DOMAIN rows'
      BY <1>1, <3>1, <3>2 DEF Starts
    <3>4. rows'[t].index # rows'[w].index
      BY <1>0, <3>2, <3>3 DEF Distinct
    <3> QED
      BY <1>0, <1>1, <3>1, <3>2, <3>4
  <2>4. CASE Moves(w)
    BY <1>0, <1>1, <1>2, <2>4 DEF Moves, Sorted
  <2>5. CASE Fills(w, x)
    <3>1. /\ cursor'.start = w /\ cursor'.index = IndexAfter(Steps(w)) /\ w > cursor.start
          /\ Steps(w) \in 1..Steps(w) /\ Steps(w) \in 0..Steps(w)
          /\ Bucket(Steps(w)) <= w /\ Bucket(Steps(w)) \in Nat
      BY <2>5, FillsRows
    <3>2. t \in Starts /\ t > Bucket(Steps(w)) /\ t > cursor.start
      BY <1>1, <1>2, <3>1
    <3>3. Index(t) > IndexAfter(Steps(w))
      BY <2>5, <3>1, <3>2, FillsRows
    <3> QED
      BY <3>1, <3>2, <3>3
  <2>6. CASE First(w)
    BY <1>1, <1>2, <2>6 DEF First
  <2> QED
    BY <2>1, <2>2, <2>3, <2>4, <2>5, <2>6 DEF Taken, Located
<1>3. ASSUME NEW s \in Starts', NEW t \in Starts', s > cursor'.start, t > cursor'.start, s < t
      PROVE  rows'[s].index < rows'[t].index
  <2>1. s \in Starts /\ s > cursor.start /\ t \in Starts /\ t > cursor.start
    BY <1>2, <1>3
  <2>2. Index(s) < Index(t)
    BY <1>0, <1>3, <2>1 DEF Sorted
  <2> QED
    BY <1>1, <2>1, <2>2
<1> QED
  BY <1>1, <1>2, <1>3 DEF AheadOrder, Sorted, Index

LEMMA TakenDense ==
  ASSUME NEW w \in Time, NEW x \in Swap, Taken(w, x), Opened'
  PROVE  /\ Sorted(Starts)' /\ \A t \in Starts' : \A k \in 1..rows'[t].index : HasIndex(k)'
         /\ \E s \in Starts' : rows'[s].index = cursor'.index
<1>0. /\ Starts' = Starts \cup New /\ \A s \in Starts : rows'[s].index = Index(s) /\ Index(s) \in Nat \ {0}
      /\ \A u \in New : u \in Nat /\ u <= w
      /\ w \in Nat /\ cursor.index \in Nat /\ cursor.start \in Nat
      /\ \A s \in Starts : s \in Nat
  BY TakenRows, Numbers DEF Taken, IInv
<1>1. Opened
  BY DEF Opened, Taken, Closing
<1>2. CASE First(w)
  <2>1. Starts' = {w} /\ rows'[w].index = 1 /\ cursor'.index = 1
    BY <1>0, <1>2 DEF First
  <2> QED
    BY <2>1, <1>0 DEF Sorted, HasIndex, Index
<1>3. CASE cursor # None
  <2>1. /\ Sorted(Starts) /\ \A t \in Starts : \A k \in 1..Index(t) : HasIndex(k)
        /\ \E s \in Starts : Index(s) = cursor.index
    BY <1>1, <1>3 DEF Taken, IInv, Dense
  <2>2. ASSUME NEW u \in New, NEW s \in Starts PROVE Index(s) < rows'[u].index
    <3>0. rows'[u].index \in Nat \ {0}
      BY DEF Taken, Takes
    <3>1. ASSUME rows'[u].index <= Index(s) PROVE FALSE
      <4>1. rows'[u].index \in 1..Index(s)
        BY <1>0, <3>0, <3>1
      <4>2. PICK t \in Starts : rows[t].index = rows'[u].index
        BY <2>1, <4>1 DEF HasIndex
      <4>3. t \in DOMAIN rows' /\ u \in DOMAIN rows' /\ t # u
        BY <1>0 DEF Starts, New
      <4>4. rows'[t].index = rows'[u].index
        BY <1>0, <4>2 DEF Index
      <4> QED
        BY <4>3, <4>4 DEF Taken, Takes, Distinct
    <3> QED
      BY <3>0, <3>1, <1>0
  <2>3. \A k : HasIndex(k) => HasIndex(k)'
    BY <1>0 DEF HasIndex, Index
  <2>4. CASE Stays(w, x)
    <3>1. Starts' = Starts /\ cursor' = cursor
      BY <1>0, <2>4 DEF Stays
    <3> QED
      BY <1>0, <2>1, <2>3, <3>1 DEF Sorted, Index
  <2>5. CASE Reopens(w)
    <3>1. w \in New /\ rows'[w].index = cursor.index
      BY <2>5 DEF Reopens
    <3> QED
      BY <1>0, <2>1, <2>2, <3>1
  <2>6. CASE Moves(w)
    <3>1. Starts' = Starts /\ cursor'.index = Index(w) /\ w \in Starts
      BY <1>0, <2>6 DEF Moves
    <3> QED
      BY <1>0, <2>1, <2>3, <3>1 DEF Sorted, Index
  <2>7. CASE Opens(w)
    <3>1. /\ New = {w} /\ rows'[w].index = cursor.index + 1 /\ cursor'.start = w
          /\ cursor'.index = cursor.index + 1
      BY <2>7 DEF Opens
    <3>2. \A t \in Starts : t > w => FALSE
      <4> SUFFICES ASSUME NEW t \in Starts, t > w PROVE FALSE
        OBVIOUS
      <4>1. t \in Starts' /\ t > cursor'.start
        BY <1>0, <3>1
      <4>2. rows'[t].index > cursor'.index
        BY <4>1, TakenAhead DEF AheadOrder, Index
      <4> QED
        BY <1>0, <2>2, <3>1, <4>2
    <3>3. Sorted(Starts)'
      <4> SUFFICES ASSUME NEW s \in Starts', NEW t \in Starts', s < t
                   PROVE  rows'[s].index < rows'[t].index
        BY DEF Sorted, Index
      <4>1. s \in Starts
        BY <1>0, <3>1, <3>2
      <4>2. CASE t \in Starts
        BY <1>0, <2>1, <4>1, <4>2 DEF Sorted
      <4>3. CASE t \in New
        BY <1>0, <2>2, <4>1, <4>3
      <4> QED
        BY <1>0, <4>2, <4>3
    <3>4. \A k \in 1..rows'[w].index : HasIndex(k)'
      <4> SUFFICES ASSUME NEW k \in 1..rows'[w].index PROVE HasIndex(k)'
        OBVIOUS
      <4>1. CASE k = cursor.index + 1
        <5>1. w \in Starts' /\ rows'[w].index = k
          BY <1>0, <3>1, <4>1
        <5> QED
          BY <5>1 DEF HasIndex
      <4>2. CASE k <= cursor.index
        <5>1. PICK s \in Starts : Index(s) = cursor.index
          BY <2>1
        <5>2. k \in 1..Index(s)
          BY <4>2, <5>1, <1>0
        <5> QED
          BY <2>1, <2>3, <5>2
      <4> QED
        BY <1>0, <3>1, <4>1, <4>2
    <3> QED
      BY <1>0, <2>1, <2>3, <3>1, <3>3, <3>4
  <2>8. CASE Fills(w, x)
    <3>1. /\ cursor'.index = IndexAfter(Steps(w)) /\ w > cursor.start
          /\ Steps(w) \in Nat /\ Steps(w) \in 1..Steps(w)
          /\ \A i \in 1..Steps(w) :
               /\ Bucket(i) \in Starts' /\ Bucket(i) > cursor.start /\ Bucket(i) <= w /\ Bucket(i) \in Nat
               /\ rows'[Bucket(i)].index = IndexAfter(i) /\ IndexAfter(i) \in Nat
          /\ \A u \in New : \E i \in 1..Steps(w) : u = Bucket(i)
      BY <2>8, FillsRows
    <3>2. /\ \A i \in 0..Steps(w), t \in Starts : t > Bucket(i) => Index(t) > IndexAfter(i)
          /\ \A i, j \in 0..Steps(w) : i < j => IndexAfter(i) < IndexAfter(j)
          /\ \A i, j \in 1..Steps(w) : Bucket(i) < Bucket(j) => i < j
      BY <2>8, FillsRows
    <3>3. Sorted(Starts)'
      <4> SUFFICES ASSUME NEW s \in Starts', NEW t \in Starts', s < t
                   PROVE  rows'[s].index < rows'[t].index
        BY DEF Sorted, Index
      <4>1. CASE s \in Starts /\ t \in Starts
        BY <1>0, <2>1, <4>1 DEF Sorted
      <4>2. CASE s \in Starts /\ t \in New
        BY <1>0, <2>2, <4>2
      <4>3. CASE s \in New
        <5>1. PICK i \in 1..Steps(w) : s = Bucket(i)
          BY <3>1, <4>3
        <5>2. i \in 0..Steps(w) /\ rows'[s].index = IndexAfter(i)
          BY <3>1, <5>1
        <5>3. CASE t \in Starts
          BY <1>0, <3>2, <5>1, <5>2, <5>3
        <5>4. CASE t \in New
          <6>1. PICK j \in 1..Steps(w) : t = Bucket(j)
            BY <3>1, <5>4
          <6>2. i < j /\ j \in 0..Steps(w) /\ rows'[t].index = IndexAfter(j)
            BY <3>1, <3>2, <5>1, <6>1
          <6> QED
            BY <3>2, <5>2, <6>2
        <5> QED
          BY <1>0, <5>3, <5>4
      <4> QED
        BY <1>0, <4>1, <4>2, <4>3
    <3>4. ASSUME NEW i \in 1..Steps(w), NEW k \in 1..IndexAfter(i) PROVE HasIndex(k)'
      <4>0. i \in Nat /\ i <= Steps(w)
        BY <3>1
      <4>1. PICK j \in 0..i : Known(j) /\ NoneIn(j, i)
        BY <4>0, LastKnown
      <4>2. IndexAfter(i) = Base(j) + (i - j)
        BY <4>0, <4>1, IndexFrom
      <4>3. \E s \in Starts : Index(s) = Base(j)
        BY <2>1, <4>1 DEF Known, Base, Index
      <4>4. CASE k <= Base(j)
        <5>1. PICK s \in Starts : Index(s) = Base(j)
          BY <4>3
        <5>2. k \in 1..Index(s)
          BY <5>1, <4>4, <1>0
        <5> QED
          BY <2>1, <2>3, <5>2
      <4>5. CASE k > Base(j)
        <5> DEFINE m == j + (k - Base(j))
        <5>0. Base(j) \in Nat /\ k \in Nat /\ k <= IndexAfter(i)
          BY <1>0, <3>1, <4>3
        <5>a. k <= Base(j) + (i - j) /\ j \in Nat /\ j <= i /\ Steps(w) \in Nat
          BY <3>1, <4>0, <4>2, <5>0
        <5>b. m \in Nat /\ m > j /\ m <= i
          BY <5>a, <4>0, <4>5, <5>0
        <5>1. m \in Nat /\ m \in 1..Steps(w) /\ j \in 0..m /\ m <= i
          <6> HIDE DEF m
          <6> QED
            BY <5>a, <5>b, <4>0
        <5>2. NoneIn(j, m)
          BY <4>0, <4>1, <5>1 DEF NoneIn
        <5>3. IndexAfter(m) = Base(j) + (m - j)
          <6> HIDE DEF m
          <6> QED
            BY <4>1, <5>1, <5>2, IndexFrom
        <5>4. IndexAfter(m) = k
          BY <5>0, <5>1, <5>3
        <5>5. Bucket(m) \in Starts' /\ rows'[Bucket(m)].index = k
          <6> HIDE DEF m
          <6> QED
            BY <3>1, <5>1, <5>4
        <5> HIDE DEF m
        <5> QED
          BY <5>5 DEF HasIndex
      <4>6. Base(j) \in Nat /\ k \in Nat
        BY <1>0, <3>1, <4>3
      <4> QED
        BY <4>4, <4>5, <4>6
    <3>5. ASSUME NEW t \in Starts', NEW k \in 1..rows'[t].index PROVE HasIndex(k)'
      <4>1. CASE t \in Starts
        BY <1>0, <2>1, <2>3, <4>1
      <4>2. CASE t \in New
        BY <3>1, <3>4, <4>2
      <4> QED
        BY <1>0, <4>1, <4>2
    <3>6. \E s \in Starts' : rows'[s].index = cursor'.index
      BY <3>1
    <3> QED
      BY <3>3, <3>5, <3>6
  <2> QED
    BY <1>3, <2>4, <2>5, <2>6, <2>7, <2>8, <1>2 DEF Taken, Located
<1> QED
  BY <1>2, <1>3 DEF Taken

Linear(S) ==
  \A s, t \in S : Adjacent(s, t) => (\E p \in Periods : t <= s + p) /\ Index(t) = Index(s) + 1

\* Rows that are further apart, or cut off, are not adjacent.
LEMMA StillAdjacent ==
  ASSUME Starts \subseteq Starts', pruned' = pruned, NEW s \in Starts, NEW t \in Starts,
         Adjacent(s, t)'
  PROVE  Adjacent(s, t)
  BY DEF Adjacent

LEMMA TakenLocked ==
  ASSUME NEW w \in Time, NEW x \in Swap, Taken(w, x)
  PROVE  Locked'
<1> SUFFICES ASSUME unlocked' = {}
             PROVE  /\ Sorted(Starts)'
                    /\ \A s \in Starts' : s <= cursor'.start /\ rows'[s].index <= cursor'.index
                    /\ holes' = {} => Linear(Starts)'
  BY DEF Locked, Linear, Index
<1>0. /\ Starts' = Starts \cup New /\ \A s \in Starts : rows'[s].index = Index(s) /\ Index(s) \in Nat \ {0}
      /\ \A u \in New : u \in Nat /\ u <= w /\ u \notin Starts
      /\ w \in Nat /\ cursor.index \in Nat /\ cursor.start \in Nat /\ period \in Nat \ {0}
      /\ \A s \in Starts : s \in Nat
  BY TakenRows, Numbers DEF Taken, IInv
<1>a. /\ unlocked = {} /\ holes \subseteq holes' /\ pruned' = pruned /\ period \in Periods /\ pruned \in Nat
  BY OhlcvAssumption DEF Taken, Takes, IInv, TypeOK, Time
<1>b. /\ Sorted(Starts) /\ \A s \in Starts : s <= cursor.start /\ Index(s) <= cursor.index
      /\ holes = {} => Linear(Starts)
  BY <1>a DEF Taken, IInv, Locked, Linear
<1>c. Starts \subseteq Starts'
  BY <1>0
<1>d. ASSUME holes' = {}, NEW s \in Starts, NEW t \in Starts, Adjacent(s, t)'
      PROVE  (\E p \in Periods : t <= s + p) /\ rows'[t].index = rows'[s].index + 1
  <2>1. Adjacent(s, t) /\ holes = {}
    BY <1>a, <1>c, <1>d, StillAdjacent
  <2> QED
    BY <1>0, <1>b, <1>d, <2>1 DEF Linear
<1>e. ASSUME cursor # None, holes' = {}, NEW s \in Starts, pruned <= s
      PROVE  cursor.start \in Starts /\ Index(cursor.start) = cursor.index
  BY <1>0, <1>a, <1>b, <1>e DEF Taken, IInv, CursorRow
<1>2. CASE First(w)
  <2>1. Starts' = {w} /\ rows'[w].index = 1 /\ cursor'.index = 1 /\ cursor'.start = w
    BY <1>0, <1>2 DEF First
  <2> QED
    BY <2>1, <1>0 DEF Sorted, Linear, Adjacent, Index
<1>3. CASE Stays(w, x)
  <2>1. Starts' = Starts /\ cursor' = cursor
    BY <1>0, <1>3 DEF Stays
  <2> QED
    BY <1>0, <1>b, <1>d, <2>1 DEF Sorted, Index, Linear
<1>4. CASE Reopens(w)
  <2>1. /\ New = {w} /\ rows'[w].index = cursor.index /\ cursor' = cursor /\ w = cursor.start
        /\ w \notin Starts /\ cursor # None
    BY <1>4 DEF Reopens
  <2>2. ASSUME NEW s \in Starts PROVE s < w /\ Index(s) < cursor.index
    <3>1. s \in DOMAIN rows' /\ w \in DOMAIN rows' /\ s # w
      BY <1>0, <2>1 DEF Starts
    <3>2. rows'[s].index # rows'[w].index
      BY <3>1 DEF Taken, Takes, Distinct
    <3> QED
      BY <1>0, <1>b, <2>1, <3>1, <3>2
  <2>3. Sorted(Starts)'
    BY <1>0, <1>b, <2>1, <2>2 DEF Sorted, Index
  <2>4. \A s \in Starts' : s <= cursor'.start /\ rows'[s].index <= cursor'.index
    BY <1>0, <1>b, <2>1, <2>2
  <2>5. ASSUME holes' = {}, NEW s \in Starts', NEW t \in Starts', Adjacent(s, t)'
        PROVE  FALSE
    <3>1. pruned <= s /\ s < t
      BY <1>a, <2>5 DEF Adjacent
    <3>2. s \in Starts
      BY <1>0, <2>1, <2>2, <3>1
    <3> QED
      BY <1>e, <2>1, <2>5, <3>1, <3>2
  <2> QED
    BY <2>3, <2>4, <2>5 DEF Linear
<1>5. CASE Moves(w)
  BY <1>0, <1>b, <1>5 DEF Moves
<1>6. CASE cursor # None /\ Opens(w)
  <2>1. /\ New = {w} /\ rows'[w].index = cursor.index + 1 /\ w > cursor.start /\ Steps(w) = 0
        /\ cursor'.start = w /\ cursor'.index = cursor.index + 1
    BY <1>6 DEF Opens
  <2>2. Sorted(Starts)'
    BY <1>0, <1>b, <2>1 DEF Sorted, Index
  <2>3. \A s \in Starts' : s <= cursor'.start /\ rows'[s].index <= cursor'.index
    BY <1>0, <1>b, <2>1
  <2>4. ASSUME holes' = {}, NEW s \in Starts', NEW t \in Starts', Adjacent(s, t)'
        PROVE  (\E p \in Periods : t <= s + p) /\ rows'[t].index = rows'[s].index + 1
    <3>1. pruned <= s /\ s < t /\ ~\E u \in Starts' : s < u /\ u < t
      BY <1>a, <2>4 DEF Adjacent
    <3>2. s \in Starts
      BY <1>0, <1>b, <2>1, <3>1
    <3>3. CASE t \in Starts
      BY <1>d, <2>4, <3>2, <3>3
    <3>4. CASE t = w
      <4>1. cursor.start \in Starts /\ Index(cursor.start) = cursor.index
        BY <1>6, <1>e, <2>4, <3>1, <3>2
      <4>2. s = cursor.start
        BY <1>0, <1>b, <2>1, <3>1, <3>2, <3>4, <4>1
      <4>3. w < cursor.start + period
        BY <2>1, Gap DEF Taken, IInv
      <4> QED
        BY <1>0, <1>a, <2>1, <3>4, <4>1, <4>2, <4>3
    <3> QED
      BY <1>0, <2>1, <3>3, <3>4
  <2> QED
    BY <2>2, <2>3, <2>4 DEF Linear, Index
<1>7. CASE cursor # None /\ Fills(w, x)
  <2>1. /\ cursor'.index = IndexAfter(Steps(w)) /\ cursor'.start = w /\ w > cursor.start
        /\ Steps(w) \in Nat /\ Steps(w) \in 1..Steps(w)
        /\ \A i \in 1..Steps(w) :
             /\ Bucket(i) \in Starts' /\ Bucket(i) > cursor.start /\ Bucket(i) <= w /\ Bucket(i) \in Nat
             /\ rows'[Bucket(i)].index = IndexAfter(i) /\ IndexAfter(i) \in Nat
        /\ \A u \in New : \E i \in 1..Steps(w) : u = Bucket(i)
    BY <1>7, FillsRows
  <2>2. \A i, j \in 1..Steps(w) : Bucket(i) < Bucket(j) => i < j
    BY <1>7, FillsRows
  <2>3. ASSUME NEW i \in 1..Steps(w) PROVE IndexAfter(i) = cursor.index + i
    <3>1. i \in Nat /\ NoneIn(0, i)
      <4>1. i \in Nat /\ i <= Steps(w)
        BY <2>1
      <4>2. ASSUME NEW k \in Nat, 0 < k, k <= i PROVE Bucket(k) \notin Starts
        <5>1. k \in 1..Steps(w)
          BY <2>1, <4>1, <4>2
        <5>2. Bucket(k) > cursor.start /\ Bucket(k) \in Nat
          BY <2>1, <5>1
        <5> QED
          BY <1>0, <1>b, <5>2
      <4> QED
        BY <4>1, <4>2 DEF NoneIn
    <3>2. Known(0) /\ Base(0) = cursor.index /\ 0 \in 0..i
      BY <3>1 DEF Known, Base
    <3>3. IndexAfter(i) = Base(0) + (i - 0)
      BY <3>1, <3>2, IndexFrom
    <3> QED
      BY <1>0, <3>1, <3>2, <3>3
  <2>4. ASSUME NEW u \in New
        PROVE  \E i \in 1..Steps(w) : u = Bucket(i) /\ rows'[u].index = cursor.index + i /\ u > cursor.start
    BY <2>1, <2>3
  <2>5. Sorted(Starts)'
    <3> SUFFICES ASSUME NEW s \in Starts', NEW t \in Starts', s < t
                 PROVE  rows'[s].index < rows'[t].index
      BY DEF Sorted, Index
    <3>1. CASE s \in Starts /\ t \in Starts
      BY <1>0, <1>b, <3>1 DEF Sorted
    <3>2. CASE s \in Starts /\ t \in New
      <4>1. PICK j \in 1..Steps(w) : rows'[t].index = cursor.index + j
        BY <2>4, <3>2
      <4>2. j \in Nat /\ j > 0
        BY <2>1
      <4> QED
        BY <1>0, <1>b, <3>2, <4>1, <4>2
    <3>3. CASE s \in New /\ t \in Starts
      BY <1>0, <1>b, <2>4, <3>3
    <3>4. CASE s \in New /\ t \in New
      <4>1. PICK i \in 1..Steps(w) : s = Bucket(i) /\ rows'[s].index = cursor.index + i
        BY <2>4, <3>4
      <4>2. PICK j \in 1..Steps(w) : t = Bucket(j) /\ rows'[t].index = cursor.index + j
        BY <2>4, <3>4
      <4>3. i < j /\ i \in Nat /\ j \in Nat
        BY <2>1, <2>2, <4>1, <4>2
      <4> QED
        BY <1>0, <4>1, <4>2, <4>3
    <3> QED
      BY <1>0, <3>1, <3>2, <3>3, <3>4
  <2>6. \A s \in Starts' : s <= cursor'.start /\ rows'[s].index <= cursor'.index
    <3> SUFFICES ASSUME NEW s \in Starts' PROVE s <= w /\ rows'[s].index <= cursor.index + Steps(w)
      BY <2>1, <2>3
    <3>1. CASE s \in Starts
      BY <1>0, <1>b, <2>1, <3>1
    <3>2. CASE s \in New
      <4>1. PICK i \in 1..Steps(w) : s = Bucket(i) /\ rows'[s].index = cursor.index + i
        BY <2>4, <3>2
      <4>2. i \in Nat /\ i <= Steps(w)
        BY <2>1
      <4> QED
        BY <1>0, <2>1, <3>2, <4>1, <4>2
    <3> QED
      BY <1>0, <3>1, <3>2
  <2>7. ASSUME holes' = {}, NEW s \in Starts', NEW t \in Starts', Adjacent(s, t)'
        PROVE  (\E p \in Periods : t <= s + p) /\ rows'[t].index = rows'[s].index + 1
    <3>1. pruned <= s /\ s < t /\ ~\E u \in Starts' : s < u /\ u < t
      BY <1>a, <2>7 DEF Adjacent
    <3>0. Bucket(1) = cursor.start + period
      BY <1>0 DEF Bucket
    <3>2. CASE s \in Starts /\ t \in Starts
      BY <1>d, <2>7, <3>2
    <3>3. CASE s \in Starts /\ t \in New
      <4>1. PICK j \in 1..Steps(w) : t = Bucket(j) /\ rows'[t].index = cursor.index + j /\ t > cursor.start
        BY <2>4, <3>3
      <4>2. cursor.start \in Starts /\ Index(cursor.start) = cursor.index
        BY <1>7, <1>e, <2>7, <3>1, <3>3
      <4>3. s = cursor.start
        BY <1>0, <1>b, <3>1, <3>3, <4>1, <4>2
      <4>4. j = 1
        <5>1. 1 \in 1..Steps(w) /\ j \in Nat /\ j > 0
          BY <2>1
        <5>2. ASSUME j > 1 PROVE FALSE
          <6>1. Bucket(1) + period <= Bucket(j)
            BY <2>1, <5>1, <5>2, Gap DEF Taken, IInv
          <6>2. Bucket(1) \in Starts' /\ s < Bucket(1) /\ Bucket(1) < t
            BY <1>0, <2>1, <3>0, <4>1, <4>3, <5>1, <6>1
          <6> QED
            BY <3>1, <6>2
        <5> QED
          BY <5>1, <5>2
      <4> QED
        BY <1>0, <1>a, <3>0, <4>1, <4>2, <4>3, <4>4
    <3>4. CASE s \in New /\ t \in Starts
      BY <1>0, <1>b, <2>4, <3>1, <3>4
    <3>5. CASE s \in New /\ t \in New
      <4>1. PICK i \in 1..Steps(w) : s = Bucket(i) /\ rows'[s].index = cursor.index + i
        BY <2>4, <3>5
      <4>2. PICK j \in 1..Steps(w) : t = Bucket(j) /\ rows'[t].index = cursor.index + j
        BY <2>4, <3>5
      <4>3. i < j /\ i \in Nat /\ j \in Nat /\ j <= Steps(w) /\ i + 1 \in 1..Steps(w)
        BY <2>1, <2>2, <3>1, <4>1, <4>2
      <4>4. Bucket(i + 1) = Bucket(i) + period
        <5>1. (i + 1) * period = i * period + period
          BY <1>0, <4>3
        <5>2. i * period \in Nat
          BY <1>0, <4>3
        <5> QED
          BY <1>0, <5>1, <5>2 DEF Bucket
      <4>5. j = i + 1
        <5>2. ASSUME j > i + 1 PROVE FALSE
          <6>1. Bucket(i + 1) + period <= Bucket(j)
            BY <2>1, <4>3, <5>2, Gap DEF Taken, IInv
          <6>2. Bucket(i + 1) \in Starts' /\ s < Bucket(i + 1) /\ Bucket(i + 1) < t
            BY <1>0, <2>1, <4>1, <4>2, <4>3, <4>4, <6>1
          <6> QED
            BY <3>1, <6>2
        <5> QED
          BY <4>3, <5>2
      <4>6. t = s + period
        BY <4>1, <4>2, <4>4, <4>5
      <4> QED
        BY <1>0, <1>a, <3>5, <4>1, <4>2, <4>3, <4>5, <4>6
    <3> QED
      BY <1>0, <3>2, <3>3, <3>4, <3>5
  <2> QED
    BY <2>5, <2>6, <2>7 DEF Linear, Index
<1> QED
  BY <1>2, <1>3, <1>4, <1>5, <1>6, <1>7 DEF Taken, Located

LEMMA Regrid ==
  ASSUME NEW c \in Int, NEW p \in Nat \ {0}, NEW i \in Int, NEW n \in Int
  PROVE  /\ c + i * p = (c + n * p) + (i - n) * p
         /\ i * p = n * p => i = n
  OBVIOUS

LEMMA OnGridAt ==
  ASSUME TypeOK, NEW i \in Int, Bucket(i) \in Starts, OnGrid(Bucket(i))
  PROVE  Index(Bucket(i)) = cursor.index + i
<1>1. PICK k \in Int : Bucket(i) = Bucket(k) /\ Index(Bucket(i)) = cursor.index + k
  BY DEF OnGrid
<1>2. cursor.start \in Nat /\ period \in Nat \ {0}
  BY Numbers
<1>3. i * period \in Int /\ k * period \in Int
  BY <1>2
<1>4. i * period = k * period
  BY <1>1, <1>2, <1>3 DEF Bucket
<1>5. i = k
  BY <1>2, <1>4, Regrid
<1> QED
  BY <1>1, <1>5

LEMMA TakenRegular ==
  ASSUME NEW w \in Time, NEW x \in Swap, Taken(w, x)
  PROVE  Regular'
<1> SUFFICES ASSUME holes' = {}, changed' = 0
             PROVE  cursor'.start % period = 0 /\ \A s \in Starts' : OnGrid(s)'
  BY DEF Regular, Taken, Takes
<1>0. /\ Starts' = Starts \cup New /\ \A s \in Starts : rows'[s].index = Index(s) /\ Index(s) \in Nat \ {0}
      /\ \A u \in New : u \in Nat /\ u <= w
      /\ w \in Nat /\ cursor.index \in Nat /\ cursor.start \in Nat /\ period \in Nat \ {0}
      /\ \A s \in Starts : s \in Nat
  BY TakenRows, Numbers DEF Taken, IInv
<1>1. /\ holes = {} /\ changed = 0 /\ period' = period /\ w % period = 0
      /\ cursor.start % period = 0 /\ \A s \in Starts : OnGrid(s)
  BY DEF Taken, Takes, IInv, Regular
<1>2. ASSUME NEW n \in Int, cursor' = [index |-> cursor.index + n, start |-> Bucket(n)],
             NEW s, NEW i \in Int, s = Bucket(i), s \in Starts', rows'[s].index = cursor.index + i
      PROVE  OnGrid(s)'
  <2>1. s = cursor.start + i * period /\ cursor'.start = cursor.start + n * period
    BY <1>2 DEF Bucket
  <2>2. s = cursor'.start + (i - n) * period
    BY <2>1, <1>0, <1>2, Regrid
  <2>3. rows'[s].index = cursor'.index + (i - n) /\ i - n \in Int
    BY <1>0, <1>2
  <2> QED
    BY <1>1, <2>2, <2>3 DEF OnGrid, Bucket, Index
<1>3. cursor = [index |-> cursor.index + 0, start |-> Bucket(0)]
  BY <1>0 DEF Bucket, Taken, IInv, TypeOK
<1>4. CASE Stays(w, x)
  <2>1. Starts' = Starts /\ cursor' = cursor
    BY <1>0, <1>4 DEF Stays
  <2>2. ASSUME NEW s \in Starts PROVE OnGrid(s)'
    <3>1. PICK i \in Int : s = Bucket(i) /\ Index(s) = cursor.index + i
      BY <1>1 DEF OnGrid
    <3> QED
      BY <1>0, <1>2, <1>3, <2>1, <3>1
  <2> QED
    BY <1>1, <2>1, <2>2
<1>5. CASE Reopens(w)
  <2>1. /\ Starts' = Starts \cup {w} /\ cursor' = cursor /\ w = Bucket(0)
        /\ rows'[w].index = cursor.index + 0
    BY <1>0, <1>5 DEF Reopens, Bucket
  <2>2. ASSUME NEW s \in Starts PROVE OnGrid(s)'
    <3>1. PICK i \in Int : s = Bucket(i) /\ Index(s) = cursor.index + i
      BY <1>1 DEF OnGrid
    <3> QED
      BY <1>0, <1>2, <1>3, <2>1, <3>1
  <2>3. OnGrid(w)'
    BY <1>2, <1>3, <2>1
  <2> QED
    BY <1>1, <2>1, <2>2, <2>3
<1>6. CASE w > cursor.start /\ Steps(w) = 0
  \* The next window is a whole period on.
  <2>1. w \notin GapFill(w)
    BY <1>6 DEF GapFill
  <2>2. w - cursor.start > MAX_GAP_STEPS * period
    BY <1>1, <1>6, <2>1, Gap DEF Taken, IInv
  <2>3. w < cursor.start + period
    BY <1>6, Gap DEF Taken, IInv
  <2>4. MAX_GAP_STEPS * period >= period
    <3>1. MAX_GAP_STEPS \in Nat /\ 0 < MAX_GAP_STEPS
      BY OhlcvAssumption
    <3>2. 0 * period + period <= MAX_GAP_STEPS * period
      BY <1>0, <3>1, Grow
    <3>3. MAX_GAP_STEPS * period \in Nat /\ 0 * period = 0
      BY <1>0, <3>1
    <3> QED
      BY <1>0, <3>2, <3>3
  <2>5. MAX_GAP_STEPS * period \in Nat
    BY <1>0, OhlcvAssumption
  <2> QED
    BY <1>0, <2>2, <2>3, <2>4, <2>5
<1>7. CASE Fills(w, x)
  <2> DEFINE n == Steps(w)
  <2>1. /\ cursor' = [index |-> IndexAfter(n), start |-> w] /\ w > cursor.start
        /\ n \in Nat /\ n \in 1..n
        /\ \A i \in 1..n : Bucket(i) \in Starts' /\ rows'[Bucket(i)].index = IndexAfter(i)
        /\ \A u \in New : \E i \in 1..n : u = Bucket(i)
    BY <1>7, FillsRows
  <2>2. w \in GapFill(w)
    <3>1. ASSUME w \notin GapFill(w) PROVE FALSE
      <4>1. w \in (cursor.start + 1)..w
        BY <1>0, <2>1
      <4>2. ~Misaligned(w)
        BY <1>7, Missed DEF Fills, Taken, IInv
      <4> QED
        BY <1>7, <3>1, <4>1, <4>2 DEF Fills, Skipped
    <3> QED
      BY <3>1
  <2>3. w = Bucket(n)
    BY <2>1, <2>2, Gap DEF Taken, IInv
  <2>4. ASSUME NEW i \in 1..n PROVE IndexAfter(i) = cursor.index + i
    <3>0. i \in Nat /\ i <= n
      BY <2>1
    <3>1. PICK j \in 0..i : Known(j) /\ NoneIn(j, i)
      BY <3>0, LastKnown
    <3>2. IndexAfter(i) = Base(j) + (i - j)
      BY <3>0, <3>1, IndexFrom
    <3>3. Base(j) = cursor.index + j
      <4>1. CASE j = 0
        BY <1>0, <4>1 DEF Base
      <4>2. CASE j # 0
        <5>1. Bucket(j) \in Starts /\ j \in Int
          BY <3>0, <3>1, <4>2 DEF Known
        <5>2. Index(Bucket(j)) = cursor.index + j
          BY <1>1, <5>1, OnGridAt DEF Taken, IInv
        <5> QED
          BY <4>2, <5>2 DEF Base, Index
      <4> QED
        BY <4>1, <4>2
    <3> QED
      BY <1>0, <3>0, <3>2, <3>3
  <2>5. cursor' = [index |-> cursor.index + n, start |-> Bucket(n)]
    BY <2>1, <2>3, <2>4
  <2>6. ASSUME NEW s \in Starts' PROVE OnGrid(s)'
    <3>1. CASE s \in Starts
      <4>1. PICK i \in Int : s = Bucket(i) /\ Index(s) = cursor.index + i
        BY <1>1, <3>1 DEF OnGrid
      <4> HIDE DEF n
      <4> QED
        BY <1>0, <1>2, <2>1, <2>5, <3>1, <4>1
    <3>2. CASE s \in New
      <4>1. PICK i \in 1..n : s = Bucket(i)
        BY <2>1, <3>2
      <4>2. rows'[s].index = cursor.index + i /\ i \in Int
        BY <2>1, <2>4, <4>1
      <4> HIDE DEF n
      <4> QED
        BY <1>0, <1>2, <2>1, <2>5, <3>2, <4>1, <4>2
    <3> QED
      BY <1>0, <3>1, <3>2
  <2> QED
    BY <1>1, <2>1, <2>6
<1>8. CASE First(w)
  <2>1. Starts' = {w} /\ rows'[w].index = 1 /\ cursor'.index = 1 /\ cursor'.start = w
    BY <1>0, <1>8 DEF First
  <2>2. rows'[w].index = cursor'.index + 0 /\ w = cursor'.start + 0 * period
    BY <1>0, <2>1
  <2>3. OnGrid(w)'
    BY <1>1, <2>2 DEF OnGrid, Bucket, Index
  <2> QED
    BY <1>1, <2>1, <2>3
<1> QED
  BY <1>4, <1>5, <1>6, <1>7, <1>8 DEF Taken, Located, Opens, Moves

LEMMA TakenPassed ==
  ASSUME NEW w \in Time, NEW x \in Swap, Taken(w, x)
  PROVE  Passed'
<1> SUFFICES ASSUME NEW u \in Time, u % period = 0, u >= changed, u >= pruned
             PROVE  /\ u > cursor'.start /\ (\E t \in Starts' : u <= t) => u \in Starts' \cup holes'
                    /\ u <= cursor'.start /\ (\E s \in Starts' : s <= u) => u \in Starts' \cup holes'
  BY DEF Passed, Taken, Takes
<1>0. /\ Starts' = Starts \cup New /\ \A s \in Starts : s \in Nat
      /\ \A v \in New : v \in Nat /\ v <= w /\ cursor.start <= v
      /\ w \in Nat /\ cursor.start \in Nat /\ period \in Nat \ {0} /\ u \in Nat
  BY TakenRows, Numbers DEF Taken, IInv
<1>1. /\ holes \subseteq holes' /\ w % period = 0
      /\ u > cursor.start /\ (\E t \in Starts : u <= t) => u \in Starts \cup holes
      /\ u <= cursor.start /\ (\E s \in Starts : s <= u) => u \in Starts \cup holes
  BY DEF Taken, Takes, IInv, Passed
<1>2. CASE Stays(w, x)
  BY <1>0, <1>1, <1>2 DEF Stays
<1>3. CASE Reopens(w)
  BY <1>0, <1>1, <1>3 DEF Reopens
<1>4. CASE Opens(w) \/ Moves(w)
  <2>1. w > cursor.start /\ Steps(w) = 0 /\ cursor'.start = w /\ w \in Starts'
    BY <1>0, <1>4 DEF Opens, Moves
  <2>2. u < w => u <= cursor.start
    <3>1. ASSUME u < w PROVE u + period <= w
      <4>0. u <= w
        BY <1>0, <3>1
      <4>1. w = u + ((w - u) \div period) * period
        BY <1>0, <1>1, <4>0, Onward
      <4>2. w - u \in Nat
        BY <1>0, <3>1
      <4>3. (w - u) \div period \in Nat
        BY <1>0, <4>2, Divided
      <4>4. (w - u) \div period # 0
        BY <1>0, <3>1, <4>1
      <4>5. 0 * period + period <= ((w - u) \div period) * period
        BY <1>0, <4>3, <4>4, Grow
      <4>6. 0 * period = 0 /\ ((w - u) \div period) * period \in Nat
        BY <1>0, <4>3
      <4> QED
        BY <1>0, <4>1, <4>5, <4>6
    <3>2. w < cursor.start + period
      BY <2>1, Gap DEF Taken, IInv
    <3> QED
      BY <1>0, <3>1, <3>2
  <2>3. ASSUME u > w, NEW t \in Starts', u <= t PROVE u \in Starts' \cup holes'
    <3>1. t \in Starts /\ u > cursor.start
      BY <1>0, <2>1, <2>3
    <3> QED
      BY <1>0, <1>1, <2>3, <3>1
  <2>4. ASSUME u < w, NEW s \in Starts', s <= u PROVE u \in Starts' \cup holes'
    <3>1. s \in Starts
      BY <1>0, <1>4, <2>4 DEF Opens, Moves
    <3> QED
      BY <1>0, <1>1, <2>2, <2>4, <3>1
  <2> QED
    BY <1>0, <2>1, <2>3, <2>4
<1>5. CASE Fills(w, x)
  <2>1. /\ cursor'.start = w /\ w > cursor.start /\ New = GapFill(w) \ Starts
        /\ holes' = holes \cup Skipped(w) /\ ~Misaligned(w)
    BY <1>5, FillsRows, Missed DEF Fills, Taken, IInv
  <2>2. GapFill(w) \subseteq Starts'
    BY <1>0, <2>1
  <2>3. ASSUME u > cursor.start, u <= w PROVE u \in Starts' \cup holes'
    <3>1. CASE w \notin GapFill(w)
      <4>1. u \in (cursor.start + 1)..w
        BY <1>0, <2>3
      <4> QED
        BY <2>1, <2>2, <3>1, <4>1 DEF Skipped
    <3>2. CASE w \in GapFill(w)
      <4>1. PICK n \in Nat : n = Steps(w) /\ n >= 1 /\ w = Bucket(n)
        BY <2>1, <3>2, Gap DEF Taken, IInv
      <4>2. w = u + ((w - u) \div period) * period
        BY <1>0, <1>1, <2>3, Onward
      <4>3. (w - u) \div period \in Nat
        <5>1. w - u \in Nat
          BY <1>0, <2>3
        <5> QED
          BY <1>0, <5>1, Divided
      <4>4. PICK m \in Nat : w = u + m * period
        BY <4>2, <4>3
      <4>5. w = cursor.start + n * period
        BY <4>1 DEF Bucket
      <4>6. n * period \in Nat /\ m * period \in Nat
        BY <1>0
      <4>7. m * period < n * period
        BY <1>0, <2>3, <4>4, <4>5, <4>6
      <4>8. m < n
        <5>1. ASSUME n < m PROVE FALSE
          BY <1>0, <4>6, <4>7, <5>1, Grow
        <5> QED
          BY <4>7, <4>6, <5>1
      <4>9. u = cursor.start + (n - m) * period
        <5>1. (n - m) * period = n * period - m * period
          BY <1>0
        <5> QED
          BY <1>0, <4>4, <4>5, <4>6, <5>1
      <4>10. n - m \in 1..n
        BY <4>8
      <4>11. u \in GapFill(w)
        BY <4>1, <4>9, <4>10 DEF GapFill, Bucket
      <4> QED
        BY <2>2, <4>11
    <3> QED
      BY <3>1, <3>2
  <2>4. ASSUME u > w, NEW t \in Starts', u <= t PROVE u \in Starts' \cup holes'
    BY <1>0, <1>1, <2>1, <2>4
  <2>5. ASSUME u <= cursor.start, NEW s \in Starts', s <= u PROVE u \in Starts' \cup holes'
    <3>1. s \in Starts
      <4>1. ASSUME s \in New PROVE s > cursor.start
        <5>1. PICK i \in 1..Steps(w) : s = Bucket(i)
          BY <2>1, <4>1 DEF GapFill
        <5> QED
          BY <2>1, <5>1, Gap DEF Taken, IInv
      <4> QED
        BY <1>0, <2>5, <4>1
    <3> QED
      BY <1>0, <1>1, <2>5, <3>1
  <2> QED
    BY <1>0, <2>1, <2>3, <2>4, <2>5
<1>6. CASE First(w)
  BY <1>0, <1>6 DEF First
<1> QED
  BY <1>2, <1>3, <1>4, <1>5, <1>6 DEF Taken, Located

LEMMA TakenTallied ==
  ASSUME NEW w \in Time, NEW x \in Swap, Taken(w, x)
  PROVE  Tallied'
<1> SUFFICES ASSUME NEW u \in Time, u >= changed, u >= pruned, u \notin holes', u \notin unlocked
             PROVE  /\ u \in Starts' => rows'[u].count = counted'[u]
                    /\ u \notin Starts' /\ counted'[u] > 0 =>
                         u < cursor'.start /\ \A s \in Starts' : u < s
  BY DEF Tallied, Taken, Takes
<1>0. /\ Starts' = Starts \cup New /\ New \cap Starts = {} /\ \A s \in Starts : s \in Nat /\ rows[s] \in Row
      /\ \A v \in New : v \in Nat /\ v <= w /\ cursor.start <= v
      /\ w \in Nat /\ cursor.start \in Nat /\ period \in Nat \ {0} /\ u \in Nat
  BY TakenRows, Numbers DEF Taken, IInv
<1>1. /\ u \notin holes
      /\ u \in Starts => rows[u].count = counted[u]
      /\ u \notin Starts /\ counted[u] > 0 => u < cursor.start /\ \A s \in Starts : u < s
  BY DEF Taken, Takes, IInv, Tallied
<1>2. /\ counted[u] \in Nat
      /\ counted'[u] = counted[u] + (IF u = w /\ x # NoSwap THEN 1 ELSE 0)
  BY DEF Taken, Takes, Count, IInv, TypeOK
<1>3. ASSUME u \in Starts PROVE rows'[u].count = counted'[u]
  <2>1. CASE u # w
    <3>1. rows'[u] = rows[u]
      BY <1>3, <2>1 DEF Taken, Takes
    <3> QED
      BY <1>1, <1>2, <1>3, <2>1, <3>1
  <2>2. CASE u = w
    <3>1. rows'[w] = Merged(rows[w], x)
      BY <1>3, <2>2 DEF Taken, Takes
    <3>2. Merged(rows[w], x).count = rows[w].count + (IF x = NoSwap THEN 0 ELSE 1)
      BY <1>0, <1>3, <2>2, MergedType
    <3> QED
      BY <1>1, <1>2, <1>3, <2>2, <3>1, <3>2
  <2> QED
    BY <2>1, <2>2
<1>4. ASSUME u \in New PROVE rows'[u].count = counted'[u]
  <2>1. counted[u] = 0
    BY <1>0, <1>1, <1>2, <1>4
  <2>2. rows'[u] = NewRow(rows'[u].index, IF u = w THEN x ELSE NoSwap, Tail)
    BY <1>4 DEF Taken, Takes
  <2>3. rows'[u].count = IF u = w /\ x # NoSwap THEN 1 ELSE 0
    BY <2>2 DEF NewRow
  <2> QED
    BY <1>2, <2>1, <2>3
<1>5. cursor'.start >= cursor.start \/ First(w)
  BY <1>0 DEF Taken, Located, Stays, Reopens, Opens, Moves, Fills
<1>6. w \in Starts' \/ w \in holes' \/ Stays(w, x)
  <2>1. CASE Fills(w, x)
    <3>1. ~Misaligned(w) /\ w > cursor.start
      BY <2>1, Missed DEF Fills, Taken, IInv
    <3>2. w \in (cursor.start + 1)..w
      BY <1>0, <3>1
    <3> QED
      BY <1>0, <2>1, <3>1, <3>2 DEF Fills, Skipped
  <2> QED
    BY <1>0, <2>1 DEF Taken, Located, Reopens, Opens, Moves, First
<1>7. ASSUME u \notin Starts', counted'[u] > 0
      PROVE  u < cursor'.start /\ \A s \in Starts' : u < s
  <2>1. CASE First(w)
    <3>1. cursor = None /\ w \in Starts'
      BY <1>0, <2>1 DEF First
    <3>2. counted[u] = 0
      BY <3>1 DEF Taken, IInv, Before
    <3> QED
      BY <1>2, <1>7, <3>1, <3>2
  <2>2. CASE ~First(w) /\ counted[u] > 0
    <3>1. u \notin Starts
      BY <1>0, <1>7
    <3>2. u < cursor.start /\ \A s \in Starts : u < s
      BY <1>1, <2>2, <3>1
    <3>3. u < cursor'.start
      <4>1. cursor'.start \in Nat /\ cursor'.start >= cursor.start
        BY <1>5, <2>2, TakenCursor DEF Time
      <4> QED
        BY <1>0, <3>2, <4>1
    <3>4. \A s \in New : u < s
      BY <1>0, <3>2
    <3> QED
      BY <1>0, <3>2, <3>3, <3>4
  <2>3. CASE ~First(w) /\ counted[u] = 0
    <3>1. u = w /\ x # NoSwap
      BY <1>2, <1>7, <2>3
    <3>2. Stays(w, x)
      BY <1>6, <1>7, <3>1
    <3>3. w < cursor.start /\ Starts' = Starts /\ cursor' = cursor /\ w \notin Starts
      BY <1>0, <1>7, <3>1, <3>2 DEF Stays
    <3>4. ASSUME NEW s \in Starts, s <= w PROVE FALSE
      BY <1>0, <1>1, <3>1, <3>3, <3>4 DEF Taken, Takes, IInv, Passed
    <3> QED
      BY <1>0, <3>1, <3>3, <3>4
  <2> QED
    BY <1>2, <2>1, <2>2, <2>3
<1> QED
  BY <1>0, <1>3, <1>4, <1>7

-----------------------------------------------------------------------------
(* The candles.                                                            *)

LEMMA RegularSorted ==
  ASSUME TypeOK, \A s \in Starts : OnGrid(s)
  PROVE  Sorted(Starts)
<1> SUFFICES ASSUME NEW s \in Starts, NEW t \in Starts, s < t PROVE Index(s) < Index(t)
  BY DEF Sorted
<1>1. PICK i \in Int : s = Bucket(i) /\ Index(s) = cursor.index + i
  BY DEF OnGrid
<1>2. PICK j \in Int : t = Bucket(j) /\ Index(t) = cursor.index + j
  BY DEF OnGrid
<1>3. cursor.start \in Nat /\ cursor.index \in Nat /\ period \in Nat \ {0}
  BY Numbers
<1>4. i * period < j * period /\ i * period \in Int /\ j * period \in Int
  BY <1>1, <1>2, <1>3 DEF Bucket
<1>5. ASSUME j <= i PROVE FALSE
  <2>1. j = i \/ j * period + period <= i * period
    BY <1>3, <1>5, Grow
  <2> QED
    BY <1>3, <1>4, <2>1
<1> QED
  BY <1>1, <1>2, <1>3, <1>5

LEMMA Undisturbed ==
  ASSUME IInv, ~Disturbed
  PROVE  Sorted(Starts)
<1>1. CASE unlocked = {}
  BY <1>1 DEF IInv, Locked
<1>2. CASE holes = {} /\ changed = 0
  BY <1>2, RegularSorted DEF IInv, Regular
<1> QED
  BY <1>1, <1>2 DEF Disturbed

LEMMA NewBeyond ==
  ASSUME NEW w \in Time, NEW x \in Swap, Taken(w, x), ~Disturbed', NEW u \in New, u >= pruned,
         NEW s \in Starts
  PROVE  s < u
<1>0. /\ u \in Nat /\ u <= w /\ cursor.start <= u /\ u \notin Starts /\ u \in Time
      /\ s \in Nat /\ cursor.start \in Nat /\ period \in Nat \ {0} /\ cursor # None
  BY TakenRows, Numbers DEF Taken, IInv, First
<1>1. CASE unlocked = {}
  BY <1>0, <1>1 DEF Taken, IInv, Locked
<1>2. CASE unlocked # {}
  <2>1. holes' = {} /\ holes = {} /\ changed = 0
    BY <1>2 DEF Disturbed, Taken, Takes
  <2>2. cursor.start % period = 0
    BY <2>1 DEF Taken, IInv, Regular
  <2>3. u = w \/ \E i \in Nat : u = Bucket(i)
    <3>1. CASE Fills(w, x)
      <4>1. PICK i \in 1..Steps(w) : u = Bucket(i)
        BY <3>1, FillsRows
      <4>2. Steps(w) \in Nat
        BY <3>1, FillsRows
      <4> QED
        BY <4>1, <4>2
    <3> QED
      BY <3>1 DEF Taken, Located, Stays, Reopens, Opens, Moves, First
  <2>4. u % period = 0
    <3>1. CASE u = w
      BY <3>1 DEF Taken, Takes
    <3>2. CASE \E i \in Nat : u = Bucket(i)
      <4>1. PICK i \in Nat : u = cursor.start + i * period
        BY <3>2 DEF Bucket
      <4>2. PICK k \in Nat : cursor.start = k * period
        <5>1. PICK c : c = cursor.start
          OBVIOUS
        <5>2. PICK p : p = period
          OBVIOUS
        <5>3. c \in Nat /\ p \in Nat \ {0} /\ c % p = 0
          BY <1>0, <2>2, <5>1, <5>2
        <5>4. c \div p \in Nat /\ c = (c \div p) * p
          BY <5>3, Divided
        <5> QED
          BY <5>1, <5>2, <5>4
      <4>3. u = (k + i) * period /\ k + i \in Nat
        BY <1>0, <4>1, <4>2
      <4> QED
        BY <1>0, <4>3, Multiple
    <3> QED
      BY <2>3, <3>1, <3>2
  <2>5. u # cursor.start
    <3>1. ASSUME u = cursor.start PROVE FALSE
      <4>1. cursor.start < pruned
        BY <1>0, <2>1, <3>1 DEF Taken, IInv, CursorRow
      <4>2. pruned \in Nat
        BY Numbers DEF Taken, IInv, TypeOK
      <4> QED
        BY <1>0, <3>1, <4>1, <4>2
    <3> QED
      BY <3>1
  <2>6. ASSUME u <= s PROVE FALSE
    <3>1. u \in Starts \cup holes
      BY <1>0, <2>1, <2>4, <2>5, <2>6 DEF Taken, IInv, Passed
    <3> QED
      BY <1>0, <2>1, <3>1
  <2> QED
    BY <1>0, <2>6
<1> QED
  BY <1>1, <1>2

LEMMA JoinsKept ==
  ASSUME NEW w \in Time, NEW x \in Swap, Taken(w, x),
         NEW t \in Starts, NEW r \in Row, Joins(r, t)
  PROVE  Joins(r, t)'
<1> SUFFICES ASSUME ~Disturbed', NEW s \in Starts', Adjacent(s, t)', s \notin late' \cup unlocked'
             PROVE  GoesOn(rows'[s], r)
  BY DEF Joins
<1>0. /\ Starts' = Starts \cup New /\ \A v \in New : v \in Nat
      /\ t \in Nat /\ \A v \in Starts : v \in Nat /\ rows[v] \in Row
  BY TakenRows, Numbers DEF Taken, IInv
<1>1. pruned' = pruned /\ unlocked' = unlocked /\ late \subseteq late' /\ ~Disturbed
  BY DEF Taken, Takes, Late, Disturbed
<1>2. pruned <= s /\ s < t
  BY <1>1 DEF Adjacent
<1>3. s \in Starts
  <2>1. ASSUME s \in New PROVE FALSE
    <3>1. t < s
      BY <1>2, <2>1, NewBeyond
    <3> QED
      BY <1>0, <1>2, <2>1, <3>1
  <2> QED
    BY <1>0, <2>1
<1>4. Adjacent(s, t)
  BY <1>0, <1>1, <1>3, StillAdjacent
<1>5. GoesOn(rows[s], r)
  BY <1>1, <1>3, <1>4 DEF Joins
<1>6. rows'[s] = rows[s]
  <2>1. CASE s # w
    BY <1>3, <2>1 DEF Taken, Takes
  <2>2. CASE s = w
    <3>1. x = NoSwap
      <4>1. ASSUME x # NoSwap PROVE FALSE
        <5>1. w \in late'
          BY <1>2, <2>2, <4>1 DEF Taken, Takes, Late
        <5> QED
          BY <2>2, <5>1
      <4> QED
        BY <4>1
    <3> QED
      BY <1>3, <2>2, <3>1 DEF Taken, Takes, Merged
  <2> QED
    BY <2>1, <2>2
<1> QED
  BY <1>5, <1>6

LEMMA JoinsMerged ==
  ASSUME TypeOK, NEW w, NEW x \in Swap, NEW r \in Row, Joins(r, w)
  PROVE  Joins(Merged(r, x), w)
  BY MergedJoins, Numbers DEF Joins

LEMMA TakenLinked ==
  ASSUME NEW w \in Time, NEW x \in Swap, Taken(w, x)
  PROVE  Linked' /\ (\A b \in Actor : Read(tx[b]))'
<1>0. /\ Starts' = Starts \cup New /\ Starts \subseteq Time
      /\ \A v \in New : v \in Nat /\ v <= w
      /\ w \in Nat /\ \A v \in Starts : v \in Nat /\ rows[v] \in Row /\ rows'[v].index = Index(v)
  BY TakenRows, Numbers DEF Taken, IInv
<1>1. ASSUME NEW t \in Starts PROVE (Joins(rows[t], t))'
  <2>1. Joins(rows[t], t) /\ rows[t] \in Row
    BY <1>0 DEF Taken, IInv, Linked
  <2>2. PICK r : r = rows'[t]
    OBVIOUS
  <2>3. r = rows[t] \/ r = Merged(rows[t], x)
    BY <2>2 DEF Taken, Takes
  <2>4. Joins(r, t) /\ r \in Row
    BY <2>1, <2>3, JoinsMerged, MergedType DEF Taken, IInv
  <2>5. Joins(r, t)'
    BY <2>4, JoinsKept
  <2> QED
    BY <2>2, <2>5 DEF Joins
<1>2. ASSUME NEW t \in New PROVE (Joins(rows[t], t))'
  <2> SUFFICES ASSUME ~Disturbed', NEW s \in Starts', Adjacent(s, t)'
               PROVE  GoesOn(rows'[s], rows'[t])
    BY DEF Joins
  <2>1. pruned' = pruned /\ ~Disturbed
    BY DEF Taken, Takes, Disturbed
  <2>2. pruned <= s /\ s < t /\ ~\E v \in Starts' : s < v /\ v < t
    BY <2>1 DEF Adjacent
  <2>3. rows'[t] = NewRow(rows'[t].index, IF t = w THEN x ELSE NoSwap, Tail)
    BY DEF Taken, Takes
  <2>4. CASE s \in Starts
    <3>1. pruned <= t
      <4>1. pruned \in Nat
        BY Numbers DEF Taken, IInv, TypeOK
      <4> QED
        BY <1>0, <2>2, <2>4, <4>1
    <3>2. \A y \in Starts : y < t
      BY <3>1, NewBeyond
    <3>3. \A y \in Starts : y <= s
      BY <1>0, <2>2, <2>4, <3>2
    <3>4. Tail.close = rows[s].close /\ Tail.total = rows[s].total
      BY <1>0, <2>1, <2>4, <3>3, Undisturbed, LatestTail DEF Taken
    <3>5. rows'[s] = rows[s]
      <4>1. s # w
        BY <1>0, <2>2, <2>4
      <4> QED
        BY <2>4, <4>1 DEF Taken, Takes
    <3>6. GoesOn(rows[s], NewRow(rows'[t].index, IF t = w THEN x ELSE NoSwap, Tail))
      BY <3>4, NewRowJoins
    <3> QED
      BY <2>3, <3>5, <3>6
  <2>5. CASE s \in New
    <3>1. s # w
      BY <1>0, <2>2, <2>5
    <3>2. rows'[s] = NewRow(rows'[s].index, NoSwap, Tail)
      BY <2>5, <3>1 DEF Taken, Takes
    <3>3. Tail.total \in Nat
      BY <1>0, TailType
    <3>4. Tail.close = rows'[s].close /\ Tail.total = rows'[s].total
      BY <3>2, <3>3 DEF NewRow
    <3>5. GoesOn(rows'[s], NewRow(rows'[t].index, IF t = w THEN x ELSE NoSwap, Tail))
      BY <3>4, NewRowJoins
    <3> QED
      BY <2>3, <3>5
  <2> QED
    BY <1>0, <2>4, <2>5
<1>3. ASSUME NEW b \in Actor PROVE (Read(tx[b]))'
  <2>1. CASE tx'[b] = Idle
    BY <2>1 DEF Read, Idle
  <2>2. CASE tx'[b] = tx[b]
    <3>0. PICK y : y = tx[b]
      OBVIOUS
    <3>1. Read(y)
      BY <3>0 DEF Taken, IInv
    <3>2. ASSUME y.pc \in {"merge", "write"} PROVE y.w \in Starts' /\ rows'[y.w].index = y.index
      BY <1>0, <3>1, <3>2 DEF Read
    <3>3. ASSUME y.pc = "write"
          PROVE  \E r \in Row : y.found = {r} /\ r.index = y.index /\ Quoted(r) /\ Joins(r, y.w)'
      <4>1. PICK r \in Row : y.found = {r} /\ r.index = y.index /\ Quoted(r) /\ Joins(r, y.w)
        BY <3>1, <3>3 DEF Read
      <4>2. y.w \in Starts
        BY <3>1, <3>3 DEF Read
      <4>3. PICK v \in Starts : v = y.w
        BY <4>2
      <4>4. Joins(r, v)'
        BY <4>1, <4>3, JoinsKept
      <4> QED
        BY <4>1, <4>3, <4>4 DEF Joins
    <3>4. tx'[b] = y
      BY <2>2, <3>0
    <3> HIDE DEF Read
    <3> QED
      BY <3>2, <3>3, <3>4 DEF Read, Index
  <2> QED
    BY <2>1, <2>2 DEF Taken, Closing
<1> QED
  BY <1>0, <1>1, <1>2, <1>3 DEF Linked

LEMMA TakenInv ==
  ASSUME NEW w \in Time, NEW x \in Swap, Taken(w, x)
  PROVE  IInv'
<1>1. TypeOK' /\ Bounds' /\ Before' /\ (\A s \in Starts : Quoted(rows[s]))'
  BY TakenType
<1>2. CursorRow' /\ Linked' /\ (\A b \in Actor : Read(tx[b]))'
  BY TakenCursorRow, TakenLinked
<1>3. Dense'
  BY TakenDense DEF Dense, Index
<1>4. AheadOrder' /\ Locked' /\ Regular' /\ Passed' /\ Tallied'
  BY TakenAhead, TakenLocked, TakenRegular, TakenPassed, TakenTallied
<1> QED
  BY <1>1, <1>2, <1>3, <1>4 DEF IInv

-----------------------------------------------------------------------------
(* Steps that leave the rows and the cursor alone.                         *)

LEMMA JoinsSame ==
  ASSUME UNCHANGED <<rows, history>>, NEW r, NEW t, Joins(r, t)
  PROVE  Joins(r, t)'
  BY DEF history, Joins, Disturbed, Adjacent, Starts

LEMMA ReadSame ==
  ASSUME UNCHANGED <<rows, history>>, NEW y, Read(y)
  PROVE  Read(y)'
<1>1. y.pc \in {"merge", "write"} => y.w \in Starts' /\ rows'[y.w].index = y.index
  BY DEF Read, Starts, Index
<1>2. ASSUME y.pc = "write"
      PROVE  \E r \in Row : y.found = {r} /\ r.index = y.index /\ Quoted(r) /\ Joins(r, y.w)'
  <2>1. PICK r \in Row : y.found = {r} /\ r.index = y.index /\ Quoted(r) /\ Joins(r, y.w)
    BY <1>2 DEF Read
  <2>2. PICK t : t = y.w
    OBVIOUS
  <2>3. Joins(r, t)'
    BY <2>1, <2>2, JoinsSame
  <2> QED
    BY <2>1, <2>2, <2>3
<1> QED
  BY <1>1, <1>2 DEF Read, Index

LEMMA Unmoved ==
  ASSUME IInv, UNCHANGED <<period, rows, cursor, history>>, now' \in Time, now' >= now,
         tx' \in [Actor -> Tx],
         \A b \in Actor : tx'[b] # Idle =>
           tx'[b].w <= now' /\ tx'[b].w % period = 0 /\ tx'[b].swap \in Price \cup {NoSwap},
         (\A b \in Actor : Read(tx[b]))',
         Opened' /\ cursor # None => Opened
  PROVE  IInv'
<1>1. UNCHANGED <<counted, late, unlocked, holes, pruned, changed>> /\ Starts' = Starts
  BY DEF history, Starts
<1>2. TypeOK'
  BY <1>1 DEF IInv, TypeOK
<1>3. Bounds'
  <2>1. now \in Nat /\ now' \in Nat /\ cursor.start \in Nat /\ changed \in Nat /\ Starts \subseteq Nat
    BY Numbers, OhlcvAssumption DEF IInv, TypeOK, Time
  <2>2. Starts \subseteq 0..now /\ cursor.start <= now /\ changed <= now
    BY DEF IInv, Bounds
  <2>3. Starts' \subseteq 0..now' /\ cursor'.start <= now' /\ changed' <= now'
    BY <1>1, <2>1, <2>2
  <2>4. Distinct(rows') /\ (cursor' # None => cursor'.index > 0)
    BY DEF IInv, Bounds
  <2> QED
    BY <2>3, <2>4 DEF Bounds
<1>4. Before' /\ CursorRow'
  BY <1>1 DEF IInv, Before, CursorRow, Index
<1>5. (\A s \in Starts : Quoted(rows[s]))'
  BY <1>1 DEF IInv
<1>6. Linked'
  <2>1. ASSUME NEW t \in Starts' PROVE (Joins(rows[t], t))'
    <3>1. PICK r : r = rows[t]
      OBVIOUS
    <3>2. Joins(r, t)
      BY <1>1, <3>1 DEF IInv, Linked
    <3>3. Joins(r, t)'
      BY <3>2, JoinsSame
    <3>4. rows'[t] = r
      BY <3>1
    <3> QED
      BY <3>3, <3>4 DEF Joins
  <2> QED
    BY <2>1 DEF Linked
<1>7. AheadOrder' /\ Locked'
  BY <1>1 DEF IInv, AheadOrder, Locked, Sorted, Index, Adjacent
<1>8. Dense'
  BY <1>1 DEF IInv, Dense, Sorted, Index, HasIndex
<1>9. Regular'
  BY <1>1 DEF IInv, Regular, OnGrid, Bucket, Index
<1>10. Passed' /\ Tallied'
  BY <1>1 DEF IInv, Passed, Tallied
<1> QED
  BY <1>2, <1>3, <1>4, <1>5, <1>6, <1>7, <1>8, <1>9, <1>10 DEF IInv

LEMMA TickStep ==
  ASSUME IInv, Tick
  PROVE  IInv'
<1>1. now' \in Time /\ now' >= now
  BY Numbers DEF Tick, IInv, Time
<1>2. UNCHANGED <<period, rows, cursor, tx, history>> /\ \A b \in Actor : tx[b] = Idle
  BY DEF Tick
<1>3. (\A b \in Actor : Read(tx[b]))'
  <2>1. ASSUME NEW b \in Actor PROVE (Read(tx[b]))'
    BY <1>2 DEF Read, Idle
  <2> QED
    BY <2>1
<1>4. ~Opened' /\ tx' \in [Actor -> Tx]
  BY <1>2 DEF Opened, IInv, TypeOK
<1> QED
  BY <1>1, <1>2, <1>3, <1>4, Unmoved

LEMMA BeginStep ==
  ASSUME IInv, NEW a \in Actor, NEW t \in 0..now, NEW x \in Swap, Begin(a, t, x)
  PROVE  IInv'
<1>1. PICK w : w = alignBucketStart(t)
  OBVIOUS
<1>2. w \in Time /\ w <= now /\ w % period = 0
  <2>1. w <= t /\ t <= now /\ w \in Time
    BY <1>1, WindowOf, Numbers DEF IInv
  <2> QED
    BY <1>1, <2>1, WindowOf, Numbers DEF IInv
<1>3. PICK y : y = [pc |-> "find", w |-> w, swap |-> x]
  OBVIOUS
<1>4. y \in Tx /\ Read(y)' /\ y.w = w /\ y.swap = x
  <2>1. x \in Nat
    BY SwapType
  <2>2. y \in [pc : {"find", "insert"}, w : Time, swap : Nat]
    BY <1>2, <1>3, <2>1
  <2>3. Read(y)'
    BY <1>3 DEF Read
  <2> QED
    BY <1>3, <2>2, <2>3 DEF Tx
<1>5. /\ tx' = [tx EXCEPT ![a] = y] /\ UNCHANGED <<now, period, rows, cursor, history>>
      /\ cursor = None
  BY <1>1, <1>3 DEF Begin
<1>6. tx' \in [Actor -> Tx] /\ \A b \in Actor : tx'[b] = tx[b] \/ tx'[b] = y
  BY <1>4, <1>5 DEF IInv, TypeOK
<1>7. (\A b \in Actor : Read(tx[b]))'
  <2>1. ASSUME NEW b \in Actor PROVE (Read(tx[b]))'
    <3>1. PICK z : z = tx'[b]
      OBVIOUS
    <3>2. Read(z)'
      <4>1. CASE z = y
        BY <4>1, <1>4
      <4>2. CASE z = tx[b]
        <5>1. Read(z)
          BY <4>2 DEF IInv
        <5> QED
          BY <1>5, <5>1, ReadSame
      <4> QED
        BY <1>6, <3>1, <4>1, <4>2
    <3> QED
      BY <3>1, <3>2 DEF Read
  <2> QED
    BY <2>1
<1>8. \A b \in Actor : tx'[b] # Idle =>
        tx'[b].w <= now' /\ tx'[b].w % period = 0 /\ tx'[b].swap \in Price \cup {NoSwap}
  BY <1>2, <1>4, <1>5, <1>6 DEF IInv, Bounds, Swap
<1>9. now' \in Time /\ now' >= now
  BY <1>5, Numbers DEF IInv, TypeOK
<1> QED
  BY <1>5, <1>6, <1>7, <1>8, <1>9, Unmoved

\* A transaction without a lock reads, or gives up.
LEMMA ReadStep ==
  ASSUME IInv, NEW a \in Actor, tx[a] # Idle, NEW y \in Tx, Read(y),
         y # Idle => y.w = tx[a].w /\ y.swap = tx[a].swap,
         tx' = [tx EXCEPT ![a] = y], UNCHANGED <<now, period, rows, cursor, history>>
  PROVE  IInv'
<1>1. tx' \in [Actor -> Tx] /\ \A b \in Actor : tx'[b] = tx[b] \/ (b = a /\ tx'[b] = y)
  BY DEF IInv, TypeOK
<1>2. (\A b \in Actor : Read(tx[b]))'
  <2>1. ASSUME NEW b \in Actor PROVE (Read(tx[b]))'
    <3>1. PICK z : z = tx'[b]
      OBVIOUS
    <3>2. Read(z)
      BY <1>1, <3>1 DEF IInv
    <3>3. Read(z)'
      BY <3>2, ReadSame
    <3> QED
      BY <3>1, <3>3 DEF Read
  <2> QED
    BY <2>1
<1>3. \A b \in Actor : tx'[b] # Idle =>
        tx'[b].w <= now' /\ tx'[b].w % period = 0 /\ tx'[b].swap \in Price \cup {NoSwap}
  BY <1>1 DEF IInv, Bounds
<1>4. Opened
  BY DEF Opened
<1>5. now' \in Time /\ now' >= now
  BY Numbers DEF IInv, TypeOK
<1> QED
  BY <1>1, <1>2, <1>3, <1>4, <1>5, Unmoved

LEMMA FindWindowStep ==
  ASSUME IInv, NEW a \in Actor, FindWindow(a)
  PROVE  IInv'
<1>1. PICK x : x = tx[a]
  OBVIOUS
<1>2. x \in Tx /\ x.pc = "find" /\ x # Idle
  BY <1>1 DEF IInv, TypeOK, FindWindow, Idle
<1>3. x \in [pc : {"find", "insert"}, w : Time, swap : Nat]
  BY <1>2 DEF Tx
<1>4. UNCHANGED <<now, period, rows, cursor, history>>
  BY DEF FindWindow
<1>5. CASE x.w \in Starts
  <2>1. PICK y : y = [pc |-> "merge", w |-> x.w, swap |-> x.swap, index |-> rows[x.w].index]
    OBVIOUS
  <2>2. rows[x.w].index \in Nat
    BY <1>5, Numbers DEF IInv, Index
  <2>3. y \in [pc : {"merge"}, w : Time, swap : Nat, index : Nat]
    BY <1>3, <2>1, <2>2
  <2>4. Read(y)
    BY <1>5, <2>1 DEF Read, Index
  <2>5. y.w = x.w /\ y.swap = x.swap /\ tx' = [tx EXCEPT ![a] = y]
    BY <1>1, <1>5, <2>1 DEF FindWindow
  <2> QED
    BY <1>1, <1>2, <1>4, <2>3, <2>4, <2>5, ReadStep DEF Tx
<1>6. CASE x.w \notin Starts
  <2>1. PICK y : y = [x EXCEPT !.pc = "insert"]
    OBVIOUS
  <2>2. y \in [pc : {"find", "insert"}, w : Time, swap : Nat] /\ y.pc = "insert"
    BY <1>3, <2>1
  <2>3. Read(y)
    BY <2>2 DEF Read
  <2>4. y.w = x.w /\ y.swap = x.swap
    BY <1>3, <2>1
  <2>5. tx' = [tx EXCEPT ![a] = y]
    BY <1>1, <1>6, <2>1 DEF FindWindow
  <2> QED
    BY <1>1, <1>2, <1>4, <2>2, <2>3, <2>4, <2>5, ReadStep DEF Tx
<1> QED
  BY <1>5, <1>6

LEMMA ReadRowStep ==
  ASSUME IInv, NEW a \in Actor, ReadRow(a)
  PROVE  IInv'
<1>1. PICK x : x = tx[a]
  OBVIOUS
<1>2. x \in Tx /\ x.pc = "merge" /\ x # Idle
  BY <1>1 DEF IInv, TypeOK, ReadRow, Idle
<1>3. x \in [pc : {"merge"}, w : Time, swap : Nat, index : Nat]
  BY <1>2 DEF Tx, Idle
<1>4. PICK f : f = {rows[s] : s \in {s \in Starts : rows[s].index = x.index}}
  OBVIOUS
<1>5. PICK y : y = [pc |-> "write", w |-> x.w, swap |-> x.swap, index |-> x.index, found |-> f]
  OBVIOUS
<1>6. tx' = [tx EXCEPT ![a] = y] /\ UNCHANGED <<now, period, rows, cursor, history>>
  BY <1>1, <1>4, <1>5 DEF ReadRow
<1>7. x.w \in Starts /\ Index(x.w) = x.index
  BY <1>1, <1>2 DEF IInv, Read
<1>8. PICK r : r = rows[x.w]
  OBVIOUS
<1>9. r \in Row /\ r.index = x.index /\ Quoted(r) /\ Joins(r, x.w)
  BY <1>7, <1>8, Numbers DEF IInv, Linked, Index
<1>10. f = {r}
  <2>1. \A s \in Starts : rows[s].index = x.index => s = x.w
    BY <1>7 DEF IInv, Bounds, Distinct, Starts, Index
  <2>2. {s \in Starts : rows[s].index = x.index} = {x.w}
    BY <1>7, <2>1 DEF Index
  <2> QED
    BY <1>4, <1>8, <2>2
<1>11. y \in [pc : {"write"}, w : Time, swap : Nat, index : Nat, found : SUBSET Row]
  BY <1>3, <1>5, <1>9, <1>10
<1>12. Read(y)
  BY <1>5, <1>7, <1>9, <1>10 DEF Read
<1>13. y.w = x.w /\ y.swap = x.swap
  BY <1>5
<1> QED
  BY <1>1, <1>2, <1>6, <1>11, <1>12, <1>13, ReadStep DEF Tx

LEMMA InsertFirstStep ==
  ASSUME IInv, NEW a \in Actor, InsertFirst(a)
  PROVE  IInv'
<1>1. tx' = [tx EXCEPT ![a] = Idle] /\ tx[a] # Idle
  BY DEF InsertFirst, Idle
<1>2. CASE UNCHANGED <<now, period, rows, cursor, history>>
  <2>1. Idle \in Tx /\ Read(Idle)
    BY DEF Tx, Read, Idle
  <2> QED
    BY <1>1, <1>2, <2>1, ReadStep
<1>3. CASE /\ Takes(tx[a].w, tx[a].swap) /\ First(tx[a].w)
           /\ tx[a].w \in Time /\ tx[a].swap \in Swap
  <2>1. Closing
    BY <1>1 DEF Closing, IInv, TypeOK, Tx
  <2>2. Taken(tx[a].w, tx[a].swap)
    BY <1>3, <2>1 DEF Taken
  <2> QED
    BY <1>3, <2>2, TakenInv
<1> QED
  BY <1>2, <1>3, FirstStep

LEMMA AdvancedStep ==
  ASSUME IInv, NEW a \in Actor, NEW t \in 0..now, NEW x \in Swap, Advance(a, t, x)
  PROVE  IInv'
<1>1. CASE UNCHANGED vars
  <2>1. UNCHANGED <<now, period, rows, cursor, tx, history>>
    BY <1>1 DEF vars
  <2>2. (\A b \in Actor : Read(tx[b]))'
    <3>1. ASSUME NEW b \in Actor PROVE (Read(tx[b]))'
      <4>1. PICK z : z = tx[b]
        OBVIOUS
      <4>2. Read(z)'
        BY <2>1, <4>1, ReadSame DEF IInv
      <4>3. tx'[b] = z
        BY <2>1, <4>1
      <4> QED
        BY <4>2, <4>3 DEF Read
    <3> QED
      BY <3>1
  <2>3. Opened' => Opened
    BY <2>1 DEF Opened
  <2>4. now' \in Time /\ now' >= now /\ tx' \in [Actor -> Tx]
    BY <2>1, Numbers DEF IInv, TypeOK
  <2>5. \A b \in Actor : tx'[b] # Idle =>
          tx'[b].w <= now' /\ tx'[b].w % period = 0 /\ tx'[b].swap \in Price \cup {NoSwap}
    BY <2>1 DEF IInv, Bounds
  <2> QED
    BY <2>1, <2>2, <2>3, <2>4, <2>5, Unmoved
<1>2. CASE /\ UNCHANGED tx /\ cursor # None
           /\ Takes(alignBucketStart(t), x) /\ Located(alignBucketStart(t), x)
  <2>1. Closing
    BY <1>2 DEF Closing, IInv, TypeOK
  <2>2. alignBucketStart(t) \in Time
    BY WindowOf DEF IInv
  <2>3. Taken(alignBucketStart(t), x)
    BY <1>2, <2>1 DEF Taken
  <2> QED
    BY <2>2, <2>3, TakenInv
<1> QED
  BY <1>1, <1>2, AdvanceStep DEF IInv

-----------------------------------------------------------------------------
(* A transaction without a lock writes back what it has read.              *)

\* Row r of window w, read before, takes x; the cursor goes to w.
Written(w, x, r) ==
  /\ IInv /\ Opened /\ cursor # None /\ Closing
  /\ w \in Starts /\ w <= now /\ w % period = 0 /\ x \in Swap
  /\ r \in Row /\ r.index = Index(w) /\ Quoted(r) /\ Joins(r, w)
  /\ Starts' = Starts /\ \A s \in Starts : s # w => rows'[s] = rows[s]
  /\ rows'[w] = rows[w] \/ rows'[w] = Merged(r, x)
  /\ cursor' = [index |-> Index(w), start |-> w]
  /\ Count(w, x) /\ Late(w, x) /\ unlocked' = unlocked \cup {w}
  /\ UNCHANGED <<now, period, holes, pruned, changed>>

LEMMA WriteRowStep ==
  ASSUME IInv, NEW a \in Actor, WriteRow(a)
  PROVE  \E w \in Time, x \in Swap, r \in Row : Written(w, x, r)
<1>1. PICK y : y = tx[a]
  OBVIOUS
<1>2. y \in Tx /\ y.pc = "write" /\ y # Idle
  BY <1>1 DEF IInv, TypeOK, WriteRow, Idle
<1>3. y \in [pc : {"write"}, w : Time, swap : Nat, index : Nat, found : SUBSET Row]
  BY <1>2 DEF Tx, Idle
<1>4. y.w \in Starts /\ Index(y.w) = y.index
  BY <1>1, <1>2 DEF IInv, Read
<1>5. PICK r \in Row : y.found = {r} /\ r.index = y.index /\ Quoted(r) /\ Joins(r, y.w)
  BY <1>1, <1>2 DEF IInv, Read
<1>6. (CHOOSE q \in y.found : TRUE) = r
  BY <1>5
<1>7. PICK w : w = y.w
  OBVIOUS
<1>8. PICK x : x = y.swap
  OBVIOUS
<1>9. w \in Starts /\ w \in Time /\ Index(w) = y.index /\ r.index = Index(w) /\ Joins(r, w)
  BY <1>3, <1>4, <1>5, <1>7
<1>10. w <= now /\ w % period = 0 /\ x \in Swap
  BY <1>1, <1>2, <1>7, <1>8 DEF IInv, Bounds, Swap
<1>11. /\ tx' = [tx EXCEPT ![a] = Idle]
       /\ rows' = [s \in Starts |->
            IF rows[s].index = y.index /\ y.found # {} /\ x # NoSwap
              THEN Merged(CHOOSE q \in y.found : TRUE, x) ELSE rows[s]]
       /\ cursor' = [index |-> y.index, start |-> w]
       /\ Count(w, x) /\ Late(w, x) /\ unlocked' = unlocked \cup {w}
       /\ UNCHANGED <<now, period, holes, pruned, changed>>
  BY <1>1, <1>7, <1>8 DEF WriteRow
<1>12. Starts' = Starts
  BY <1>11 DEF Starts
<1>13. \A s \in Starts : s # w => rows'[s] = rows[s]
  <2>1. \A s \in Starts : rows[s].index = y.index => s = w
    BY <1>9 DEF IInv, Bounds, Distinct, Starts, Index
  <2> QED
    BY <1>11, <2>1
<1>14. rows'[w] = rows[w] \/ rows'[w] = Merged(r, x)
  BY <1>6, <1>9, <1>11
<1>15. Closing
  BY <1>11 DEF Closing, IInv, TypeOK, Tx
<1>16. Opened /\ cursor # None
  BY <1>1, <1>2, <1>9 DEF Opened, IInv, Before
<1>17. cursor' = [index |-> Index(w), start |-> w]
  BY <1>9, <1>11
<1>18. Written(w, x, r)
  BY <1>5, <1>9, <1>10, <1>11, <1>12, <1>13, <1>14, <1>15, <1>16, <1>17 DEF Written
<1> QED
  BY <1>9, <1>10, <1>18

LEMMA WrittenRows ==
  ASSUME NEW w \in Time, NEW x \in Swap, NEW r \in Row, Written(w, x, r)
  PROVE  /\ \A s \in Starts : /\ rows'[s] \in Row /\ rows'[s].index = Index(s) /\ Quoted(rows'[s])
                              /\ s \in Nat /\ Index(s) \in Nat \ {0}
         /\ Sorted(Starts) /\ w \in Nat
<1>1. \A s \in Starts : rows[s] \in Row /\ Quoted(rows[s]) /\ s \in Nat /\ Index(s) \in Nat \ {0}
  BY Numbers DEF Written, IInv
<1>2. ASSUME NEW s \in Starts
      PROVE  rows'[s] \in Row /\ rows'[s].index = Index(s) /\ Quoted(rows'[s])
  <2>1. CASE rows'[s] = rows[s]
    BY <1>1, <2>1 DEF Index
  <2>2. CASE s = w /\ rows'[s] = Merged(r, x)
    <3>1. Merged(r, x) \in Row /\ Merged(r, x).index = Index(w) /\ Quoted(Merged(r, x))
      BY MergedType DEF Written
    <3> QED
      BY <2>2, <3>1
  <2> QED
    BY <2>1, <2>2 DEF Written
<1>3. Sorted(Starts)
  BY DEF Written, IInv, Dense
<1> QED
  BY <1>1, <1>2, <1>3 DEF Written

LEMMA WrittenType ==
  ASSUME NEW w \in Time, NEW x \in Swap, NEW r \in Row, Written(w, x, r)
  PROVE  /\ TypeOK' /\ Bounds' /\ Before' /\ CursorRow' /\ (\A s \in Starts : Quoted(rows[s]))'
<1>0. /\ Starts' = Starts /\ w \in Starts /\ Index(w) \in Nat \ {0} /\ now' = now /\ period' = period
      /\ cursor' = [index |-> Index(w), start |-> w] /\ w <= now
      /\ \A s \in Starts : rows'[s] \in Row /\ rows'[s].index = Index(s) /\ Quoted(rows'[s])
  BY WrittenRows DEF Written
<1>1. TypeOK'
  <2>1. pruned' = pruned /\ changed' = changed /\ holes' = holes /\ unlocked' \subseteq Time
    BY DEF Written, IInv, TypeOK
  <2>2. counted' \in [Time -> Nat] /\ late' \subseteq Time
    BY DEF Written, Count, Late, IInv, TypeOK
  <2>3. tx' \in [Actor -> Tx]
    BY DEF Written, Closing
  <2> QED
    BY <1>0, <2>1, <2>2, <2>3 DEF Written, IInv, TypeOK
<1>2. Bounds'
  <2>1. changed' = changed
    BY DEF Written
  <2>2. \A b \in Actor : tx'[b] # Idle =>
          tx'[b].w <= now /\ tx'[b].w % period = 0 /\ tx'[b].swap \in Price \cup {NoSwap}
    BY DEF Written, Closing, IInv, Bounds
  <2>3. Distinct(rows')
    <3>1. \A s, t \in Starts : Index(s) = Index(t) => s = t
      BY DEF Written, IInv, Bounds, Distinct, Starts, Index
    <3>2. DOMAIN rows' = Starts
      BY <1>0 DEF Starts
    <3> QED
      BY <1>0, <3>1, <3>2 DEF Distinct
  <2> QED
    BY <1>0, <2>1, <2>2, <2>3 DEF Written, IInv, Bounds
<1>3. Before'
  BY <1>0 DEF Before, None
<1>4. CursorRow'
  BY <1>0 DEF CursorRow, Index
<1> QED
  BY <1>0, <1>1, <1>2, <1>3, <1>4

LEMMA WrittenOrder ==
  ASSUME NEW w \in Time, NEW x \in Swap, NEW r \in Row, Written(w, x, r)
  PROVE  AheadOrder' /\ Dense' /\ Locked' /\ Regular'
<1>0. /\ Starts' = Starts /\ w \in Starts /\ Index(w) \in Nat \ {0} /\ period' = period
      /\ cursor'.index = Index(w) /\ cursor'.start = w
      /\ \A s \in Starts : rows'[s].index = Index(s)
      /\ \A s, t \in Starts : s < t => Index(s) < Index(t)
  BY WrittenRows DEF Written, Sorted
<1>1. AheadOrder'
  <2>1. \A t \in Starts' : t > cursor'.start => rows'[t].index > cursor'.index
    BY <1>0, WrittenRows
  <2>2. \A s, t \in Starts' : s < t => rows'[s].index < rows'[t].index
    BY <1>0
  <2> QED
    BY <2>1, <2>2 DEF AheadOrder, Sorted, Index
<1>2. Dense'
  <2>1. \A t \in Starts : \A k \in 1..Index(t) : \E s \in Starts : Index(s) = k
    BY DEF Written, IInv, Dense, HasIndex, Index
  <2>2. \A t \in Starts' : \A k \in 1..rows'[t].index : \E s \in Starts' : rows'[s].index = k
    BY <1>0, <2>1
  <2> QED
    BY <1>0, <2>2 DEF Dense, Sorted, HasIndex, Index
<1>3. Locked'
  BY DEF Locked, Written
<1>4. Regular'
  <2> SUFFICES ASSUME holes = {}, changed = 0 PROVE w % period = 0 /\ \A s \in Starts : OnGrid(s)'
    BY <1>0 DEF Regular, Written
  <2>1. \A s \in Starts : OnGrid(s)
    BY DEF Written, IInv, Regular
  <2>2. PICK c : c = cursor.start
    OBVIOUS
  <2>3. PICK k : k = cursor.index
    OBVIOUS
  <2>4. PICK p : p = period
    OBVIOUS
  <2>5. c \in Nat /\ k \in Nat /\ p \in Nat \ {0}
    BY <2>2, <2>3, <2>4, Numbers DEF Written, IInv
  <2>6. PICK n \in Int : w = c + n * p /\ Index(w) = k + n
    BY <1>0, <2>1, <2>2, <2>3, <2>4 DEF OnGrid, Bucket
  <2>7. ASSUME NEW s \in Starts PROVE OnGrid(s)'
    <3>1. PICK i \in Int : s = c + i * p /\ Index(s) = k + i
      BY <2>1, <2>2, <2>3, <2>4 DEF OnGrid, Bucket
    <3>2. c + i * p = (c + n * p) + (i - n) * p
      BY <2>5, Regrid
    <3>3. s = w + (i - n) * p /\ Index(s) = Index(w) + (i - n) /\ i - n \in Int
      BY <2>5, <2>6, <3>1, <3>2
    <3>4. s = Bucket(i - n)' /\ rows'[s].index = cursor'.index + (i - n)
      BY <1>0, <2>4, <3>3 DEF Bucket
    <3> QED
      BY <3>3, <3>4 DEF OnGrid, Index
  <2> QED
    BY <2>7 DEF Written
<1> QED
  BY <1>1, <1>2, <1>3, <1>4

LEMMA WrittenPassed ==
  ASSUME NEW w \in Time, NEW x \in Swap, NEW r \in Row, Written(w, x, r)
  PROVE  Passed' /\ Tallied'
<1>0. /\ Starts' = Starts /\ w \in Starts /\ cursor'.start = w /\ holes' = holes
      /\ period' = period /\ changed' = changed /\ pruned' = pruned /\ unlocked' = unlocked \cup {w}
      /\ \A s \in Starts : s \in Nat /\ (s # w => rows'[s] = rows[s])
      /\ cursor.start \in Nat /\ Time \subseteq Nat
  BY WrittenRows, Numbers DEF Written, IInv
<1>1. Passed'
  <2> SUFFICES ASSUME NEW u \in Time, u % period = 0, u >= changed, u >= pruned,
                      NEW s \in Starts, s <= u, NEW t \in Starts, u <= t
               PROVE  u \in Starts \cup holes
    <3>1. ASSUME NEW u \in Time, u > w, NEW t \in Starts, u <= t PROVE w <= u
      BY <1>0, <3>1
    <3> QED
      BY <1>0, <3>1 DEF Passed
  <2>1. u > cursor.start \/ u <= cursor.start
    BY <1>0
  <2> QED
    BY <1>0, <2>1 DEF Written, IInv, Passed
<1>2. Tallied'
  <2> SUFFICES ASSUME NEW u \in Time, u >= changed, u >= pruned, u \notin holes, u \notin unlocked, u # w
               PROVE  /\ u \in Starts => rows'[u].count = counted'[u]
                      /\ u \notin Starts /\ counted'[u] > 0 => u < w /\ \A s \in Starts : u < s
    BY <1>0 DEF Tallied
  <2>1. counted'[u] = counted[u]
    BY DEF Written, Count, IInv, TypeOK
  <2>2. /\ u \in Starts => rows[u].count = counted[u]
        /\ u \notin Starts /\ counted[u] > 0 => \A s \in Starts : u < s
    BY DEF Written, IInv, Tallied
  <2> QED
    BY <1>0, <2>1, <2>2
<1> QED
  BY <1>1, <1>2

LEMMA WrittenLinked ==
  ASSUME NEW w \in Time, NEW x \in Swap, NEW r \in Row, Written(w, x, r)
  PROVE  Linked' /\ (\A b \in Actor : Read(tx[b]))'
<1>0. /\ Starts' = Starts /\ \A s \in Starts : s # w => rows'[s] = rows[s]
      /\ w \in Starts /\ \A s \in Starts : rows'[s].index = Index(s)
  BY WrittenRows DEF Written
<1>1. ASSUME NEW q, NEW t, Joins(q, t) PROVE Joins(q, t)'
  <2>1. Disturbed => Disturbed'
    BY DEF Disturbed, Written
  <2>2. ASSUME NEW s \in Starts, Adjacent(s, t)', s \notin late' \cup unlocked', ~Disturbed
        PROVE  GoesOn(rows'[s], q)
    <3>1. Adjacent(s, t)
      BY <1>0, <2>2 DEF Adjacent, Written
    <3>2. s # w /\ s \notin late \cup unlocked
      BY <2>2 DEF Written, Late
    <3> QED
      BY <1>0, <1>1, <2>2, <3>1, <3>2 DEF Joins
  <2> QED
    BY <1>0, <2>1, <2>2 DEF Joins
<1>2. ASSUME NEW t \in Starts PROVE (Joins(rows[t], t))'
  <2>1. PICK q : q = rows'[t]
    OBVIOUS
  <2>2. Joins(q, t)
    <3>1. CASE q = rows[t]
      BY <3>1 DEF Written, IInv, Linked
    <3>2. CASE t = w /\ q = Merged(r, x)
      BY <3>2, JoinsMerged DEF Written, IInv
    <3> QED
      BY <2>1, <3>1, <3>2 DEF Written
  <2>3. Joins(q, t)'
    BY <1>1, <2>2
  <2> QED
    BY <2>1, <2>3 DEF Joins
<1>3. ASSUME NEW b \in Actor PROVE (Read(tx[b]))'
  <2>1. CASE tx'[b] = Idle
    BY <2>1 DEF Read, Idle
  <2>2. CASE tx'[b] = tx[b]
    <3>0. PICK y : y = tx[b]
      OBVIOUS
    <3>1. Read(y)
      BY <3>0 DEF Written, IInv
    <3>2. ASSUME y.pc \in {"merge", "write"} PROVE y.w \in Starts' /\ rows'[y.w].index = y.index
      BY <1>0, <3>1, <3>2 DEF Read
    <3>3. ASSUME y.pc = "write"
          PROVE  \E q \in Row : y.found = {q} /\ q.index = y.index /\ Quoted(q) /\ Joins(q, y.w)'
      <4>1. PICK q \in Row : y.found = {q} /\ q.index = y.index /\ Quoted(q) /\ Joins(q, y.w)
        BY <3>1, <3>3 DEF Read
      <4>2. PICK v : v = y.w
        OBVIOUS
      <4>3. Joins(q, v)'
        BY <1>1, <4>1, <4>2
      <4> QED
        BY <4>1, <4>2, <4>3 DEF Joins
    <3>4. tx'[b] = y
      BY <2>2, <3>0
    <3> QED
      BY <3>2, <3>3, <3>4 DEF Read, Index
  <2> QED
    BY <2>1, <2>2 DEF Written, Closing
<1> QED
  BY <1>0, <1>2, <1>3 DEF Linked

LEMMA WrittenInv ==
  ASSUME IInv, NEW a \in Actor, WriteRow(a)
  PROVE  IInv'
<1>1. PICK w \in Time, x \in Swap, r \in Row : Written(w, x, r)
  BY WriteRowStep
<1> QED
  BY <1>1, WrittenType, WrittenOrder, WrittenPassed, WrittenLinked DEF IInv

-----------------------------------------------------------------------------
(* A new process, and the end of the retention.                            *)

LEMMA RestartStep ==
  ASSUME IInv, Restart
  PROVE  IInv'
<1>0. /\ UNCHANGED <<now, rows, cursor, counted, late, unlocked, holes, pruned>> /\ Starts' = Starts
      /\ \A a \in Actor : tx'[a] = Idle
      /\ tx' \in [Actor -> Tx]
  BY DEF Restart, Starts, Tx
<1>1. (\A a \in Actor : Read(tx[a]))'
  <2>1. ASSUME NEW b \in Actor PROVE (Read(tx[b]))'
    BY <1>0 DEF Read, Idle
  <2> QED
    BY <2>1
<1>2. ~Opened'
  BY <1>0 DEF Opened
<1>3. now \in Nat /\ changed \in Nat /\ changed <= now /\ cursor.start <= now /\ cursor.start \in Nat
  BY Numbers DEF IInv, TypeOK, Time, Bounds
<1>4. CASE period' = period
  <2>1. UNCHANGED <<period, rows, cursor, history>>
    BY <1>0, <1>4 DEF Restart, history
  <2>2. now' \in Time /\ now' >= now
    BY <1>0, <1>3 DEF IInv, TypeOK
  <2> QED
    BY <1>0, <1>1, <1>2, <2>1, <2>2, Unmoved
<1>5. CASE period' # period
  <2>1. changed' = now /\ period' \in Periods /\ changed' >= changed
    BY <1>3, <1>5 DEF Restart, IInv, TypeOK
  <2>2. TypeOK'
    BY <1>0, <2>1 DEF IInv, TypeOK
  <2>3. Bounds'
    BY <1>0, <1>3, <2>1 DEF IInv, Bounds
  <2>4. Before' /\ CursorRow' /\ AheadOrder'
    BY <1>0 DEF IInv, Before, CursorRow, AheadOrder, Sorted, Index
  <2>5. (\A s \in Starts : Quoted(rows[s]))'
    BY <1>0 DEF IInv
  <2>6. Linked'
    <3>1. Disturbed => Disturbed'
      BY <1>0, <1>3, <2>1 DEF Disturbed
    <3> QED
      BY <1>0, <3>1 DEF IInv, Linked, Joins, Adjacent
  <2>7. Dense'
    BY <1>2 DEF Dense
  <2>8. Locked'
    <3>1. ASSUME unlocked = {}
          PROVE  /\ \A s, t \in Starts : s < t => Index(s) < Index(t)
                 /\ \A s \in Starts : s <= cursor.start /\ Index(s) <= cursor.index
                 /\ holes = {} => \A s, t \in Starts : Adjacent(s, t) =>
                      (\E p \in Periods : t <= s + p) /\ Index(t) = Index(s) + 1
      BY <3>1 DEF IInv, Locked, Sorted
    <3>2. \A s, t \in Starts : Adjacent(s, t)' => Adjacent(s, t)
      BY <1>0 DEF Adjacent
    <3> QED
      BY <1>0, <3>1, <3>2 DEF Locked, Sorted, Index
  <2>9. Regular'
    <3> SUFFICES ASSUME holes = {}, now = 0
                 PROVE  cursor.start % period' = 0 /\ \A s \in Starts : OnGrid(s)'
      BY <1>0, <2>1 DEF Regular
    <3>1. PICK p : p = period
      OBVIOUS
    <3>2. PICK q : q = period'
      OBVIOUS
    <3>3. p \in Nat \ {0} /\ q \in Nat \ {0}
      BY <2>1, <3>1, <3>2, Numbers, OhlcvAssumption DEF IInv
    <3>4. cursor.start = 0 /\ changed = 0
      BY <1>3
    <3>5. 0 % q = 0
      BY <3>3
    <3>6. ASSUME NEW s \in Starts PROVE OnGrid(s)'
      <4>1. s = 0
        BY <1>3 DEF IInv, Bounds
      <4>2. PICK i \in Int : s = i * p /\ Index(s) = cursor.index + i
        <5>1. PICK i \in Int : s = Bucket(i) /\ Index(s) = cursor.index + i
          BY <3>4 DEF IInv, Regular, OnGrid
        <5>2. i * p \in Int
          BY <3>3
        <5> QED
          BY <3>1, <3>4, <5>1, <5>2 DEF Bucket
      <4>3. i = 0
        <5>1. 0 * p = 0
          BY <3>3
        <5> QED
          BY <3>3, <4>1, <4>2, <5>1, Regrid
      <4>4. s = 0 + 0 * q /\ Index(s) = cursor.index + 0
        BY <3>3, <4>1, <4>2, <4>3
      <4> QED
        BY <1>0, <3>2, <3>4, <4>4 DEF OnGrid, Bucket, Index
    <3> QED
      BY <3>2, <3>4, <3>5, <3>6
  <2>10. Passed'
    <3> SUFFICES ASSUME NEW u \in Time, u >= now, u >= pruned
                 PROVE  /\ u > cursor.start /\ (\E t \in Starts : u <= t) => u \in Starts \cup holes
                        /\ u <= cursor.start /\ (\E s \in Starts : s <= u) => u \in Starts \cup holes
      BY <1>0, <2>1 DEF Passed
    <3>1. u \in Nat /\ pruned \in Nat /\ \A s \in Starts : s \in Nat /\ s <= now
      <4>1. TypeOK /\ Starts \subseteq 0..now
        BY DEF IInv, Bounds
      <4>2. u \in Nat /\ \A s \in Starts : s \in Nat
        BY <4>1, Numbers
      <4>3. pruned \in Nat
        BY <4>1, Numbers DEF TypeOK
      <4> QED
        BY <4>1, <4>2, <4>3
    <3>2. ASSUME NEW t \in Starts, u <= t PROVE u \in Starts
      <4>1. u = t
        BY <1>3, <3>1, <3>2
      <4> QED
        BY <4>1
    <3>3. ASSUME u <= cursor.start, NEW s \in Starts PROVE u \in Starts \cup holes
      <4>1. u = cursor.start
        BY <1>3, <3>1, <3>3
      <4>2. cursor # None
        BY DEF IInv, Before
      <4> QED
        BY <3>1, <1>3, <4>1, <4>2 DEF IInv, CursorRow
    <3> QED
      BY <3>2, <3>3
  <2>11. Tallied'
    <3> SUFFICES ASSUME NEW u \in Time, u >= now, u >= pruned, u \notin holes \cup unlocked
                 PROVE  /\ u \in Starts => rows[u].count = counted[u]
                        /\ u \notin Starts /\ counted[u] > 0 => u < cursor.start /\ \A s \in Starts : u < s
      BY <1>0, <2>1 DEF Tallied
    <3>1. u >= changed
      BY <1>3, Numbers DEF IInv, Time
    <3> QED
      BY <3>1 DEF IInv, Tallied
  <2> QED
    BY <1>1, <2>2, <2>3, <2>4, <2>5, <2>6, <2>7, <2>8, <2>9, <2>10, <2>11 DEF IInv
<1> QED
  BY <1>4, <1>5

LEMMA PruneStep ==
  ASSUME IInv, pruneExpiredBuckets
  PROVE  IInv'
<1>0. /\ pruned' = now - Retention /\ now - Retention > pruned
      /\ Starts' = {s \in Starts : s >= pruned'} /\ \A s \in Starts' : rows'[s] = rows[s]
      /\ \A a \in Actor : tx[a] = Idle
      /\ UNCHANGED <<now, period, cursor, tx, counted, late, unlocked, holes, changed>>
  BY DEF pruneExpiredBuckets, Starts
<1>1. /\ now \in Nat /\ now <= MaxTime /\ Retention \in Nat /\ pruned \in Nat /\ MaxTime \in Nat
      /\ cursor.start \in Nat /\ \A s \in Starts : s \in Nat
  BY Numbers, OhlcvAssumption DEF IInv, TypeOK
<1>2. Starts' \subseteq Starts /\ pruned' \in 0..MaxTime /\ pruned' \in Nat /\ pruned' > pruned
  BY <1>0, <1>1
<1>3. \A s, t \in Starts' : Adjacent(s, t)' => Adjacent(s, t)
  <2> TAKE s, t \in Starts'
  <2> HAVE Adjacent(s, t)'
  <2>1. pruned' <= s /\ s < t /\ ~\E u \in Starts' : s < u /\ u < t
    BY DEF Adjacent
  <2>2. \A u \in Starts : s < u => u \in Starts'
    BY <1>0, <1>1, <1>2, <2>1
  <2> QED
    BY <1>1, <1>2, <2>1, <2>2 DEF Adjacent
<1>4. TypeOK'
  BY <1>0, <1>2 DEF IInv, TypeOK, Time
<1>5. Bounds'
  <2>1. Distinct(rows')
    <3>1. \A s, t \in Starts : rows[s].index = rows[t].index => s = t
      BY DEF IInv, Bounds, Distinct, Starts
    <3>2. \A s, t \in Starts' : rows'[s].index = rows'[t].index => s = t
      BY <1>0, <1>2, <3>1
    <3> QED
      BY <3>2 DEF Distinct, Starts
  <2> QED
    BY <1>0, <1>2, <2>1 DEF IInv, Bounds
<1>6. Before' /\ CursorRow'
  BY <1>0, <1>1, <1>2 DEF IInv, Before, CursorRow, Index
<1>7. (\A s \in Starts : Quoted(rows[s]))' /\ (\A a \in Actor : Read(tx[a]))'
  <2>1. ASSUME NEW b \in Actor PROVE (Read(tx[b]))'
    BY <1>0 DEF Read, Idle
  <2> QED
    BY <1>0, <1>2, <2>1 DEF IInv
<1>8. Linked'
  <2>1. Disturbed => Disturbed'
    BY <1>0 DEF Disturbed
  <2>2. ASSUME NEW t \in Starts', NEW s \in Starts', ~Disturbed', Adjacent(s, t)',
               s \notin late' \cup unlocked'
        PROVE  GoesOn(rows'[s], rows'[t])
    BY <1>0, <1>2, <1>3, <2>1, <2>2 DEF IInv, Linked, Joins
  <2> QED
    BY <2>2 DEF Linked, Joins
<1>9. AheadOrder'
  BY <1>0, <1>2 DEF IInv, AheadOrder, Sorted, Index
<1>10. Dense'
  BY <1>0 DEF Dense, Opened
<1>11. Locked'
  <2>1. ASSUME unlocked = {}
        PROVE  /\ \A s, t \in Starts : s < t => Index(s) < Index(t)
               /\ \A s \in Starts : s <= cursor.start /\ Index(s) <= cursor.index
               /\ holes = {} => \A s, t \in Starts : Adjacent(s, t) =>
                    (\E p \in Periods : t <= s + p) /\ Index(t) = Index(s) + 1
    BY <2>1 DEF IInv, Locked, Sorted
  <2> QED
    BY <1>0, <1>2, <1>3, <2>1 DEF Locked, Sorted, Index
<1>12. Regular'
  BY <1>0, <1>2 DEF IInv, Regular, OnGrid, Bucket, Index
<1>13. Passed'
  <2> SUFFICES ASSUME NEW u \in Time, u % period = 0, u >= changed, u >= pruned'
               PROVE  /\ u > cursor.start /\ (\E t \in Starts' : u <= t) => u \in Starts' \cup holes
                      /\ u <= cursor.start /\ (\E s \in Starts' : s <= u) => u \in Starts' \cup holes
    BY <1>0 DEF Passed
  <2>1. u \in Nat /\ u >= pruned
    BY <1>1, <1>2, Numbers DEF IInv
  <2>2. u \in Starts => u \in Starts'
    BY <1>0
  <2> QED
    BY <1>2, <2>1, <2>2 DEF IInv, Passed
<1>14. Tallied'
  <2> SUFFICES ASSUME NEW u \in Time, u >= changed, u >= pruned', u \notin holes \cup unlocked
               PROVE  /\ u \in Starts' => rows'[u].count = counted[u]
                      /\ u \notin Starts' /\ counted[u] > 0 => u < cursor.start /\ \A s \in Starts' : u < s
    BY <1>0 DEF Tallied
  <2>1. u \in Nat /\ u >= pruned
    BY <1>1, <1>2, Numbers DEF IInv
  <2>2. u \in Starts => u \in Starts'
    BY <1>0
  <2> QED
    BY <1>0, <1>2, <2>1, <2>2 DEF IInv, Tallied
<1> QED
  BY <1>4, <1>5, <1>6, <1>7, <1>8, <1>9, <1>10, <1>11, <1>12, <1>13, <1>14 DEF IInv

-----------------------------------------------------------------------------
(* The invariant.                                                          *)

LEMMA InitInv == Init => IInv
<1> SUFFICES ASSUME Init PROVE IInv
  OBVIOUS
<1>1. /\ Starts = {} /\ cursor = None /\ now = 0 /\ \A a \in Actor : tx[a] = Idle
      /\ MaxTime \in Nat /\ period \in Nat \ {0}
  BY OhlcvAssumption DEF Init, Starts
<1>2. cursor.index = 0 /\ cursor.start = 0
  BY <1>1 DEF None
<1>3. TypeOK
  BY <1>1, <1>2, OhlcvAssumption DEF Init, TypeOK, Time, Tx, None
<1>4. Bounds
  BY <1>1, <1>2 DEF Bounds, Init, Distinct, Starts
<1>5. Before /\ CursorRow /\ Dense /\ Linked /\ AheadOrder /\ Locked
  BY <1>1 DEF Init, Before, CursorRow, Dense, Opened, Linked, AheadOrder, Locked, Sorted
<1>6. \A a \in Actor : Read(tx[a])
  BY <1>1 DEF Read, Idle
<1>7. Regular
  <2>1. 0 % period = 0
    BY <1>1
  <2> QED
    BY <1>1, <1>2, <2>1 DEF Regular
<1>8. Passed /\ Tallied
  BY <1>1 DEF Init, Passed, Tallied
<1> QED
  BY <1>1, <1>3, <1>4, <1>5, <1>6, <1>7, <1>8 DEF IInv

LEMMA NextInv == IInv /\ [Next]_vars => IInv'
<1> SUFFICES ASSUME IInv, [Next]_vars PROVE IInv'
  OBVIOUS
<1>1. CASE Tick
  BY <1>1, TickStep
<1>2. CASE Restart
  BY <1>2, RestartStep
<1>3. CASE pruneExpiredBuckets
  BY <1>3, PruneStep
<1>4. ASSUME NEW a \in Actor, FindWindow(a) PROVE IInv'
  BY <1>4, FindWindowStep
<1>5. ASSUME NEW a \in Actor, InsertFirst(a) PROVE IInv'
  BY <1>5, InsertFirstStep
<1>6. ASSUME NEW a \in Actor, ReadRow(a) PROVE IInv'
  BY <1>6, ReadRowStep
<1>7. ASSUME NEW a \in Actor, WriteRow(a) PROVE IInv'
  BY <1>7, WrittenInv
<1>8. ASSUME NEW a \in Actor, NEW t \in 0..now, NEW x \in Price \cup {NoSwap}, Advance(a, t, x)
      PROVE  IInv'
  BY <1>8, AdvancedStep DEF Swap
<1>9. ASSUME NEW a \in Actor, NEW t \in 0..now, NEW x \in Price \cup {NoSwap}, Begin(a, t, x)
      PROVE  IInv'
  BY <1>9, BeginStep DEF Swap
<1>10. CASE UNCHANGED vars
  <2>1. UNCHANGED <<now, period, rows, cursor, tx, history>>
    BY <1>10 DEF vars
  <2>2. (\A b \in Actor : Read(tx[b]))'
    <3>1. ASSUME NEW b \in Actor PROVE (Read(tx[b]))'
      <4>1. PICK z : z = tx[b]
        OBVIOUS
      <4>2. Read(z)'
        BY <2>1, <4>1, ReadSame DEF IInv
      <4>3. tx'[b] = z
        BY <2>1, <4>1
      <4> QED
        BY <4>2, <4>3 DEF Read
    <3> QED
      BY <3>1
  <2>3. Opened' => Opened
    BY <2>1 DEF Opened
  <2>4. now' \in Time /\ now' >= now /\ tx' \in [Actor -> Tx]
    BY <2>1, Numbers DEF IInv, TypeOK
  <2>5. \A b \in Actor : tx'[b] # Idle =>
          tx'[b].w <= now' /\ tx'[b].w % period = 0 /\ tx'[b].swap \in Price \cup {NoSwap}
    BY <2>1 DEF IInv, Bounds
  <2> QED
    BY <2>1, <2>2, <2>3, <2>4, <2>5, Unmoved
<1> QED
  BY <1>1, <1>2, <1>3, <1>4, <1>5, <1>6, <1>7, <1>8, <1>9, <1>10 DEF Next

(***************************************************************************)
(* Every state has the types of the table's columns, whatever the periods, *)
(* the limit of a gap fill and the retention are.                          *)
(***************************************************************************)
THEOREM TypeCorrect == Spec => []TypeOK
<1>1. IInv => TypeOK
  BY DEF IInv
<1> QED
  BY <1>1, InitInv, NextInv, PTL DEF Spec

(***************************************************************************)
(* Consumers, an orphan of a lost lease, the replay tool and the cron: a   *)
(* committed swap is in the bucket of its window once, unless the window   *)
(* is pruned, a hole, of the time of another period, or was changed        *)
(* without the lock.                                                       *)
(***************************************************************************)
THEOREM CountedHolds == Spec => []CountedOnce
<1>1. IInv => CountedOnce
  <2> SUFFICES ASSUME IInv, NEW w \in Time, NEW s \in Starts, counted[w] > 0, w >= s, w >= pruned,
                      w >= changed, w \notin holes \cup unlocked
               PROVE  w \in Starts /\ rows[w].count = counted[w]
    BY DEF CountedOnce
  <2>1. w \in Nat /\ s \in Nat
    BY Numbers DEF IInv
  <2>2. w \in Starts
    BY <2>1 DEF IInv, Tallied
  <2> QED
    BY <2>2 DEF IInv, Tallied
<1> QED
  BY <1>1, InitInv, NextInv, PTL DEF Spec

LEMMA Consecutive ==
  ASSUME IInv, holes = {}, changed = 0, NEW s \in Starts, NEW t \in Starts, Adjacent(s, t)
  PROVE  t = s + period /\ Index(t) = Index(s) + 1
<1>1. PICK c : c = cursor.start
  OBVIOUS
<1>2. PICK p : p = period
  OBVIOUS
<1>3. /\ c \in Nat /\ p \in Nat \ {0} /\ p \in Periods /\ s \in Nat /\ t \in Time /\ t \in Nat /\ cursor.index \in Nat
      /\ pruned \in Nat /\ c % p = 0 /\ pruned <= s /\ s < t /\ MaxTime \in Nat
  BY <1>1, <1>2, Numbers DEF IInv, TypeOK, Regular, Adjacent
<1>4. PICK i \in Int : s = c + i * p /\ Index(s) = cursor.index + i
  BY <1>1, <1>2 DEF IInv, Regular, OnGrid, Bucket
<1>5. PICK j \in Int : t = c + j * p /\ Index(t) = cursor.index + j
  BY <1>1, <1>2 DEF IInv, Regular, OnGrid, Bucket
<1>6. i < j
  <2>1. i * p \in Int /\ j * p \in Int
    BY <1>3
  <2>2. ASSUME j < i PROVE FALSE
    BY <1>3, <1>4, <1>5, <2>1, <2>2, Grow
  <2> QED
    BY <1>3, <1>4, <1>5, <2>1, <2>2
<1>7. PICK u : u = s + p
  OBVIOUS
<1>8. u <= t /\ u \in Nat /\ u \in Time
  <2>1. i * p + p <= j * p /\ i * p \in Int /\ j * p \in Int
    BY <1>3, <1>6, Grow
  <2>2. u <= t /\ u \in Nat
    BY <1>3, <1>4, <1>5, <1>7, <2>1
  <2> QED
    BY <1>3, <2>2 DEF Time
<1>9. u % p = 0
  <2>1. c \div p \in Nat /\ c = (c \div p) * p
    BY <1>3, Divided
  <2>2. PICK k \in Nat : c = k * p
    BY <2>1
  <2>3. s = (k + i) * p /\ u = (k + i + 1) * p
    BY <1>3, <1>4, <1>7, <2>2
  <2>4. k + i + 1 \in Nat
    <3>1. ASSUME k + i + 1 < 0 + 1 PROVE FALSE
      <4>1. (k + i) * p + p <= 0 * p
        BY <1>3, <3>1, Grow
      <4>2. 0 * p = 0 /\ (k + i) * p \in Int
        BY <1>3
      <4> QED
        BY <1>3, <2>3, <4>1, <4>2
    <3> QED
      BY <3>1
  <2> QED
    BY <1>3, <2>3, <2>4, Multiple
<1>10. u \in Starts
  <2>1. u >= changed /\ u >= pruned /\ s <= u
    BY <1>3, <1>7, <1>8
  <2> QED
    BY <1>1, <1>2, <1>3, <1>8, <1>9, <2>1 DEF IInv, Passed
<1>11. u = t
  BY <1>3, <1>7, <1>8, <1>10 DEF Adjacent
<1>12. j = i + 1
  <2>1. j * p = (i + 1) * p
    BY <1>3, <1>4, <1>5, <1>7, <1>11
  <2> QED
    BY <1>3, <2>1, Regrid
<1> QED
  BY <1>2, <1>3, <1>4, <1>5, <1>7, <1>11, <1>12

(***************************************************************************)
(* Each bucket is a candle that goes on where the one before it stood, for *)
(* every limit, period and retention; the exemptions are those of the      *)
(* property and no others.                                                 *)
(***************************************************************************)
THEOREM CarriedHolds == Spec => []CarriedForward
<1>1. IInv => CarriedForward
  <2> SUFFICES ASSUME IInv PROVE CarriedForward
    OBVIOUS
  <2>1. \A s \in Starts : Candle(rows[s])
    BY DEF IInv, Quoted
  <2>2. ASSUME ~Disturbed PROVE Contiguous
    <3>1. Sorted(Starts)
      BY <2>2, Undisturbed
    <3>2. ASSUME NEW s \in Starts, NEW t \in Starts, Adjacent(s, t), holes = {}
          PROVE  (\E p \in Periods : t <= s + p) /\ Index(t) = Index(s) + 1
      <4>1. CASE unlocked = {}
        BY <3>2, <4>1 DEF IInv, Locked
      <4>2. CASE changed = 0
        <5>1. t = s + period /\ Index(t) = Index(s) + 1
          BY <3>2, <4>2, Consecutive
        <5>2. period \in Periods /\ t <= s + period
          BY <5>1, Numbers DEF IInv, TypeOK
        <5> QED
          BY <5>1, <5>2
      <4> QED
        BY <2>2, <3>2, <4>1, <4>2 DEF Disturbed
    <3> QED
      BY <3>1, <3>2 DEF Contiguous, Sorted, Index
  <2>3. ASSUME ~Disturbed, NEW s \in Starts, NEW t \in Starts, Adjacent(s, t), s \notin late \cup unlocked
        PROVE  GoesOn(rows[s], rows[t])
    BY <2>3 DEF IInv, Linked, Joins
  <2> QED
    BY <2>1, <2>2, <2>3 DEF CarriedForward
<1> QED
  BY <1>1, InitInv, NextInv, PTL DEF Spec

LEMMA SkippedStep ==
  ASSUME IInv, NEW w \in Time, NEW x \in Swap, Takes(w, x), Located(w, x) \/ First(w), holes' # holes,
         cursor.start % period = 0
  PROVE  now - cursor.start > MAX_GAP_STEPS * period
<1>1. Fills(w, x)
  BY DEF Located, Stays, Reopens, Opens, Moves, First
<1>2. w > cursor.start /\ w \notin GapFill(w)
  BY <1>1 DEF Fills, Skipped
<1>3. w - cursor.start > MAX_GAP_STEPS * period
  BY <1>2, Gap DEF Takes, IInv
<1>4. w <= now
  BY DEF Takes
<1>5. PICK m : m = MAX_GAP_STEPS * period
  OBVIOUS
<1>6. m \in Nat /\ w \in Nat /\ now \in Nat /\ cursor.start \in Nat
  BY <1>5, Numbers DEF IInv
<1> QED
  BY <1>3, <1>4, <1>5, <1>6

(***************************************************************************)
(* The cursor leaves the rows behind only when more than MAX_GAP_STEPS     *)
(* buckets are missing or the length of the buckets has changed.           *)
(***************************************************************************)
THEOREM HolesExplained == Spec => HolesAfterGaps
<1> DEFINE Explained ==
      holes' # holes =>
        now - cursor.start > MAX_GAP_STEPS * period \/ cursor.start % period # 0
<1>1. IInv /\ [Next]_vars => [Explained]_vars
  <2> SUFFICES ASSUME IInv, Next, holes' # holes, cursor.start % period = 0
               PROVE  now - cursor.start > MAX_GAP_STEPS * period
    OBVIOUS
  <2>1. PICK a \in Actor :
          InsertFirst(a) \/ \E t \in 0..now, x \in Price \cup {NoSwap} : Advance(a, t, x)
    BY DEF Next, Tick, Restart, pruneExpiredBuckets, FindWindow, ReadRow, WriteRow, Begin, history
  <2>2. CASE InsertFirst(a)
    <3>1. Takes(tx[a].w, tx[a].swap) /\ First(tx[a].w) /\ tx[a].w \in Time /\ tx[a].swap \in Swap
      BY <2>2, FirstStep DEF history
    <3> QED
      BY <3>1, SkippedStep
  <2>3. ASSUME NEW t \in 0..now, NEW x \in Swap, Advance(a, t, x)
        PROVE  now - cursor.start > MAX_GAP_STEPS * period
    <3>1. Takes(alignBucketStart(t), x) /\ Located(alignBucketStart(t), x)
      BY <2>3, AdvanceStep DEF IInv, vars, history
    <3>2. alignBucketStart(t) \in Time
      BY WindowOf DEF IInv
    <3> QED
      BY <3>1, <3>2, SkippedStep
  <2> QED
    BY <2>1, <2>2, <2>3 DEF Swap
<1> QED
  BY <1>1, InitInv, NextInv, PTL DEF Spec, HolesAfterGaps
=============================================================================
