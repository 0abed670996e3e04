--------------------------- MODULE VeLocks_proofs ---------------------------
(***************************************************************************)
(* Lock positions for any number of veNFTs, events and disturbances: types,*)
(* and that a closed position stays closed.  Only a split writes a         *)
(* position as active whatever it was, and only those of its parts; these  *)
(* are minted with it, so that no event before it can have closed them.    *)
(* In the second half, that redelivery and crashes leave no trace: what a  *)
(* column holds in the end is what the last event says that sets it.  At   *)
(* the end, that the active positions never add up to more than the        *)
(* recorded deposits.                                                      *)
(***************************************************************************)
EXTENDS VeLocks, FiniteSetTheorems, SequenceTheorems, WellFoundedInduction, TLAPS

(***************************************************************************)
(* Sums of a function over a finite set.  Induction over the set goes by   *)
(* sets of sets: the provers cannot instantiate the induction theorems of  *)
(* the library, which take an operator, but the set of the parts a claim   *)
(* holds of is a value like any other.                                     *)
(***************************************************************************)
LEMMA NatSet ==
  ASSUME NEW G, 0 \in G, \A n \in Nat : n \in G => n + 1 \in G
  PROVE  Nat \subseteq G
<1>1. SUFFICES ASSUME Nat \ G # {} PROVE FALSE
  OBVIOUS
<1>2. PICK n \in Nat \ G : \A m \in Nat \ G : ~(<<m, n>> \in OpToRel(<, Nat))
  BY <1>1, NatLessThanWellFounded, WFMin, Zenon
<1>3. \A m \in Nat \ G : ~(m < n)
  BY <1>2 DEF OpToRel
<1>4. n # 0 /\ n - 1 \in Nat /\ n - 1 < n /\ (n - 1) + 1 = n
  OBVIOUS
<1>5. n - 1 \in G
  BY <1>3, <1>4
<1> QED
  BY <1>4, <1>5

\* What holds of the empty set and of a part with one element more holds of S.
LEMMA PartsOf ==
  ASSUME NEW S, IsFiniteSet(S), NEW G, {} \in G,
         \A T \in SUBSET S : \A x \in S \ T : T \in G => T \cup {x} \in G
  PROVE  S \in G
<1> DEFINE N == {n \in Nat : \A T \in SUBSET S : Cardinality(T) = n => T \in G}
<1>1. \A T \in SUBSET S : IsFiniteSet(T) /\ Cardinality(T) \in Nat
  BY FS_Subset, FS_CardinalityType
<1>2. 0 \in N
  BY <1>1, FS_EmptySet
<1>3. ASSUME NEW n \in Nat, n \in N PROVE n + 1 \in N
  <2>1. SUFFICES ASSUME NEW T \in SUBSET S, Cardinality(T) = n + 1 PROVE T \in G
    OBVIOUS
  <2>2. T # {}
    <3>1. Cardinality(T) # 0
      BY <2>1
    <3> QED
      BY <3>1, FS_EmptySet, Zenon
  <2>3. PICK x \in T : TRUE
    BY <2>2
  <2>4. Cardinality(T \ {x}) = n
    <3>1. Cardinality(T \ {x}) = Cardinality(T) - 1
      BY <1>1, <2>3, FS_RemoveElement
    <3> QED
      BY <2>1, <3>1
  <2>5. T \ {x} \in G /\ (T \ {x}) \cup {x} = T
    BY <1>3, <2>3, <2>4
  <2> QED
    BY <2>3, <2>5
<1>4. Cardinality(S) \in N
  BY <1>1, <1>2, <1>3, NatSet
<1> QED
  BY <1>4

(***************************************************************************)
(* The sum is the value of a recursive function on the parts of the set.   *)
(***************************************************************************)
Total(f, S) == SumFunctionOnSet(f, S)

Picked(s) == CHOOSE x \in s : TRUE
Unfolded(f, g, s) == IF s = {} THEN 0 ELSE f[Picked(s)] + g[s \ {Picked(s)}]
Unfolds(f, g, D) == g = [s \in D |-> Unfolded(f, g, s)]

LEMMA OneOf == ASSUME NEW s, s # {} PROVE Picked(s) \in s
  BY DEF Picked

\* A function that unfolds as far as n elements.
UpTo(S, n) == {s \in SUBSET S : Cardinality(s) <= n}
Reaches(f, S, n) == \E g : Unfolds(f, g, UpTo(S, n))

LEMMA UnfoldsTo ==
  ASSUME NEW f, NEW S, IsFiniteSet(S), NEW n \in Nat
  PROVE  Reaches(f, S, n)
<1> DEFINE G == {i \in Nat : Reaches(f, S, i)}
<1>1. \A s \in SUBSET S : IsFiniteSet(s) /\ Cardinality(s) \in Nat
  BY FS_Subset, FS_CardinalityType
<1>2. 0 \in G
  <2>1. UpTo(S, 0) = {{}}
    BY <1>1, FS_EmptySet DEF UpTo
  <2>2. Unfolds(f, [s \in {{}} |-> 0], {{}})
    BY DEF Unfolds, Unfolded
  <2>3. Reaches(f, S, 0)
    BY <2>1, <2>2, Zenon DEF Reaches
  <2> QED
    BY <2>3
<1>3. ASSUME NEW i \in Nat, i \in G PROVE i + 1 \in G
  <2>1. PICK g : Unfolds(f, g, UpTo(S, i))
    BY <1>3 DEF Reaches
  <2> DEFINE h == [s \in UpTo(S, i + 1) |-> Unfolded(f, g, s)]
  <2>2. \A s \in UpTo(S, i + 1) : s # {} => s \ {Picked(s)} \in UpTo(S, i) \cap UpTo(S, i + 1)
    BY <1>1, OneOf, FS_RemoveElement DEF UpTo
  <2>3. \A s \in UpTo(S, i) : s \in UpTo(S, i + 1)
    BY <1>1 DEF UpTo
  <2>4. ASSUME NEW s \in UpTo(S, i) PROVE h[s] = g[s]
    BY <2>1, <2>3, <2>4 DEF Unfolds
  <2>5. ASSUME NEW s \in UpTo(S, i + 1) PROVE Unfolded(f, h, s) = Unfolded(f, g, s)
    BY <2>2, <2>4, <2>5 DEF Unfolded
  <2>6. Unfolds(f, h, UpTo(S, i + 1))
    BY <2>5, Zenon DEF Unfolds
  <2>7. Reaches(f, S, i + 1)
    BY <2>6, Zenon DEF Reaches
  <2> QED
    BY <2>7
<1>4. n \in G
  BY <1>2, <1>3, NatSet
<1> QED
  BY <1>4

LEMMA TotalUnfolds ==
  ASSUME NEW f, NEW S, IsFiniteSet(S)
  PROVE  \E g : Unfolds(f, g, SUBSET S) /\ Total(f, S) = g[S]
<1> DEFINE it == CHOOSE g : Unfolds(f, g, SUBSET S)
<1>1. Cardinality(S) \in Nat /\ \A s \in SUBSET S : Cardinality(s) <= Cardinality(S)
  BY FS_Subset, FS_CardinalityType
<1>2. UpTo(S, Cardinality(S)) = SUBSET S
  BY <1>1 DEF UpTo
<1>3. \E g : Unfolds(f, g, SUBSET S)
  <2>1. Reaches(f, S, Cardinality(S))
    BY <1>1, UnfoldsTo
  <2> QED
    BY <1>2, <2>1, Zenon DEF Reaches
<1>4. Unfolds(f, it, SUBSET S)
  BY <1>3
<1>5. Total(f, S) = it[S]
  BY DEF Total, SumFunctionOnSet, FoldFunctionOnSet, MapThenFoldSet, Unfolds, Unfolded, Picked
<1> QED
  BY <1>4, <1>5

LEMMA TotalOfNone == ASSUME NEW f PROVE Total(f, {}) = 0
<1>1. PICK g : Unfolds(f, g, SUBSET {}) /\ Total(f, {}) = g[{}]
  BY TotalUnfolds, FS_EmptySet
<1> QED
  BY <1>1 DEF Unfolds, Unfolded

\* Two functions that unfold agree where both are defined.
LEMMA UnfoldsOnce ==
  ASSUME NEW f, NEW S, IsFiniteSet(S), NEW U, S \subseteq U, NEW g, NEW h,
         Unfolds(f, g, SUBSET U), Unfolds(f, h, SUBSET S)
  PROVE  g[S] = h[S]
<1> DEFINE N == {n \in Nat : \A s \in SUBSET S : Cardinality(s) = n => g[s] = h[s]}
<1>1. \A s \in SUBSET S : /\ IsFiniteSet(s) /\ Cardinality(s) \in Nat
                          /\ Cardinality(s) = 0 <=> s = {}
  BY FS_Subset, FS_CardinalityType, FS_EmptySet
<1>2. \A s \in SUBSET S : g[s] = Unfolded(f, g, s) /\ h[s] = Unfolded(f, h, s)
  BY DEF Unfolds
<1>3. 0 \in N
  BY <1>1, <1>2 DEF Unfolded
<1>4. ASSUME NEW n \in Nat, n \in N PROVE n + 1 \in N
  <2>1. SUFFICES ASSUME NEW s \in SUBSET S, Cardinality(s) = n + 1 PROVE g[s] = h[s]
    OBVIOUS
  <2>2. s # {} /\ Picked(s) \in s
    BY <1>1, <2>1, OneOf
  <2>3. Cardinality(s \ {Picked(s)}) = Cardinality(s) - 1
    BY <1>1, <2>2, FS_RemoveElement
  <2>4. Cardinality(s \ {Picked(s)}) = n
    BY <2>1, <2>3
  <2>5. g[s \ {Picked(s)}] = h[s \ {Picked(s)}]
    BY <1>4, <2>4
  <2> QED
    BY <1>2, <2>2, <2>5 DEF Unfolded
<1>5. Cardinality(S) \in N
  BY <1>1, <1>3, <1>4, NatSet
<1> QED
  BY <1>5

LEMMA TotalOfOneMore ==
  ASSUME NEW f, NEW S, IsFiniteSet(S), S # {}
  PROVE  Total(f, S) = f[Picked(S)] + Total(f, S \ {Picked(S)})
<1> DEFINE T == S \ {Picked(S)}
<1>1. IsFiniteSet(T)
  BY FS_Subset
<1>2. PICK g : Unfolds(f, g, SUBSET S) /\ Total(f, S) = g[S]
  BY TotalUnfolds
<1>3. PICK h : Unfolds(f, h, SUBSET T) /\ Total(f, T) = h[T]
  BY <1>1, TotalUnfolds
<1>4. g[T] = h[T]
  <2>1. T \subseteq S
    OBVIOUS
  <2> HIDE DEF T
  <2> QED
    BY <1>1, <1>2, <1>3, <2>1, UnfoldsOnce
<1>5. g[S] = Unfolded(f, g, S)
  BY <1>2 DEF Unfolds
<1> QED
  BY <1>2, <1>3, <1>4, <1>5 DEF Unfolded

(***************************************************************************)
(* What sums of naturals are: the order of the summands does not matter.   *)
(***************************************************************************)
LEMMA TotalType ==
  ASSUME NEW f, NEW S, IsFiniteSet(S), \A x \in S : f[x] \in Nat
  PROVE  Total(f, S) \in Nat
<1> DEFINE N == {n \in Nat : \A s \in SUBSET S : Cardinality(s) = n => Total(f, s) \in Nat}
<1>1. \A s \in SUBSET S : /\ IsFiniteSet(s) /\ Cardinality(s) \in Nat
                          /\ Cardinality(s) = 0 <=> s = {}
  BY FS_Subset, FS_CardinalityType, FS_EmptySet
<1>2. 0 \in N
  BY <1>1, TotalOfNone
<1>3. ASSUME NEW n \in Nat, n \in N PROVE n + 1 \in N
  <2>1. SUFFICES ASSUME NEW s \in SUBSET S, Cardinality(s) = n + 1 PROVE Total(f, s) \in Nat
    OBVIOUS
  <2>2. s # {} /\ Picked(s) \in s
    BY <1>1, <2>1, OneOf
  <2>3. Cardinality(s \ {Picked(s)}) = Cardinality(s) - 1
    BY <1>1, <2>2, FS_RemoveElement
  <2>4. Cardinality(s \ {Picked(s)}) = n
    BY <2>1, <2>3
  <2>5. Total(f, s \ {Picked(s)}) \in Nat
    BY <1>3, <2>4
  <2>6. Total(f, s) = f[Picked(s)] + Total(f, s \ {Picked(s)})
    BY <1>1, <2>2, TotalOfOneMore
  <2> QED
    BY <2>2, <2>5, <2>6
<1>4. Cardinality(S) \in N
  BY <1>1, <1>2, <1>3, NatSet
<1> QED
  BY <1>4

LEMMA TotalLess ==
  ASSUME NEW f, NEW S, IsFiniteSet(S), \A y \in S : f[y] \in Nat, NEW x \in S
  PROVE  Total(f, S) = f[x] + Total(f, S \ {x})
<1> DEFINE N == {n \in Nat : \A s \in SUBSET S : Cardinality(s) = n =>
                  \A y \in s : Total(f, s) = f[y] + Total(f, s \ {y})}
<1>1. \A s \in SUBSET S : /\ IsFiniteSet(s) /\ Cardinality(s) \in Nat
                          /\ Cardinality(s) = 0 <=> s = {}
  BY FS_Subset, FS_CardinalityType, FS_EmptySet
<1>2. 0 \in N
  BY <1>1
<1>3. ASSUME NEW n \in Nat, n \in N PROVE n + 1 \in N
  <2>1. SUFFICES ASSUME NEW s \in SUBSET S, Cardinality(s) = n + 1, NEW y \in s
                 PROVE Total(f, s) = f[y] + Total(f, s \ {y})
    OBVIOUS
  <2> DEFINE a == Picked(s)
             t == s \ {a}
             u == s \ {y}
             v == t \ {y}
  <2>2. a \in s /\ Total(f, s) = f[a] + Total(f, t)
    BY <1>1, <2>1, OneOf, TotalOfOneMore
  <2>3. CASE y = a
    BY <2>2, <2>3
  <2>4. CASE y # a
    <3>1. y \in t /\ a \in u /\ u \ {a} = v
      BY <2>2, <2>4
    <3>2. Cardinality(t) = Cardinality(s) - 1 /\ Cardinality(u) = Cardinality(s) - 1
      BY <1>1, <2>2, FS_RemoveElement
    <3>3. Cardinality(t) = n /\ Cardinality(u) = n
      BY <2>1, <3>2
    <3>4. Total(f, t) = f[y] + Total(f, v) /\ Total(f, u) = f[a] + Total(f, u \ {a})
      BY <1>3, <3>1, <3>3
    <3>5. Total(f, v) \in Nat /\ f[a] \in Nat /\ f[y] \in Nat
      BY <1>1, <2>2, TotalType
    <3>6. Total(f, u) = f[a] + Total(f, v)
      BY <3>1, <3>4
    <3> HIDE DEF a, t, u, v
    <3>7. Total(f, s) = f[y] + Total(f, u)
      BY <2>2, <3>4, <3>5, <3>6
    <3> QED
      BY <3>7 DEF u
  <2> QED
    BY <2>3, <2>4
<1>4. Cardinality(S) \in N
  BY <1>1, <1>2, <1>3, NatSet
<1> QED
  BY <1>4

LEMMA TotalMore ==
  ASSUME NEW f, NEW S, IsFiniteSet(S), \A y \in S : f[y] \in Nat, NEW x, x \notin S,
         f[x] \in Nat
  PROVE  Total(f, S \cup {x}) = f[x] + Total(f, S)
<1>1. IsFiniteSet(S \cup {x}) /\ (S \cup {x}) \ {x} = S /\ \A y \in S \cup {x} : f[y] \in Nat
  BY FS_AddElement
<1> QED
  BY <1>1, TotalLess

\* Only the values on the set count, and smaller ones give a smaller sum.
LEMMA TotalMonotonic ==
  ASSUME NEW f, NEW g, NEW S, IsFiniteSet(S),
         \A x \in S : f[x] \in Nat /\ g[x] \in Nat /\ f[x] <= g[x]
  PROVE  Total(f, S) <= Total(g, S)
<1> DEFINE G == {s \in SUBSET S : Total(f, s) <= Total(g, s)}
<1>1. {} \in G
  BY TotalOfNone
<1>2. ASSUME NEW T \in SUBSET S, NEW x \in S \ T, T \in G PROVE T \cup {x} \in G
  <2>1. IsFiniteSet(T)
    BY FS_Subset
  <2>2. Total(f, T \cup {x}) = f[x] + Total(f, T) /\ Total(g, T \cup {x}) = g[x] + Total(g, T)
    BY <2>1, TotalMore
  <2>3. Total(f, T) \in Nat /\ Total(g, T) \in Nat
    BY <2>1, TotalType
  <2>4. Total(f, T) <= Total(g, T) /\ f[x] <= g[x] /\ f[x] \in Nat /\ g[x] \in Nat
    BY <1>2
  <2>5. Total(f, T \cup {x}) <= Total(g, T \cup {x})
    BY <2>2, <2>3, <2>4
  <2> QED
    BY <2>5
<1>3. S \in G
  <2> HIDE DEF G
  <2> QED
    BY <1>1, <1>2, PartsOf
<1> QED
  BY <1>3

LEMMA TotalSame ==
  ASSUME NEW f, NEW g, NEW S, IsFiniteSet(S),
         \A x \in S : f[x] \in Nat /\ f[x] = g[x]
  PROVE  Total(f, S) = Total(g, S)
<1>1. Total(f, S) <= Total(g, S) /\ Total(g, S) <= Total(f, S)
  BY TotalMonotonic
<1>2. Total(f, S) \in Nat /\ Total(g, S) \in Nat
  BY TotalType
<1> QED
  BY <1>1, <1>2

\* The sum of a part.
LEMMA TotalOfPart ==
  ASSUME NEW f, NEW S, IsFiniteSet(S), \A x \in S : f[x] \in Nat, NEW T, T \subseteq S
  PROVE  Total(f, T) <= Total(f, S)
<1> DEFINE G == {s \in SUBSET (S \ T) : Total(f, T) <= Total(f, T \cup s)}
<1>1. IsFiniteSet(T) /\ IsFiniteSet(S \ T)
  BY FS_Subset
<1>2. {} \in G
  <2>1. T \cup {} = T
    OBVIOUS
  <2>2. Total(f, T) \in Nat
    BY <1>1, TotalType
  <2> QED
    BY <2>1, <2>2
<1>3. ASSUME NEW s \in SUBSET (S \ T), NEW x \in (S \ T) \ s, s \in G PROVE s \cup {x} \in G
  <2>1. IsFiniteSet(T \cup s) /\ x \notin T \cup s
    BY FS_Subset
  <2>2. Total(f, (T \cup s) \cup {x}) = f[x] + Total(f, T \cup s)
    BY <2>1, TotalMore
  <2>3. (T \cup s) \cup {x} = T \cup (s \cup {x})
    OBVIOUS
  <2>4. Total(f, T) \in Nat /\ Total(f, T \cup s) \in Nat /\ f[x] \in Nat
    BY <1>1, <2>1, TotalType
  <2>5. Total(f, T) <= Total(f, T \cup (s \cup {x}))
    <3>1. Total(f, T) <= Total(f, T \cup s)
      BY <1>3
    <3>2. Total(f, T \cup (s \cup {x})) = f[x] + Total(f, T \cup s)
      BY <2>2, <2>3, Zenon
    <3> QED
      BY <2>4, <3>1, <3>2
  <2> QED
    BY <2>5
<1>4. S \ T \in G
  <2> HIDE DEF G
  <2> QED
    BY <1>1, <1>2, <1>3, PartsOf
<1>5. T \cup (S \ T) = S
  OBVIOUS
<1> QED
  BY <1>4, <1>5

\* One value changes.
LEMMA TotalChanges ==
  ASSUME NEW f, NEW g, NEW S, IsFiniteSet(S), NEW x \in S,
         \A y \in S : f[y] \in Nat /\ g[y] \in Nat,
         \A y \in S \ {x} : f[y] = g[y]
  PROVE  /\ Total(f, S) \in Nat /\ Total(g, S) \in Nat
         /\ Total(g, S) + f[x] = Total(f, S) + g[x]
<1>1. IsFiniteSet(S \ {x})
  BY FS_Subset
<1>2. Total(f, S \ {x}) = Total(g, S \ {x})
  BY <1>1, TotalSame
<1>3. Total(f, S) = f[x] + Total(f, S \ {x}) /\ Total(g, S) = g[x] + Total(g, S \ {x})
  BY TotalLess
<1>4. Total(f, S) \in Nat /\ Total(g, S) \in Nat /\ Total(f, S \ {x}) \in Nat
  BY <1>1, TotalType
<1> QED
  BY <1>2, <1>3, <1>4
\* What is zero does not count.
LEMMA TotalWhere ==
  ASSUME NEW f, NEW g, NEW S, IsFiniteSet(S), NEW T, T \subseteq S,
         \A x \in T : f[x] \in Nat /\ g[x] = f[x], \A x \in S \ T : g[x] = 0
  PROVE  Total(f, T) = Total(g, S)
<1> DEFINE G == {s \in SUBSET (S \ T) : Total(g, T) = Total(g, T \cup s)}
<1>1. IsFiniteSet(T) /\ IsFiniteSet(S \ T) /\ \A x \in S : g[x] \in Nat
  BY FS_Subset
<1>2. {} \in G
  <2>1. T \cup {} = T
    OBVIOUS
  <2> QED
    BY <2>1
<1>3. ASSUME NEW s \in SUBSET (S \ T), NEW x \in (S \ T) \ s, s \in G PROVE s \cup {x} \in G
  <2>1. IsFiniteSet(T \cup s) /\ x \notin T \cup s /\ \A y \in T \cup s : g[y] \in Nat
    BY <1>1, FS_Subset
  <2>2. Total(g, (T \cup s) \cup {x}) = g[x] + Total(g, T \cup s) /\ Total(g, T \cup s) \in Nat
    BY <1>1, <2>1, TotalMore, TotalType
  <2>3. (T \cup s) \cup {x} = T \cup (s \cup {x}) /\ g[x] = 0
    OBVIOUS
  <2>4. Total(g, T \cup (s \cup {x})) = Total(g, T \cup s)
    <3>1. Total(g, T \cup (s \cup {x})) = g[x] + Total(g, T \cup s)
      BY <2>2, <2>3, Zenon
    <3> QED
      BY <2>2, <2>3, <3>1
  <2>5. Total(g, T) = Total(g, T \cup s)
    BY <1>3
  <2>6. Total(g, T) = Total(g, T \cup (s \cup {x}))
    BY <2>4, <2>5, Zenon
  <2> QED
    BY <2>6
<1>4. S \ T \in G
  <2> HIDE DEF G
  <2> QED
    BY <1>1, <1>2, <1>3, PartsOf
<1>5. T \cup (S \ T) = S
  OBVIOUS
<1>6. Total(g, T) = Total(g, S)
  BY <1>4, <1>5
<1>7. Total(f, T) = Total(g, T)
  BY <1>1, TotalSame
<1> QED
  BY <1>6, <1>7

---------------------------------------------------------------------------

Minted == {t \in Token : ledger[Lock(t)] # NoRow}
Parts(e) == IF e.type = "split" THEN {e.parts[1], e.parts[2]} ELSE {}

AtRest ==
  /\ step \in Nat \ {0}
  /\ next = Len(log) + 1 => step = 1
  /\ orphan = NoOrphan \/ orphan \in [n : 1..Len(log), step : Nat \ {0}]

\* veNFTs are minted one after the other, and vote or are named once minted.
MintedInOrder ==
  /\ Minted = 1..Cardinality(Minted)
  /\ \A t \in Token : ledger[Vote(t)] # NoRow => t \in Minted
  /\ \A n \in 1..Len(log) : log[n].token \in Minted
  /\ \A k, m \in 1..Len(log) : k <= m => log[k].token \notin Parts(log[m])

\* What is closed was closed by an event the consumer has reached.
ClosedByNow ==
  orphaned = {} /\ ~rewound =>
    /\ orphan = NoOrphan
    /\ \A t \in Token : db[Lock(t)] # NoRow /\ ~db[Lock(t)].active =>
         \E k \in 1..Len(log) : k <= next /\ log[k].token = t

IInv == TypeOK /\ AtRest /\ MintedInOrder /\ ClosedByNow
-----------------------------------------------------------------------------
(* Events, statements and rows.                                            *)

LEMMA EventFields ==
  ASSUME NEW e \in Event
  PROVE  /\ e.token \in Token
         /\ e.type \in {"create", "increase", "extend", "withdraw", "lockPermanent",
                        "unlockPermanent", "abstained", "merge", "split", "voted"}
         /\ e.type = "create" => e.value \in Nat /\ e.end \in Nat
         /\ e.type = "increase" => e.value \in Nat
         /\ e.type = "extend" => e.end \in Nat
         /\ e.type = "merge" => e.to \in Token /\ e.amount \in Nat /\ e.end \in Nat
         /\ e.type = "split" => /\ e.parts[1] \in Token /\ e.parts[2] \in Token
                                /\ e.amounts[1] \in Nat /\ e.amounts[2] \in Nat
                                /\ e.end \in Nat
         /\ e.type = "voted" => e.weight \in Nat
BY DEF Event

\* What c does to a row of a lock: it keeps its type, and becomes active or
\* inactive only as said.
Keeps(c) == \A r \in LockRow : With(c, r) \in LockRow /\ With(c, r).active = r.active
Sets(c, a) == \A r \in LockRow : With(c, r) \in LockRow /\ With(c, r).active = a

LEMMA Changes ==
  /\ Sets(Closed, FALSE)
  /\ \A n \in Nat : Keeps([end |-> n])
  /\ Keeps([permanent |-> TRUE, end |-> 0]) /\ Keeps([permanent |-> FALSE])
  /\ \A a, n \in Nat : /\ Keeps([amount |-> a, end |-> n])
                       /\ Sets([amount |-> a, end |-> n, active |-> TRUE], TRUE)
<1>1. Sets(Closed, FALSE)
  BY DEF Sets, Closed, With, LockRow
<1>2. ASSUME NEW n \in Nat PROVE Keeps([end |-> n])
  BY DEF Keeps, With, LockRow
<1>3. Keeps([permanent |-> TRUE, end |-> 0]) /\ Keeps([permanent |-> FALSE])
  BY DEF Keeps, With, LockRow
<1>4. ASSUME NEW a \in Nat, NEW n \in Nat
      PROVE  /\ Keeps([amount |-> a, end |-> n])
             /\ Sets([amount |-> a, end |-> n, active |-> TRUE], TRUE)
  BY DEF Keeps, Sets, With, LockRow
<1> QED
  BY <1>1, <1>2, <1>3, <1>4

\* A statement of the handler of e: a record, or a write of a row.
LockWrite(s, e) ==
  \E t \in Token :
    /\ s.key = Lock(t)
    /\ \/ s.op = "insert" /\ s.row \in LockRow /\ s.row.active
       \/ s.op = "add" /\ s.value \in Nat
       \/ s.op = "update" /\ (Keeps(s.change) \/ (Sets(s.change, FALSE) /\ t = e.token))
       \/ s.op = "upsert" /\ s.row \in LockRow /\ s.row.active
            /\ Sets(s.change, TRUE) /\ t \in Parts(e)

VoteWrite(s, e) ==
  /\ s.key = Vote(e.token)
  /\ \/ s.op = "upsert" /\ s.row \in VoteRow
     \/ s.op = "update"
  /\ \A r \in VoteRow : With(s.change, r) \in VoteRow

LEMMA UpdateWrites ==
  ASSUME NEW e, NEW t \in Token, NEW c, Keeps(c) \/ (Sets(c, FALSE) /\ t = e.token)
  PROVE  LockWrite(Update(Lock(t), c), e)
<1>1. LET s == Update(Lock(t), c) IN s.op = "update" /\ s.key = Lock(t) /\ s.change = c
  BY DEF Update
<1> QED
  BY <1>1 DEF LockWrite

LEMMA InsertWrites ==
  ASSUME NEW e, NEW t \in Token, NEW a \in Nat, NEW n \in Nat
  PROVE  LockWrite(Insert(Lock(t), NewLock(a, n)), e)
<1>1. NewLock(a, n) \in LockRow /\ NewLock(a, n).active
  BY DEF NewLock, LockRow
<1>2. LET s == Insert(Lock(t), NewLock(a, n)) IN
        s.op = "insert" /\ s.key = Lock(t) /\ s.row = NewLock(a, n)
  BY DEF Insert
<1> QED
  BY <1>1, <1>2 DEF LockWrite

LEMMA AddWrites ==
  ASSUME NEW e, NEW t \in Token, NEW v \in Nat
  PROVE  LockWrite(Add(Lock(t), v), e)
<1>1. LET s == Add(Lock(t), v) IN s.op = "add" /\ s.key = Lock(t) /\ s.value = v
  BY DEF Add
<1> QED
  BY <1>1 DEF LockWrite

LEMMA UpsertWrites ==
  ASSUME NEW e, NEW t \in Token, t \in Parts(e), NEW a \in Nat, NEW n \in Nat
  PROVE  LockWrite(UpsertLock(t, a, n), e)
<1>1. NewLock(a, n) \in LockRow /\ NewLock(a, n).active
  BY DEF NewLock, LockRow
<1>2. Sets([amount |-> a, end |-> n, active |-> TRUE], TRUE)
  BY Changes
<1>3. LET s == UpsertLock(t, a, n) IN
        /\ s.op = "upsert" /\ s.key = Lock(t) /\ s.row = NewLock(a, n)
        /\ s.change = [amount |-> a, end |-> n, active |-> TRUE]
  BY DEF UpsertLock, Upsert
<1> QED
  BY <1>1, <1>2, <1>3 DEF LockWrite

LEMMA VoteWrites ==
  ASSUME NEW e, NEW w \in Nat, NEW a \in BOOLEAN
  PROVE  LET r == [weight |-> w, active |-> a] IN
           VoteWrite(Upsert(Vote(e.token), r, r), e) /\ VoteWrite(Update(Vote(e.token), r), e)
<1> DEFINE r == [weight |-> w, active |-> a]
<1>1. r \in VoteRow /\ \A q \in VoteRow : With(r, q) \in VoteRow
  BY DEF VoteRow, With
<1>2. LET s == Upsert(Vote(e.token), r, r) IN
        s.op = "upsert" /\ s.key = Vote(e.token) /\ s.row = r /\ s.change = r
  BY DEF Upsert
<1>3. LET s == Update(Vote(e.token), r) IN
        s.op = "update" /\ s.key = Vote(e.token) /\ s.change = r
  BY DEF Update
<1> HIDE DEF r
<1> QED
  BY <1>1, <1>2, <1>3 DEF VoteWrite, r

LEMMA RecordStatement == Record.op = "record"
  BY DEF Record

LEMMA OneThenTwo ==
  ASSUME NEW a, NEW b, NEW c
  PROVE  << a >> \o << b, c >> = << a, b, c >>
<1> DEFINE S == {a, b, c}
           s == << a >>
           r == << b, c >>
<1>1. s \in Seq(S) /\ r \in Seq(S) /\ << a, b, c >> \in Seq(S)
  OBVIOUS
<1>2. Len(s) = 1 /\ s[1] = a /\ Len(r) = 2 /\ r[1] = b /\ r[2] = c
  OBVIOUS
<1> DEFINE q == << a, b, c >>
<1>3. q \in Seq(S) /\ Len(q) = 3 /\ q[1] = a /\ q[2] = b /\ q[3] = c
  BY <1>1
<1> HIDE DEF S, s, r, q
<1>4. /\ s \o r \in Seq(S) /\ Len(s \o r) = 3
      /\ \A i \in 1..3 : (s \o r)[i] = IF i <= 1 THEN s[i] ELSE r[i - 1]
  <2>1. /\ s \o r \in Seq(S) /\ Len(s \o r) = Len(s) + Len(r)
        /\ \A i \in 1..Len(s) + Len(r) :
             (s \o r)[i] = IF i <= Len(s) THEN s[i] ELSE r[i - Len(s)]
    BY <1>1, ConcatProperties, Zenon
  <2> QED
    BY <1>2, <2>1
<1>5. s \o r = q
  <2>1. (s \o r)[1] = a /\ (s \o r)[2] = b /\ (s \o r)[3] = c
    BY <1>2, <1>4
  <2>2. \A i \in 1..3 : i = 1 \/ i = 2 \/ i = 3
    OBVIOUS
  <2>3. \A i \in 1..Len(s \o r) : (s \o r)[i] = q[i]
    BY <1>3, <1>4, <2>1, <2>2
  <2> QED
    BY <1>3, <1>4, <2>3, SeqEqual
<1> QED
  BY <1>5 DEF s, r, q

\* S is what the handler of e may run.
Harmless(S, e) ==
  \A i \in 1..Len(S) : S[i].op = "record" \/ LockWrite(S[i], e) \/ VoteWrite(S[i], e)

LEMMA StatementKinds ==
  ASSUME NEW e \in Event
  PROVE  Len(Statements(e)) \in Nat \ {0} /\ Harmless(Statements(e), e)
<1>1. CASE e.type = "create"
  <2>1. Statements(e) = << Record, Insert(Lock(e.token), NewLock(e.value, e.end)) >>
    BY <1>1 DEF Statements, DepositStatements
  <2>2. LockWrite(Statements(e)[2], e)
    BY <1>1, <2>1, EventFields, InsertWrites
  <2> QED
    BY <2>1, <2>2, RecordStatement DEF Harmless
<1>2. CASE e.type = "increase"
  <2>1. Statements(e) = << Record, Add(Lock(e.token), e.value) >>
    BY <1>2 DEF Statements, DepositStatements
  <2>2. LockWrite(Statements(e)[2], e)
    BY <1>2, <2>1, EventFields, AddWrites
  <2> QED
    BY <2>1, <2>2, RecordStatement DEF Harmless
<1>3. CASE e.type = "extend"
  <2>1. Statements(e) = << Record, Update(Lock(e.token), [end |-> e.end]) >>
    BY <1>3 DEF Statements, DepositStatements
  <2>2. LockWrite(Update(Lock(e.token), [end |-> e.end]), e)
    BY <1>3, EventFields, Changes, UpdateWrites
  <2> QED
    BY <2>1, <2>2, RecordStatement DEF Harmless
<1>4. CASE e.type = "withdraw"
  <2>1. Statements(e) = << Record, Update(Lock(e.token), Closed) >>
    BY <1>4 DEF Statements, WithdrawStatements
  <2>2. LockWrite(Update(Lock(e.token), Closed), e)
    BY EventFields, Changes, UpdateWrites
  <2> QED
    BY <2>1, <2>2, RecordStatement DEF Harmless
<1>5. CASE e.type = "lockPermanent"
  <2>1. Statements(e) =
          << Record, Update(Lock(e.token), [permanent |-> TRUE, end |-> 0]) >>
    BY <1>5 DEF Statements, LockPermanentStatements
  <2>2. LockWrite(Update(Lock(e.token), [permanent |-> TRUE, end |-> 0]), e)
    BY EventFields, Changes, UpdateWrites
  <2> QED
    BY <2>1, <2>2, RecordStatement DEF Harmless
<1>6. CASE e.type = "unlockPermanent"
  <2>1. Statements(e) = << Record, Update(Lock(e.token), [permanent |-> FALSE]) >>
    BY <1>6 DEF Statements, UnlockPermanentStatements
  <2>2. LockWrite(Update(Lock(e.token), [permanent |-> FALSE]), e)
    BY EventFields, Changes, UpdateWrites
  <2> QED
    BY <2>1, <2>2, RecordStatement DEF Harmless
<1>7. CASE e.type = "merge"
  <2>1. Statements(e) = << Record, Update(Lock(e.token), Closed),
                           Update(Lock(e.to), [amount |-> e.amount, end |-> e.end]) >>
    <3>1. Statements(e) = << Record >> \o ClosesThenRaises(e)
      BY <1>7 DEF Statements, MergeStatements
    <3> QED
      BY <3>1, OneThenTwo DEF ClosesThenRaises
  <2>2. LockWrite(Update(Lock(e.token), Closed), e)
    BY EventFields, Changes, UpdateWrites
  <2>3. LockWrite(Update(Lock(e.to), [amount |-> e.amount, end |-> e.end]), e)
    BY <1>7, EventFields, Changes, UpdateWrites
  <2> QED
    BY <2>1, <2>2, <2>3, RecordStatement DEF Harmless
<1>8. CASE e.type = "split"
  <2>1. Statements(e) = << Record, Update(Lock(e.token), Closed),
                           UpsertLock(e.parts[1], e.amounts[1], e.end),
                           UpsertLock(e.parts[2], e.amounts[2], e.end) >>
    BY <1>8 DEF Statements, SplitStatements
  <2>2. LockWrite(Update(Lock(e.token), Closed), e)
    BY EventFields, Changes, UpdateWrites
  <2>3. e.parts[1] \in Parts(e) /\ e.parts[2] \in Parts(e)
    BY <1>8 DEF Parts
  <2>4. LockWrite(Statements(e)[3], e)
    BY <1>8, <2>1, <2>3, EventFields, UpsertWrites
  <2>5. LockWrite(Statements(e)[4], e)
    BY <1>8, <2>1, <2>3, EventFields, UpsertWrites
  <2> QED
    BY <2>1, <2>2, <2>4, <2>5, RecordStatement DEF Harmless
<1>9. CASE e.type = "voted"
  <2>1. LET r == [weight |-> e.weight, active |-> TRUE] IN
          Statements(e) = << Upsert(Vote(e.token), r, r), Record >>
    BY <1>9 DEF Statements, VotedStatements
  <2>2. LET r == [weight |-> e.weight, active |-> TRUE] IN
          VoteWrite(Upsert(Vote(e.token), r, r), e)
    BY <1>9, EventFields, VoteWrites
  <2> QED
    BY <2>1, <2>2, RecordStatement DEF Harmless
<1>10. CASE e.type = "abstained"
  <2>1. Statements(e) =
          << Update(Vote(e.token), [weight |-> 0, active |-> FALSE]), Record >>
    BY <1>10 DEF Statements, AbstainedStatements
  <2>2. VoteWrite(Update(Vote(e.token), [weight |-> 0, active |-> FALSE]), e)
    BY VoteWrites
  <2> QED
    BY <2>1, <2>2, RecordStatement DEF Harmless
<1> QED
  BY <1>1, <1>2, <1>3, <1>4, <1>5, <1>6, <1>7, <1>8, <1>9, <1>10, EventFields
-----------------------------------------------------------------------------
(* Positions, and what a statement writes.                                 *)

LEMMA Placed ==
  ASSUME NEW p \in Positions, NEW t \in Token
  PROVE  /\ p[Lock(t)] \in LockRow \cup {NoRow} /\ p[Vote(t)] \in VoteRow \cup {NoRow}
         /\ \A r \in LockRow \cup {NoRow} :
              LET q == [p EXCEPT ![Lock(t)] = r] IN
              /\ q \in Positions /\ q[Lock(t)] = r
              /\ \A u \in Token : u # t => q[Lock(u)] = p[Lock(u)]
              /\ \A u \in Token : q[Vote(u)] = p[Vote(u)]
         /\ \A r \in VoteRow \cup {NoRow} :
              LET q == [p EXCEPT ![Vote(t)] = r] IN
              /\ q \in Positions
              /\ \A u \in Token : q[Lock(u)] = p[Lock(u)]
              /\ \A u \in Token : u # t => q[Vote(u)] = p[Vote(u)]
<1>1. /\ p \in [Key -> LockRow \cup VoteRow \cup {NoRow}]
      /\ \A u \in Token : /\ p[Lock(u)] \in LockRow \cup {NoRow}
                          /\ p[Vote(u)] \in VoteRow \cup {NoRow}
  BY DEF Positions
<1>2. /\ \A u \in Token : Lock(u) \in Key /\ Vote(u) \in Key
      /\ \A u, v \in Token : Lock(u) # Vote(v) /\ (u # v => Lock(u) # Lock(v))
      /\ \A u, v \in Token : u # v => Vote(u) # Vote(v)
  BY DEF Lock, Vote, Key
<1>3. ASSUME NEW r \in LockRow \cup {NoRow}
      PROVE  LET q == [p EXCEPT ![Lock(t)] = r] IN
             /\ q \in Positions /\ q[Lock(t)] = r
             /\ \A u \in Token : u # t => q[Lock(u)] = p[Lock(u)]
             /\ \A u \in Token : q[Vote(u)] = p[Vote(u)]
  <2> DEFINE q == [p EXCEPT ![Lock(t)] = r]
  <2>1. q \in [Key -> LockRow \cup VoteRow \cup {NoRow}]
    BY <1>1
  <2>2. q[Lock(t)] = r /\ \A k \in Key : k # Lock(t) => q[k] = p[k]
    BY <1>1, <1>2
  <2> HIDE DEF q
  <2>3. \A u \in Token : u # t => q[Lock(u)] = p[Lock(u)]
    BY <1>2, <2>2
  <2>4. \A u \in Token : q[Vote(u)] = p[Vote(u)]
    BY <1>2, <2>2
  <2>5. \A u \in Token : /\ q[Lock(u)] \in LockRow \cup {NoRow}
                         /\ q[Vote(u)] \in VoteRow \cup {NoRow}
    BY <1>1, <2>2, <2>3, <2>4
  <2> QED
    BY <2>1, <2>2, <2>3, <2>4, <2>5 DEF Positions, q
<1>4. ASSUME NEW r \in VoteRow \cup {NoRow}
      PROVE  LET q == [p EXCEPT ![Vote(t)] = r] IN
             /\ q \in Positions
             /\ \A u \in Token : q[Lock(u)] = p[Lock(u)]
             /\ \A u \in Token : u # t => q[Vote(u)] = p[Vote(u)]
  <2> DEFINE q == [p EXCEPT ![Vote(t)] = r]
  <2>1. q \in [Key -> LockRow \cup VoteRow \cup {NoRow}]
    BY <1>1
  <2>2. q[Vote(t)] = r /\ \A k \in Key : k # Vote(t) => q[k] = p[k]
    BY <1>1, <1>2
  <2> HIDE DEF q
  <2>3. \A u \in Token : q[Lock(u)] = p[Lock(u)]
    BY <1>2, <2>2
  <2>4. \A u \in Token : u # t => q[Vote(u)] = p[Vote(u)]
    BY <1>2, <2>2
  <2>5. \A u \in Token : /\ q[Lock(u)] \in LockRow \cup {NoRow}
                         /\ q[Vote(u)] \in VoteRow \cup {NoRow}
    BY <1>1, <2>2, <2>3, <2>4
  <2> QED
    BY <2>1, <2>3, <2>4, <2>5 DEF Positions, q
<1> QED
  BY <1>1, <1>3, <1>4

\* A row of a lock that is there stays there; s makes it active only as a part
\* of a split, and inactive only as the lock that e names.
LEMMA LockWritten ==
  ASSUME db \in Positions, NEW e, NEW s, LockWrite(s, e)
  PROVE  \E t \in Token :
           LET r == db[Lock(t)]
               w == Written(s)
           IN
           /\ s.key = Lock(t) /\ s.op # "record" /\ w \in LockRow \cup {NoRow}
           /\ r = NoRow /\ w # NoRow => w.active
           /\ r # NoRow => w # NoRow
           /\ r # NoRow /\ ~r.active => ~w.active \/ t \in Parts(e)
           /\ r # NoRow /\ r.active => w.active \/ t = e.token
<1>1. PICK t \in Token :
        /\ s.key = Lock(t)
        /\ \/ s.op = "insert" /\ s.row \in LockRow /\ s.row.active
           \/ s.op = "add" /\ s.value \in Nat
           \/ s.op = "update" /\ (Keeps(s.change) \/ (Sets(s.change, FALSE) /\ t = e.token))
           \/ s.op = "upsert" /\ s.row \in LockRow /\ s.row.active
                /\ Sets(s.change, TRUE) /\ t \in Parts(e)
  BY DEF LockWrite
<1> DEFINE r == db[Lock(t)]
           w == Written(s)
<1>2. r \in LockRow \cup {NoRow} /\ NoRow \notin LockRow
  BY Placed, NoRowAssumption
<1>3. CASE s.op = "insert" /\ s.row \in LockRow /\ s.row.active
  <2>1. w = IF r = NoRow THEN s.row ELSE r
    BY <1>1, <1>3 DEF Written
  <2> QED
    BY <1>1, <1>2, <1>3, <2>1
<1>4. CASE s.op = "add" /\ s.value \in Nat
  <2>1. w = IF r = NoRow THEN r ELSE [r EXCEPT !.amount = @ + s.value]
    BY <1>1, <1>4 DEF Written
  <2>2. r \in LockRow => w \in LockRow /\ w.active = r.active
    BY <1>2, <1>4, <2>1 DEF LockRow
  <2> QED
    BY <1>1, <1>2, <1>4, <2>1, <2>2
<1>5. CASE s.op = "update" /\ (Keeps(s.change) \/ (Sets(s.change, FALSE) /\ t = e.token))
  <2>1. w = IF r = NoRow THEN r ELSE With(s.change, r)
    BY <1>1, <1>5 DEF Written
  <2>2. CASE Keeps(s.change)
    BY <1>1, <1>2, <1>5, <2>1, <2>2 DEF Keeps
  <2>3. CASE Sets(s.change, FALSE) /\ t = e.token
    BY <1>1, <1>2, <1>5, <2>1, <2>3 DEF Sets
  <2> QED
    BY <1>5, <2>2, <2>3
<1>6. CASE s.op = "upsert" /\ s.row \in LockRow /\ s.row.active
             /\ Sets(s.change, TRUE) /\ t \in Parts(e)
  <2>1. w = IF r = NoRow THEN s.row ELSE With(s.change, r)
    BY <1>1, <1>6 DEF Written
  <2> QED
    BY <1>1, <1>2, <1>6, <2>1 DEF Sets
<1> QED
  BY <1>1, <1>3, <1>4, <1>5, <1>6

LEMMA VoteWritten ==
  ASSUME db \in Positions, NEW e, e.token \in Token, NEW s, VoteWrite(s, e)
  PROVE  Written(s) \in VoteRow \cup {NoRow} /\ s.op # "record" /\ s.key = Vote(e.token)
<1>1. db[s.key] \in VoteRow \cup {NoRow} /\ s.key = Vote(e.token)
  BY Placed DEF VoteWrite
<1>2. CASE s.op = "upsert"
  <2>1. Written(s) = IF db[s.key] = NoRow THEN s.row ELSE With(s.change, db[s.key])
    BY <1>2 DEF Written
  <2> QED
    BY <1>1, <1>2, <2>1 DEF VoteWrite
<1>3. CASE s.op = "update"
  <2>1. Written(s) = IF db[s.key] = NoRow THEN db[s.key] ELSE With(s.change, db[s.key])
    BY <1>3 DEF Written
  <2> QED
    BY <1>1, <1>3, <2>1 DEF VoteWrite
<1> QED
  BY <1>2, <1>3 DEF VoteWrite

LEMMA EventsOfLog ==
  ASSUME TypeOK
  PROVE  /\ Len(log) \in Nat
         /\ \A n \in 1..Len(log) : log[n] \in Event /\ Last(n) \in Nat \ {0}
<1>1. log \in Seq(Event)
  BY DEF TypeOK
<1> QED
  BY <1>1, StatementKinds DEF Last

\* Statement i of event n opens only parts of a split and closes only the lock
\* that the event names.
OpensOrCloses(n) ==
  \A t \in Token :
    LET r == db[Lock(t)]
        w == db'[Lock(t)]
    IN
    /\ r = NoRow /\ w # NoRow => w.active
    /\ r # NoRow => w # NoRow
    /\ r # NoRow /\ ~r.active => ~w.active \/ t \in Parts(log[n])
    /\ r # NoRow /\ r.active => w.active \/ t = log[n].token

LEMMA Executed ==
  ASSUME TypeOK, NEW n \in 1..Len(log), NEW i \in 1..Last(n), Execute(n, i)
  PROVE  /\ db' \in Positions /\ history' \subseteq 1..Len(log)
         /\ twice' \subseteq added' /\ added' \subseteq 1..Len(log)
         /\ OpensOrCloses(n)
<1> DEFINE e == log[n]
           s == Statements(e)[i]
<1>1. /\ e \in Event /\ e.token \in Token
      /\ s.op = "record" \/ LockWrite(s, e) \/ VoteWrite(s, e)
  BY EventsOfLog, StatementKinds, EventFields DEF Last, Harmless
<1>2. db \in Positions /\ history \subseteq 1..Len(log)
      /\ twice \subseteq added /\ added \subseteq 1..Len(log)
  BY DEF TypeOK
<1>3. twice' \subseteq added' /\ added' \subseteq 1..Len(log)
  <2>1. /\ added' = added \cup {n} \/ added' = added
        /\ twice' = twice \/ (twice' = twice \cup {n} /\ added' = added \cup {n})
        /\ added \subseteq added'
    BY DEF Execute
  <2> QED
    BY <1>2, <2>1
<1>4. history' \subseteq 1..Len(log)
  BY <1>2 DEF Execute
<1> HIDE DEF s
<1>5. IF s.op = "record" THEN db' = db ELSE db' = [db EXCEPT ![s.key] = Written(s)]
  BY DEF Execute, s
<1>6. CASE s.op = "record"
  BY <1>2, <1>3, <1>4, <1>5, <1>6 DEF OpensOrCloses
<1>7. CASE LockWrite(s, e)
  <2>1. PICK t \in Token :
          LET r == db[Lock(t)]
              w == Written(s)
          IN
          /\ s.key = Lock(t) /\ s.op # "record" /\ w \in LockRow \cup {NoRow}
          /\ r = NoRow /\ w # NoRow => w.active
          /\ r # NoRow => w # NoRow
          /\ r # NoRow /\ ~r.active => ~w.active \/ t \in Parts(e)
          /\ r # NoRow /\ r.active => w.active \/ t = e.token
    BY <1>2, <1>7, LockWritten
  <2>2. /\ db' \in Positions /\ db'[Lock(t)] = Written(s)
        /\ \A u \in Token : u # t => db'[Lock(u)] = db[Lock(u)]
    <3> DEFINE w == Written(s)
    <3>1. db' = [db EXCEPT ![Lock(t)] = w] /\ w \in LockRow \cup {NoRow}
      BY <1>5, <2>1
    <3> HIDE DEF w
    <3>2. \A r \in LockRow \cup {NoRow} :
            LET q == [db EXCEPT ![Lock(t)] = r] IN
            /\ q \in Positions /\ q[Lock(t)] = r
            /\ \A u \in Token : u # t => q[Lock(u)] = db[Lock(u)]
      BY <1>2, Placed
    <3>3. /\ db' \in Positions /\ db'[Lock(t)] = w
          /\ \A u \in Token : u # t => db'[Lock(u)] = db[Lock(u)]
      BY <3>1, <3>2
    <3> QED
      BY <3>3 DEF w
  <2>3. OpensOrCloses(n)
    <3> SUFFICES ASSUME NEW u \in Token
                 PROVE  LET r == db[Lock(u)]
                            w == db'[Lock(u)]
                        IN
                        /\ r = NoRow /\ w # NoRow => w.active
                        /\ r # NoRow => w # NoRow
                        /\ r # NoRow /\ ~r.active => ~w.active \/ u \in Parts(e)
                        /\ r # NoRow /\ r.active => w.active \/ u = e.token
      BY DEF OpensOrCloses
    <3>1. CASE u = t
      BY <2>1, <2>2, <3>1
    <3>2. CASE u # t
      BY <2>2, <3>2
    <3> QED
      BY <3>1, <3>2
  <2> QED
    BY <1>3, <1>4, <2>2, <2>3
<1>8. CASE VoteWrite(s, e)
  <2>1. Written(s) \in VoteRow \cup {NoRow} /\ s.op # "record" /\ s.key = Vote(e.token)
    BY <1>1, <1>2, <1>8, VoteWritten
  <2>2. db' \in Positions /\ \A u \in Token : db'[Lock(u)] = db[Lock(u)]
    BY <1>1, <1>2, <1>5, <2>1, Placed
  <2>3. OpensOrCloses(n)
    BY <2>2 DEF OpensOrCloses
  <2> QED
    BY <1>3, <1>4, <2>2, <2>3
<1> QED
  BY <1>1, <1>6, <1>7, <1>8 DEF s

-----------------------------------------------------------------------------
(* The chain.                                                              *)

LEMMA LedgerRows ==
  ASSUME TypeOK, MintedInOrder
  PROVE  /\ Cardinality(Minted) \in Nat /\ Fresh = 1 + Cardinality(Minted)
         /\ Minted = 1..Cardinality(Minted)
         /\ \A t \in Token : ledger[Lock(t)] \in LockRow \cup {NoRow}
         /\ \A t \in Token : Active(t) => t \in Minted /\ ledger[Lock(t)] \in LockRow
<1>1. Cardinality(Minted) \in Nat
  <2>1. IsFiniteSet(Token) /\ Minted \subseteq Token
    BY FS_Interval, VeLocksAssumption DEF Token, Minted
  <2> QED
    BY <2>1, FS_Subset, FS_CardinalityType
<1>2. \A t \in Token : ledger[Lock(t)] \in LockRow \cup {NoRow}
  BY Placed DEF TypeOK
<1> QED
  BY <1>1, <1>2 DEF Fresh, Minted, MintedInOrder, Active

\* An event that mints d veNFTs and names one that was there or the new one.
LEMMA Emitted ==
  ASSUME IInv, NEW e \in Event, NEW l \in Positions, NEW d \in Nat, Emit(e, l),
         {t \in Token : l[Lock(t)] # NoRow} = 1..Cardinality(Minted) + d,
         \A t \in Token : l[Vote(t)] # NoRow => t \in 1..Cardinality(Minted) + d,
         e.token \in 1..Cardinality(Minted) + d, e.token \notin Parts(e),
         Parts(e) \cap Minted = {}
  PROVE  IInv'
<1>1. TypeOK /\ AtRest /\ MintedInOrder /\ ClosedByNow
  BY DEF IInv
<1>2. /\ log' = Append(log, e) /\ ledger' = l
      /\ UNCHANGED <<tableVars, next, step, orphan, failed, orphaned, rewound, faults>>
  BY DEF Emit
<1>3. /\ log \in Seq(Event) /\ Len(log) \in Nat
      /\ log' \in Seq(Event) /\ Len(log') = Len(log) + 1 /\ log'[Len(log) + 1] = e
      /\ \A n \in 1..Len(log) : log'[n] = log[n]
  BY <1>1, <1>2 DEF TypeOK
<1>4. /\ \A n \in 1..Len(log') : n \in 1..Len(log) \/ n = Len(log) + 1
      /\ 1..Len(log) \subseteq 1..Len(log')
  BY <1>3
<1>5. TypeOK'
  <2>1. next' \in 1..(Len(log') + 1)
    BY <1>1, <1>2, <1>3 DEF TypeOK
  <2>2. ASSUME next' <= Len(log') PROVE step' \in 1..(Len(Statements(log'[next'])) + 1)
    <3>1. CASE next <= Len(log)
      <4>1. next \in 1..Len(log)
        BY <1>1, <1>3, <3>1 DEF TypeOK
      <4>2. step \in 1..(Len(Statements(log[next])) + 1)
        BY <1>1, <3>1 DEF TypeOK, Last
      <4>3. step' = step /\ next' = next /\ log'[next] = log[next]
        BY <1>2, <1>3, <4>1
      <4>4. Len(Statements(log'[next'])) = Len(Statements(log[next]))
        BY <4>3, Zenon
      <4> QED
        BY <4>2, <4>3, <4>4
    <3>2. CASE next = Len(log) + 1
      <4>1. step = 1 /\ log'[next'] = e
        BY <1>1, <1>2, <1>3, <3>2 DEF AtRest
      <4> QED
        BY <1>2, <4>1, StatementKinds
    <3> QED
      BY <1>1, <1>3, <3>1, <3>2 DEF TypeOK
  <2>3. {db', ledger'} \subseteq Positions
    BY <1>1, <1>2 DEF TypeOK, tableVars
  <2>4. /\ history' \subseteq 1..Len(log') /\ twice' \subseteq added'
        /\ added' \subseteq 1..Len(log')
    BY <1>1, <1>2, <1>4 DEF TypeOK, tableVars
  <2> QED
    <3>1. Last(next)' = Len(Statements(log'[next']))
      BY DEF Last
    <3> QED
      BY <1>3, <2>1, <2>2, <2>3, <2>4, <3>1 DEF TypeOK
<1>6. AtRest'
  <2>1. step' \in Nat \ {0} /\ (next' = Len(log') + 1 => step' = 1)
    BY <1>1, <1>2, <1>3 DEF AtRest, TypeOK
  <2>2. orphan' = NoOrphan \/ orphan' \in [n : 1..Len(log'), step : Nat \ {0}]
    BY <1>1, <1>2, <1>4 DEF AtRest
  <2> QED
    BY <2>1, <2>2 DEF AtRest
<1>7. MintedInOrder'
  <2> DEFINE c == Cardinality(Minted)
  <2>1. c \in Nat /\ Minted = 1..c
    BY <1>1, LedgerRows
  <2> HIDE DEF c
  <2>2. Minted' = 1..(c + d) /\ Cardinality(Minted') = c + d
    <3>1. Minted' = 1..(c + d)
      BY <1>2 DEF Minted, c
    <3>2. Cardinality(1..(c + d)) = c + d
      BY <2>1, FS_Interval
    <3> QED
      BY <3>1, <3>2
  <2>3. \A n \in 1..Len(log') : log'[n].token \in Minted'
    BY <1>1, <1>3, <1>4, <2>1, <2>2 DEF MintedInOrder, c
  <2>4. ASSUME NEW k \in 1..Len(log'), NEW m \in 1..Len(log'), k <= m
        PROVE  log'[k].token \notin Parts(log'[m])
    <3>1. CASE k \in 1..Len(log) /\ m \in 1..Len(log)
      BY <1>1, <1>3, <2>4, <3>1 DEF MintedInOrder
    <3>2. CASE k \in 1..Len(log) /\ m = Len(log) + 1
      BY <1>1, <1>3, <3>2 DEF MintedInOrder
    <3>3. CASE k = Len(log) + 1
      <4>1. m = Len(log) + 1
        BY <1>3, <1>4, <2>4, <3>3
      <4> QED
        BY <1>3, <3>3, <4>1
    <3> QED
      BY <1>4, <3>1, <3>2, <3>3
  <2>5. \A t \in Token : ledger'[Vote(t)] # NoRow => t \in Minted'
    BY <1>2, <2>2 DEF c
  <2> QED
    BY <2>2, <2>3, <2>4, <2>5 DEF MintedInOrder
<1>8. ClosedByNow'
  BY <1>1, <1>2, <1>3, <1>4 DEF ClosedByNow, tableVars
<1> QED
  BY <1>5, <1>6, <1>7, <1>8 DEF IInv

\* The ledger l has no lock that the ledger has not.
MintsNone(l) ==
  /\ \A u \in Token : (l[Lock(u)] # NoRow) <=> (ledger[Lock(u)] # NoRow)
  /\ \A u \in Token : l[Vote(u)] # NoRow => u \in Minted

\* An event that names a minted veNFT and changes a row of it, minting none.
LEMMA RowChanged ==
  ASSUME IInv, NEW t \in Minted, NEW e \in Event, e.token = t, e.type # "split",
         \/ \E r \in LockRow : Emit(e, [ledger EXCEPT ![Lock(t)] = r])
         \/ \E r \in VoteRow : Emit(e, [ledger EXCEPT ![Vote(t)] = r])
  PROVE  IInv'
<1> DEFINE c == Cardinality(Minted)
<1>1. /\ c \in Nat /\ Minted = 1..c /\ t \in Token /\ ledger \in Positions
      /\ \A u \in Token : ledger[Vote(u)] # NoRow => u \in Minted
  BY LedgerRows DEF IInv, TypeOK, Minted, MintedInOrder
<1>2. Parts(e) = {}
  BY DEF Parts
<1>3. PICK l \in Positions : Emit(e, l) /\ MintsNone(l)
  <2>1. ASSUME NEW r \in LockRow, Emit(e, [ledger EXCEPT ![Lock(t)] = r])
        PROVE  \E l \in Positions : Emit(e, l) /\ MintsNone(l)
    <3> DEFINE l == [ledger EXCEPT ![Lock(t)] = r]
    <3>1. /\ l \in Positions /\ l[Lock(t)] = r
          /\ \A u \in Token : u # t => l[Lock(u)] = ledger[Lock(u)]
          /\ \A u \in Token : l[Vote(u)] = ledger[Vote(u)]
      BY <1>1, Placed
    <3>2. Emit(e, l)
      BY <2>1
    <3> HIDE DEF l
    <3>3. \A u \in Token : (l[Lock(u)] # NoRow) <=> (ledger[Lock(u)] # NoRow)
      BY <1>1, <3>1, NoRowAssumption DEF Minted
    <3>4. \A u \in Token : l[Vote(u)] # NoRow => u \in Minted
      BY <1>1, <3>1
    <3> QED
      BY <3>1, <3>2, <3>3, <3>4 DEF MintsNone
  <2>2. ASSUME NEW r \in VoteRow, Emit(e, [ledger EXCEPT ![Vote(t)] = r])
        PROVE  \E l \in Positions : Emit(e, l) /\ MintsNone(l)
    <3> DEFINE l == [ledger EXCEPT ![Vote(t)] = r]
    <3>1. /\ l \in Positions
          /\ \A u \in Token : l[Lock(u)] = ledger[Lock(u)]
          /\ \A u \in Token : u # t => l[Vote(u)] = ledger[Vote(u)]
      BY <1>1, Placed
    <3>2. Emit(e, l)
      BY <2>2
    <3> HIDE DEF l
    <3>3. \A u \in Token : l[Vote(u)] # NoRow => u \in Minted
      BY <1>1, <3>1
    <3> QED
      BY <3>1, <3>2, <3>3 DEF MintsNone
  <2> QED
    BY <2>1, <2>2
<1>4. {u \in Token : l[Lock(u)] # NoRow} = 1..c
  BY <1>1, <1>3 DEF Minted, MintsNone
<1> HIDE DEF c
<1>5. c + 0 = c
  BY <1>1
<1> QED
  BY <1>1, <1>2, <1>3, <1>4, <1>5, Emitted DEF c, MintsNone

LEMMA CreateStep ==
  ASSUME IInv, Create
  PROVE  IInv'
<1> DEFINE c == Cardinality(Minted)
           e == [type |-> "create", token |-> Fresh, value |-> 2, end |-> 1]
           l == [ledger EXCEPT ![Lock(Fresh)] = NewLock(2, 1)]
<1>1. /\ c \in Nat /\ Fresh = c + 1 /\ Fresh \in Token /\ Minted = 1..c
      /\ ledger \in Positions
      /\ \A t \in Token : ledger[Vote(t)] # NoRow => t \in Minted
  BY LedgerRows DEF Create, IInv, TypeOK, MintedInOrder
<1>2. e \in Event /\ e.token = Fresh /\ Parts(e) = {}
  BY <1>1 DEF Event, Parts
<1>3. Emit(e, l)
  BY DEF Create
<1>4. NewLock(2, 1) \in LockRow
  BY DEF NewLock, LockRow
<1>5. /\ l \in Positions /\ l[Lock(Fresh)] # NoRow
      /\ \A u \in Token : u # Fresh => l[Lock(u)] = ledger[Lock(u)]
      /\ \A u \in Token : l[Vote(u)] = ledger[Vote(u)]
  BY <1>1, <1>4, Placed, NoRowAssumption
<1> HIDE DEF c, e, l
<1>6. {t \in Token : l[Lock(t)] # NoRow} = Minted \cup {Fresh}
  BY <1>1, <1>5 DEF Minted
<1>7. Minted \cup {Fresh} = 1..(c + 1) /\ Fresh \in 1..(c + 1)
  BY <1>1
<1>8. \A t \in Token : l[Vote(t)] # NoRow => t \in 1..(c + 1)
  BY <1>1, <1>5
<1> QED
  BY <1>2, <1>3, <1>5, <1>6, <1>7, <1>8, Emitted DEF c

LEMMA SplitStep ==
  ASSUME IInv, NEW t \in Token, Split(t)
  PROVE  IInv'
<1> DEFINE c == Cardinality(Minted)
           o == ledger[Lock(t)]
           e == [type |-> "split", token |-> t, parts |-> <<Fresh, Fresh + 1>>,
                 amounts |-> <<1, o.amount - 1>>, end |-> o.end]
           x == With(Closed, o)
           y == NewLock(1, o.end)
           z == NewLock(o.amount - 1, o.end)
           l1 == [ledger EXCEPT ![Lock(t)] = x]
           l2 == [l1 EXCEPT ![Lock(Fresh)] = y]
           l == [l2 EXCEPT ![Lock(Fresh + 1)] = z]
<1>1. /\ c \in Nat /\ Fresh = c + 1 /\ Minted = 1..c
      /\ t \in 1..c /\ o \in LockRow /\ o.amount > 1
      /\ ledger \in Positions /\ Fresh + 1 \in Token
      /\ \A u \in Token : ledger[Vote(u)] # NoRow => u \in Minted
  <2>1. Active(t) /\ o.amount > 1 /\ Fresh + 1 \in Token
    BY DEF Split
  <2>2. /\ c \in Nat /\ Fresh = 1 + c /\ Minted = 1..c /\ t \in Minted /\ o \in LockRow
    BY <2>1, LedgerRows DEF IInv
  <2>3. ledger \in Positions /\ \A u \in Token : ledger[Vote(u)] # NoRow => u \in Minted
    BY DEF IInv, TypeOK, MintedInOrder
  <2> HIDE DEF c, o
  <2> QED
    BY <2>1, <2>2, <2>3
<1>2. Fresh \in Token
  BY <1>1, VeLocksAssumption DEF Token
<1>3. o.amount \in Nat /\ o.amount - 1 \in Nat /\ o.end \in Nat
  BY <1>1 DEF LockRow
<1>4. e \in Event /\ e.token = t /\ Parts(e) = {Fresh, Fresh + 1}
  <2>1. /\ <<Fresh, Fresh + 1>> \in Token \X Token
        /\ <<1, o.amount - 1>> \in Nat \X Nat
    BY <1>1, <1>2, <1>3
  <2> QED
    BY <1>3, <2>1 DEF Event, Parts
<1>5. x \in LockRow /\ y \in LockRow /\ z \in LockRow
  BY <1>1, <1>3, Changes DEF NewLock, LockRow, Sets
<1>6. Emit(e, l)
  BY DEF Split
<1> HIDE DEF o, x, y, z
<1>7. /\ l1 \in Positions /\ l1[Lock(t)] = x
      /\ \A u \in Token : u # t => l1[Lock(u)] = ledger[Lock(u)]
      /\ \A u \in Token : l1[Vote(u)] = ledger[Vote(u)]
  BY <1>1, <1>5, Placed
<1> HIDE DEF l1
<1>8. /\ l2 \in Positions /\ l2[Lock(Fresh)] = y
      /\ \A u \in Token : u # Fresh => l2[Lock(u)] = l1[Lock(u)]
      /\ \A u \in Token : l2[Vote(u)] = l1[Vote(u)]
  BY <1>2, <1>5, <1>7, Placed
<1> HIDE DEF l2
<1>9. /\ l \in Positions /\ l[Lock(Fresh + 1)] = z
      /\ \A u \in Token : u # Fresh + 1 => l[Lock(u)] = l2[Lock(u)]
      /\ \A u \in Token : l[Vote(u)] = l2[Vote(u)]
  BY <1>1, <1>5, <1>8, Placed
<1> HIDE DEF l, c, e
<1>10. {u \in Token : l[Lock(u)] # NoRow} = Minted \cup {Fresh, Fresh + 1}
  <2>1. t \in Minted /\ NoRow \notin LockRow
    BY <1>1, NoRowAssumption
  <2>2. ASSUME NEW u \in Token
        PROVE  (l[Lock(u)] # NoRow) <=> (u \in Minted \cup {Fresh, Fresh + 1})
    <3>1. CASE u = Fresh + 1
      BY <1>5, <1>9, <2>1, <3>1
    <3>2. CASE u # Fresh + 1 /\ u = Fresh
      BY <1>5, <1>8, <1>9, <2>1, <3>2
    <3>3. CASE u # Fresh + 1 /\ u # Fresh /\ u = t
      BY <1>5, <1>7, <1>8, <1>9, <2>1, <3>3
    <3>4. CASE u # Fresh + 1 /\ u # Fresh /\ u # t
      BY <1>7, <1>8, <1>9, <3>4 DEF Minted
    <3> QED
      BY <3>1, <3>2, <3>3, <3>4
  <2> QED
    BY <1>1, <1>2, <2>2 DEF Minted
<1>11. /\ Minted \cup {Fresh, Fresh + 1} = 1..(c + 2)
       /\ t \in 1..(c + 2) /\ t \notin {Fresh, Fresh + 1}
       /\ {Fresh, Fresh + 1} \cap Minted = {}
  BY <1>1
<1>12. \A u \in Token : l[Vote(u)] # NoRow => u \in 1..(c + 2)
  BY <1>1, <1>7, <1>8, <1>9
<1> QED
  BY <1>4, <1>6, <1>9, <1>10, <1>11, <1>12, Emitted DEF c

\* A merge changes the rows of two minted veNFTs.
LEMMA MergeStep ==
  ASSUME IInv, NEW from \in Token, NEW to \in Token, Merge(from, to)
  PROVE  IInv'
<1> DEFINE c == Cardinality(Minted)
           a == ledger[Lock(from)].amount + ledger[Lock(to)].amount
           n == IF Permanent(to) THEN 0
                ELSE Larger(ledger[Lock(from)].end, ledger[Lock(to)].end)
           e == [type |-> "merge", token |-> from, to |-> to, amount |-> a, end |-> n]
           x == With(Closed, ledger[Lock(from)])
           y == With([amount |-> a, end |-> n], ledger[Lock(to)])
           l1 == [ledger EXCEPT ![Lock(from)] = x]
           l == [l1 EXCEPT ![Lock(to)] = y]
<1>1. /\ c \in Nat /\ Minted = 1..c /\ from # to /\ from \in Minted /\ to \in Minted
      /\ ledger[Lock(from)] \in LockRow /\ ledger[Lock(to)] \in LockRow
      /\ ledger \in Positions
      /\ \A u \in Token : ledger[Vote(u)] # NoRow => u \in Minted
  <2>1. from # to /\ Active(from) /\ Active(to)
    BY DEF Merge
  <2>2. ledger \in Positions /\ \A u \in Token : ledger[Vote(u)] # NoRow => u \in Minted
    BY DEF IInv, TypeOK, MintedInOrder
  <2> QED
    BY <2>1, <2>2, LedgerRows DEF IInv
<1>2. a \in Nat /\ n \in Nat
  BY <1>1 DEF LockRow, Larger
<1>3. e \in Event /\ e.token = from /\ Parts(e) = {}
  BY <1>2 DEF Event, Parts
<1>4. x \in LockRow /\ y \in LockRow
  BY <1>1, <1>2, Changes DEF Sets, Keeps
<1> HIDE DEF x, y
<1>5. /\ l1 \in Positions /\ l1[Lock(from)] = x
      /\ \A u \in Token : u # from => l1[Lock(u)] = ledger[Lock(u)]
      /\ \A u \in Token : l1[Vote(u)] = ledger[Vote(u)]
  BY <1>1, <1>4, Placed
<1>6. Emit(e, l)
  <2>1. l1[Lock(to)] = ledger[Lock(to)]
    BY <1>1, <1>5
  <2>2. Emit(e, [ledger EXCEPT ![Lock(from)] = With(Closed, @),
                               ![Lock(to)] = With([amount |-> a, end |-> n], @)])
    BY DEF Merge
  <2> QED
    BY <2>1, <2>2 DEF x, y
<1> HIDE DEF l1
<1>7. /\ l \in Positions /\ l[Lock(to)] = y
      /\ \A u \in Token : u # to => l[Lock(u)] = l1[Lock(u)]
      /\ \A u \in Token : l[Vote(u)] = l1[Vote(u)]
  BY <1>4, <1>5, Placed
<1> HIDE DEF l, c, e
<1>8. {u \in Token : l[Lock(u)] # NoRow} = 1..(c + 0)
  <2>1. c + 0 = c /\ NoRow \notin LockRow
    BY <1>1, NoRowAssumption
  <2>2. ASSUME NEW u \in Token PROVE (l[Lock(u)] # NoRow) <=> (u \in Minted)
    <3>1. CASE u = to
      BY <1>1, <1>4, <1>7, <2>1, <3>1
    <3>2. CASE u # to /\ u = from
      BY <1>1, <1>4, <1>5, <1>7, <2>1, <3>2
    <3>3. CASE u # to /\ u # from
      BY <1>5, <1>7, <3>3 DEF Minted
    <3> QED
      BY <3>1, <3>2, <3>3
  <2> QED
    BY <1>1, <2>1, <2>2 DEF Minted
<1>9. /\ from \in 1..(c + 0)
      /\ \A u \in Token : l[Vote(u)] # NoRow => u \in 1..(c + 0)
  BY <1>1, <1>5, <1>7
<1> QED
  BY <1>3, <1>6, <1>7, <1>8, <1>9, Emitted DEF c

LEMMA ChainStep ==
  ASSUME IInv, Chain
  PROVE  IInv'
<1>1. CASE Create
  BY <1>1, CreateStep
<1>2. ASSUME NEW t \in Token, Increase(t)
      PROVE  IInv'
  <2> DEFINE r == [ledger[Lock(t)] EXCEPT !.amount = @ + 1]
  <2>1. t \in Minted /\ r \in LockRow
    BY <1>2, LedgerRows DEF Increase, IInv, LockRow
  <2>2. Emit([type |-> "increase", token |-> t, value |-> 1],
             [ledger EXCEPT ![Lock(t)] = r])
    BY <1>2 DEF Increase
  <2>3. [type |-> "increase", token |-> t, value |-> 1] \in Event
    BY DEF Event
  <2> HIDE DEF r
  <2> QED
    BY <2>1, <2>2, <2>3, RowChanged
<1>3. ASSUME NEW t \in Token, Extend(t)
      PROVE  IInv'
  <2> DEFINE r == [ledger[Lock(t)] EXCEPT !.end = 2]
  <2>1. t \in Minted /\ r \in LockRow
    BY <1>3, LedgerRows DEF Extend, IInv, LockRow
  <2>2. Emit([type |-> "extend", token |-> t, end |-> 2], [ledger EXCEPT ![Lock(t)] = r])
    BY <1>3 DEF Extend
  <2>3. [type |-> "extend", token |-> t, end |-> 2] \in Event
    BY DEF Event
  <2> HIDE DEF r
  <2> QED
    BY <2>1, <2>2, <2>3, RowChanged
<1>4. ASSUME NEW t \in Token, Withdraw(t)
      PROVE  IInv'
  <2> DEFINE r == With(Closed, ledger[Lock(t)])
  <2>1. t \in Minted /\ r \in LockRow
    BY <1>4, LedgerRows, Changes DEF Withdraw, IInv, Sets
  <2>2. Emit([type |-> "withdraw", token |-> t], [ledger EXCEPT ![Lock(t)] = r])
    BY <1>4 DEF Withdraw
  <2>3. [type |-> "withdraw", token |-> t] \in Event
    BY DEF Event
  <2> HIDE DEF r
  <2> QED
    BY <2>1, <2>2, <2>3, RowChanged
<1>5. ASSUME NEW t \in Token, LockPermanent(t)
      PROVE  IInv'
  <2> DEFINE r == With([permanent |-> TRUE, end |-> 0], ledger[Lock(t)])
  <2>1. t \in Minted /\ r \in LockRow
    BY <1>5, LedgerRows, Changes DEF LockPermanent, IInv, Keeps
  <2>2. Emit([type |-> "lockPermanent", token |-> t], [ledger EXCEPT ![Lock(t)] = r])
    BY <1>5 DEF LockPermanent
  <2>3. [type |-> "lockPermanent", token |-> t] \in Event
    BY DEF Event
  <2> HIDE DEF r
  <2> QED
    BY <2>1, <2>2, <2>3, RowChanged
<1>6. ASSUME NEW t \in Token, UnlockPermanent(t)
      PROVE  IInv'
  <2> DEFINE r == [ledger[Lock(t)] EXCEPT !.permanent = FALSE]
  <2>1. t \in Minted /\ r \in LockRow
    BY <1>6, LedgerRows DEF UnlockPermanent, IInv, LockRow
  <2>2. Emit([type |-> "unlockPermanent", token |-> t], [ledger EXCEPT ![Lock(t)] = r])
    BY <1>6 DEF UnlockPermanent
  <2>3. [type |-> "unlockPermanent", token |-> t] \in Event
    BY DEF Event
  <2> HIDE DEF r
  <2> QED
    BY <2>1, <2>2, <2>3, RowChanged
<1>7. ASSUME NEW t \in Token, CastVote(t)
      PROVE  IInv'
  <2> DEFINE w == ledger[Lock(t)].amount
             r == [weight |-> w, active |-> TRUE]
             e == [type |-> "voted", token |-> t, weight |-> w]
  <2>1. t \in Minted /\ w \in Nat
    BY <1>7, LedgerRows DEF CastVote, IInv, LockRow
  <2>2. Emit(e, [ledger EXCEPT ![Vote(t)] = r])
    BY <1>7 DEF CastVote
  <2>3. e \in Event /\ e.token = t /\ e.type # "split" /\ r \in VoteRow
    BY <2>1 DEF Event, VoteRow
  <2> HIDE DEF r, e
  <2> QED
    BY <2>1, <2>2, <2>3, RowChanged
<1>8. ASSUME NEW t \in Token, Abstain(t)
      PROVE  IInv'
  <2> DEFINE r == [weight |-> 0, active |-> FALSE]
  <2>1. t \in Minted /\ r \in VoteRow
    BY <1>8 DEF Abstain, Voted, IInv, MintedInOrder, VoteRow
  <2>2. Emit([type |-> "abstained", token |-> t], [ledger EXCEPT ![Vote(t)] = r])
    BY <1>8 DEF Abstain
  <2>3. [type |-> "abstained", token |-> t] \in Event
    BY DEF Event
  <2> HIDE DEF r
  <2> QED
    BY <2>1, <2>2, <2>3, RowChanged
<1> QED
  BY <1>1, <1>2, <1>3, <1>4, <1>5, <1>6, <1>7, <1>8, MergeStep, SplitStep DEF Chain

-----------------------------------------------------------------------------
(* The consumer.                                                           *)

LEMMA ChainKept ==
  ASSUME MintedInOrder, UNCHANGED chainVars
  PROVE  MintedInOrder'
BY DEF MintedInOrder, Minted, chainVars

LEMMA HandleStep ==
  ASSUME IInv, Handle
  PROVE  /\ IInv'
         /\ orphaned = {} /\ ~rewound =>
              \A t \in Token : db[Lock(t)] # NoRow /\ ~db[Lock(t)].active =>
                ~db'[Lock(t)].active
<1>1. TypeOK /\ AtRest /\ MintedInOrder /\ ClosedByNow
  BY DEF IInv
<1>2. /\ next \in 1..Len(log) /\ step \in 1..Last(next) /\ Last(next) \in Nat
      /\ Execute(next, step) /\ step' = step + 1
      /\ UNCHANGED <<log, ledger, next, orphan, failed, orphaned, rewound, faults>>
  BY <1>1, EventsOfLog DEF Handle, Awaits, TypeOK, AtRest, chainVars
<1>3. /\ db' \in Positions /\ history' \subseteq 1..Len(log)
      /\ twice' \subseteq added' /\ added' \subseteq 1..Len(log)
      /\ OpensOrCloses(next)
  BY <1>1, <1>2, Executed
<1>4. TypeOK'
  <2>1. Last(next)' = Last(next) /\ step' \in 1..(Last(next) + 1)
    BY <1>2 DEF Last
  <2>2. {db', ledger'} \subseteq Positions
    BY <1>1, <1>2, <1>3 DEF TypeOK
  <2> QED
    BY <1>1, <1>2, <1>3, <2>1, <2>2 DEF TypeOK
<1>5. AtRest'
  BY <1>1, <1>2, EventsOfLog DEF AtRest
<1>6. MintedInOrder'
  BY <1>1, <1>2, ChainKept DEF chainVars
<1>7. ASSUME orphaned = {}, ~rewound, NEW t \in Token, db[Lock(t)] # NoRow,
             ~db[Lock(t)].active
      PROVE  db'[Lock(t)] # NoRow /\ ~db'[Lock(t)].active
  <2>1. PICK k \in 1..Len(log) : k <= next /\ log[k].token = t
    BY <1>1, <1>7 DEF ClosedByNow
  <2>2. t \notin Parts(log[next])
    BY <1>1, <1>2, <2>1 DEF MintedInOrder
  <2> QED
    BY <1>3, <1>7, <2>2 DEF OpensOrCloses
<1>8. ClosedByNow'
  <2>1. ASSUME orphaned = {}, ~rewound, NEW t \in Token, db'[Lock(t)] # NoRow,
               ~db'[Lock(t)].active
        PROVE  \E k \in 1..Len(log) : k <= next /\ log[k].token = t
    <3>1. CASE t = log[next].token
      BY <1>2, <3>1
    <3>2. CASE t # log[next].token
      <4>1. db[Lock(t)] # NoRow /\ ~db[Lock(t)].active
        BY <1>3, <2>1, <3>2 DEF OpensOrCloses
      <4> QED
        BY <1>1, <2>1, <4>1 DEF ClosedByNow
    <3> QED
      BY <3>1, <3>2
  <2>2. orphaned = {} /\ ~rewound => orphan = NoOrphan
    BY <1>1 DEF ClosedByNow
  <2> QED
    BY <1>2, <2>1, <2>2 DEF ClosedByNow
<1> QED
  BY <1>4, <1>5, <1>6, <1>7, <1>8 DEF IInv

\* A step that leaves the rows alone and hands out a message from its start.
LEMMA HandedOut ==
  ASSUME IInv, UNCHANGED <<chainVars, tableVars>>, step' = 1,
         next' \in 1..(Len(log) + 1),
         orphan' = NoOrphan \/ orphan' \in [n : 1..Len(log), step : Nat \ {0}],
         \/ orphaned' # {} \/ rewound'
         \/ /\ orphaned' = orphaned /\ rewound' = rewound /\ next <= next'
            /\ orphan' \in {orphan, NoOrphan}
  PROVE  IInv'
<1>1. TypeOK /\ AtRest /\ MintedInOrder /\ ClosedByNow /\ Len(log) \in Nat
  BY EventsOfLog DEF IInv
<1>2. UNCHANGED <<log, ledger, db, history, added, twice>>
  BY DEF chainVars, tableVars
<1>3. TypeOK'
  <2>1. next' <= Len(log) => Last(next)' \in Nat
    <3>1. ASSUME next' <= Len(log) PROVE Last(next)' \in Nat
      <4>1. next' \in 1..Len(log)
        BY <1>1, <3>1
      <4>2. Len(Statements(log[next'])) \in Nat
        BY <1>1, <4>1, EventsOfLog DEF Last
      <4> QED
        BY <1>2, <4>2 DEF Last
    <3> QED
      BY <3>1
  <2> QED
    BY <1>1, <1>2, <2>1 DEF TypeOK
<1>4. AtRest'
  BY <1>2 DEF AtRest
<1>5. MintedInOrder'
  BY <1>1, ChainKept
<1>6. ClosedByNow'
  <2>1. CASE orphaned' # {} \/ rewound'
    BY <2>1 DEF ClosedByNow
  <2>2. CASE /\ orphaned' = orphaned /\ rewound' = rewound /\ next <= next'
             /\ orphan' \in {orphan, NoOrphan}
    <3>1. \A k \in 1..Len(log) : k <= next => k <= next'
      BY <1>1, <2>2 DEF TypeOK
    <3> QED
      BY <1>1, <1>2, <2>2, <3>1 DEF ClosedByNow
  <2> QED
    BY <2>1, <2>2
<1> QED
  BY <1>3, <1>4, <1>5, <1>6 DEF IInv

LEMMA AckStep ==
  ASSUME IInv, Ack
  PROVE  IInv'
<1>1. Len(log) \in Nat /\ next \in 1..(Len(log) + 1) /\ next <= Len(log)
  BY EventsOfLog DEF IInv, TypeOK, Ack
<1>2. next' \in 1..(Len(log) + 1) /\ next <= next'
  BY <1>1 DEF Ack
<1>3. orphan' = NoOrphan \/ orphan' \in [n : 1..Len(log), step : Nat \ {0}]
  BY DEF Ack, IInv, AtRest
<1> QED
  BY <1>2, <1>3, HandedOut DEF Ack

LEMMA RedeliverStep ==
  ASSUME IInv, Redeliver
  PROVE  IInv'
<1>1. next' \in 1..(Len(log) + 1) /\ next <= next'
  BY EventsOfLog DEF IInv, TypeOK, Redeliver
<1>2. orphan' = NoOrphan \/ orphan' \in [n : 1..Len(log), step : Nat \ {0}]
  BY DEF Redeliver, IInv, AtRest
<1> QED
  BY <1>1, <1>2, HandedOut DEF Redeliver

LEMMA RewindStep ==
  ASSUME IInv, Rewind
  PROVE  IInv'
<1>1. Len(log) \in Nat /\ next \in 1..(Len(log) + 1)
  BY EventsOfLog DEF IInv, TypeOK
<1>2. next' \in 1..(Len(log) + 1)
  BY <1>1 DEF Rewind
<1>3. orphan' = NoOrphan \/ orphan' \in [n : 1..Len(log), step : Nat \ {0}]
  BY DEF Rewind, IInv, AtRest
<1> QED
  BY <1>2, <1>3, HandedOut DEF Rewind

LEMMA FailStep ==
  ASSUME IInv, Fail
  PROVE  IInv'
<1>1. Len(log) \in Nat /\ next \in 1..(Len(log) + 1) /\ next <= Len(log)
  BY EventsOfLog DEF IInv, TypeOK, Fail, Awaits
<1>2. next' \in 1..(Len(log) + 1) /\ next <= next'
  BY <1>1 DEF Fail
<1>3. orphan' = NoOrphan \/ orphan' \in [n : 1..Len(log), step : Nat \ {0}]
  BY DEF Fail, IInv, AtRest
<1> QED
  BY <1>2, <1>3, HandedOut DEF Fail

LEMMA ReconnectStep ==
  ASSUME IInv, Reconnect
  PROVE  IInv'
<1>1. Len(log) \in Nat /\ next \in 1..(Len(log) + 1) /\ next <= Len(log)
  BY EventsOfLog DEF IInv, TypeOK, Reconnect
<1>2. next \in 1..Len(log) /\ step \in Nat \ {0}
  BY <1>1 DEF IInv, AtRest
<1>3. orphan' \in [n : 1..Len(log), step : Nat \ {0}] /\ orphaned' # {}
  BY <1>2 DEF Reconnect
<1>4. next' \in 1..(Len(log) + 1)
  BY <1>1 DEF Reconnect
<1> QED
  BY <1>3, <1>4, HandedOut DEF Reconnect

\* An orphaned call may write what it likes: from then on ClosedByNow says nothing.
LEMMA OrphanStepStep ==
  ASSUME IInv, OrphanStep
  PROVE  IInv' /\ (orphaned # {} \/ rewound)
<1>1. TypeOK /\ AtRest /\ MintedInOrder /\ ClosedByNow
  BY DEF IInv
<1>2. orphaned # {} \/ rewound
  BY <1>1 DEF ClosedByNow, OrphanStep
<1>3. /\ orphan \in [n : 1..Len(log), step : Nat \ {0}]
      /\ UNCHANGED <<log, ledger, next, orphaned, rewound>>
  BY <1>1 DEF OrphanStep, AtRest, chainVars
<1>4. MintedInOrder' /\ ClosedByNow'
  BY <1>1, <1>2, <1>3, ChainKept DEF ClosedByNow, chainVars
<1>5. CASE Awaits(orphan.n, orphan.step)
  <2>1. /\ Execute(orphan.n, orphan.step) /\ step' = step
        /\ orphan' = [orphan EXCEPT !.step = @ + 1]
    BY <1>5 DEF OrphanStep
  <2>2. orphan.n \in 1..Len(log) /\ orphan.step \in 1..Last(orphan.n)
    BY <1>1, <1>3, <1>5, EventsOfLog DEF Awaits
  <2>3. /\ db' \in Positions /\ history' \subseteq 1..Len(log)
        /\ twice' \subseteq added' /\ added' \subseteq 1..Len(log)
    BY <1>1, <2>1, <2>2, Executed
  <2>4. orphan' \in [n : 1..Len(log), step : Nat \ {0}]
    BY <1>3, <2>1
  <2>5. TypeOK'
    <3>1. Last(next)' = Last(next)
      BY <1>3 DEF Last
    <3>2. {db', ledger'} \subseteq Positions
      BY <1>1, <1>3, <2>3 DEF TypeOK
    <3> QED
      BY <1>1, <1>3, <2>1, <2>3, <3>1, <3>2 DEF TypeOK
  <2>6. AtRest'
    BY <1>1, <1>3, <2>1, <2>4 DEF AtRest
  <2> QED
    BY <1>2, <1>4, <2>5, <2>6 DEF IInv
<1>6. CASE ~Awaits(orphan.n, orphan.step)
  <2>1. orphan' = NoOrphan /\ step' = 1 /\ UNCHANGED tableVars
    BY <1>6 DEF OrphanStep
  <2>2. next' \in 1..(Len(log) + 1)
    BY <1>1, <1>3 DEF TypeOK
  <2> QED
    BY <1>2, <1>3, <2>1, <2>2, HandedOut DEF chainVars
<1> QED
  BY <1>5, <1>6

-----------------------------------------------------------------------------
(* The theorems.                                                           *)

LEMMA InitInv == Init => IInv
<1> SUFFICES ASSUME Init PROVE IInv
  OBVIOUS
<1>1. log = << >> /\ Len(log) = 0 /\ log \in Seq(Event)
  BY DEF Init
<1>2. /\ [k \in Key |-> NoRow] \in Positions
      /\ \A t \in Token : ledger[Lock(t)] = NoRow /\ ledger[Vote(t)] = NoRow
      /\ \A t \in Token : db[Lock(t)] = NoRow
  BY DEF Init, Positions, Key, Lock, Vote
<1>3. TypeOK
  BY <1>1, <1>2 DEF Init, TypeOK
<1>4. AtRest
  BY DEF Init, AtRest
<1>5. MintedInOrder
  <2>1. Minted = {}
    BY <1>2 DEF Minted
  <2>2. Cardinality(Minted) = 0
    BY <2>1, FS_EmptySet
  <2> QED
    BY <1>1, <1>2, <2>1, <2>2 DEF MintedInOrder
<1>6. ClosedByNow
  BY <1>2 DEF Init, ClosedByNow
<1> QED
  BY <1>3, <1>4, <1>5, <1>6 DEF IInv

LEMMA Stutter ==
  ASSUME IInv, UNCHANGED vars
  PROVE  IInv'
<1>1. UNCHANGED <<log, ledger, db, history, added, twice, next, step, orphan, orphaned, rewound>>
  BY DEF vars, chainVars, tableVars
<1>2. TypeOK' /\ AtRest'
  BY <1>1 DEF IInv, TypeOK, AtRest, Last
<1>3. MintedInOrder'
  BY <1>1, ChainKept DEF IInv, chainVars
<1>4. ClosedByNow'
  BY <1>1 DEF IInv, ClosedByNow
<1> QED
  BY <1>2, <1>3, <1>4 DEF IInv

LEMMA StepInv == IInv /\ [Next]_vars => IInv'
<1> SUFFICES ASSUME IInv, [Next]_vars PROVE IInv'
  OBVIOUS
<1>1. CASE Next
  BY <1>1, ChainStep, HandleStep, AckStep, RedeliverStep, RewindStep, FailStep,
     ReconnectStep, OrphanStepStep DEF Next
<1>2. CASE UNCHANGED vars
  BY <1>2, Stutter
<1> QED
  BY <1>1, <1>2

\* In every reachable state the log is of events, both tables of positions, and
\* the message in hand and the statement that runs next are of the log.
THEOREM TypeCorrect == Spec => []TypeOK
<1>1. IInv => TypeOK
  BY DEF IInv
<1> QED
  BY InitInv, StepInv, <1>1, PTL DEF Spec

\* A position that was withdrawn, merged away or split stays closed through any
\* number of crashes, redeliveries and failing statements, as long as nothing is
\* published twice and no call is orphaned.
THEOREM ClosedIsKept == Spec => ClosedStaysClosed
<1> DEFINE A == orphaned = {} /\ ~rewound =>
                  \A t \in Token : db[Lock(t)] # NoRow /\ ~db[Lock(t)].active =>
                    ~db'[Lock(t)].active
<1>1. ASSUME IInv, [Next]_vars PROVE [A]_vars
  <2>1. CASE Handle
    BY <1>1, <2>1, HandleStep
  <2>2. CASE OrphanStep
    BY <1>1, <2>2, OrphanStepStep
  <2>3. CASE Chain \/ Ack \/ Redeliver \/ Rewind \/ Fail \/ Reconnect \/ UNCHANGED vars
    <3>1. db' = db
      <4>1. ASSUME Chain PROVE UNCHANGED tableVars
        BY <4>1 DEF Chain, Create, Increase, Extend, Withdraw, LockPermanent,
                    UnlockPermanent, Merge, Split, CastVote, Abstain, Emit
      <4> QED
        BY <2>3, <4>1 DEF Ack, Redeliver, Rewind, Fail, Reconnect, vars, tableVars
    <3> QED
      BY <3>1
  <2> QED
    BY <1>1, <2>1, <2>2, <2>3 DEF Next
<1>2. IInv /\ [Next]_vars => [A]_vars
  BY <1>1
<1> QED
  BY InitInv, StepInv, <1>2, PTL DEF Spec, ClosedStaysClosed
-----------------------------------------------------------------------------
(* What the events of the log say of each row, and which of them are done: *)
(* the ledger holds what was said last, a row of the table something that  *)
(* was said, and what was said last as soon as that is done.               *)

\* The columns of a row; an amount may be added to, the others are set only.
Columns(k) == IF k[1] = "lock" THEN {"amount", "end", "permanent", "active"}
              ELSE {"weight", "active"}
Set(k) == Columns(k) \ {"amount"}

\* Events of the log as the contracts emit them.
WellFormed(e) ==
  /\ e \in Event
  /\ e.type = "increase" => e.value = 1
  /\ e.type = "merge" => e.to # e.token
  /\ e.type = "split" => e.parts[1] # e.parts[2] /\ e.token \notin Parts(e)

\* Event e writes the row of k, with one statement.
HitsAt(e, i, k) == Statements(e)[i].op # "record" /\ Statements(e)[i].key = k
Hits(e, k) == \E i \in 1..Len(Statements(e)) : HitsAt(e, i, k)
On(e, k) == CHOOSE i \in 1..Len(Statements(e)) : HitsAt(e, i, k)
For(e, k) == Statements(e)[On(e, k)]

Opens(s) == s.op \in {"insert", "upsert"}
Assigns(s, f) == s.op \in {"update", "upsert"} /\ f \in DOMAIN s.change
Gives(s, f) == Opens(s) \/ Assigns(s, f)
Given(s, f) == IF Opens(s) THEN s.row[f] ELSE s.change[f]

\* The row after s if it was r.
Effect(s, r) ==
  CASE s.op = "insert" -> IF r = NoRow THEN s.row ELSE r
    [] s.op = "upsert" -> IF r = NoRow THEN s.row ELSE With(s.change, r)
    [] s.op = "update" -> IF r = NoRow THEN r ELSE With(s.change, r)
    [] s.op = "add" -> IF r = NoRow THEN r ELSE [r EXCEPT !.amount = @ + s.value]

\* Event n sets column f of the row of k; no later event does; and no event
\* before n writes the row.
Says(n, k, f) == Hits(log[n], k) /\ Gives(For(log[n], k), f)
LastOf(n, k, f) == Says(n, k, f) /\ \A m \in (n + 1)..Len(log) : ~Says(m, k, f)
First(n, k) == \A m \in 1..(n - 1) : ~Hits(log[m], k)
Value(n, k, f) == Given(For(log[n], k), f)

\* The statement of event n for k has run since the last restart behind n.
Done(n, k) == n < next \/ (n = next /\ On(log[n], k) < step)

\* The deposits into t after n, and those of them that are done.
Adds(n, t) == {m \in (n + 1)..Len(log) : log[m].type = "increase" /\ log[m].token = t}
Added(n, t) == {m \in Adds(n, t) : Done(m, Lock(t))}

\* No statement has failed, and no orphaned call writes the row of k.
Clean(k) == failed = {} /\ Sound(k)

LogShape == \A n \in 1..Len(log) : WellFormed(log[n])

\* A row is opened before anything else is said of it.
Origin ==
  \A k \in Key :
    /\ ledger[k] = NoRow => \A n \in 1..Len(log) : ~Hits(log[n], k)
    /\ \A n \in 1..Len(log) : Hits(log[n], k) =>
         IF First(n, k) THEN Opens(For(log[n], k))
         ELSE \A f \in Columns(k) : Gives(For(log[n], k), f) => Assigns(For(log[n], k), f)

\* The ledger holds what was said last.
InLedger ==
  \A k \in Key : ledger[k] # NoRow => \A f \in Set(k) :
    \E n \in 1..Len(log) : LastOf(n, k, f) /\ Value(n, k, f) = ledger[k][f]

\* Of an amount: what was given last, and what was deposited since.
AmountInLedger ==
  \A t \in Token : ledger[Lock(t)] # NoRow =>
    \E n \in 1..Len(log) :
      /\ LastOf(n, Lock(t), "amount")
      /\ ledger[Lock(t)].amount = Value(n, Lock(t), "amount") + Cardinality(Adds(n, t))

\* A row holds what some event says; it is there once one that writes it is
\* done; and it holds what was said last once that is done.
Valued(k) ==
  Clean(k) /\ db[k] # NoRow => \A f \in Set(k) :
    \E n \in 1..Len(log) : Says(n, k, f) /\ Value(n, k, f) = db[k][f]

Present(k) ==
  Clean(k) => \A n \in 1..Len(log) : Hits(log[n], k) /\ Done(n, k) => db[k] # NoRow

Current(k) ==
  Clean(k) => \A f \in Set(k), n \in 1..Len(log) :
    LastOf(n, k, f) /\ Done(n, k) => db[k][f] = Value(n, k, f)

\* The amount since event n gave it last: never too low, and too high only by
\* what was added twice.
AtLeast(t) ==
  Clean(Lock(t)) /\ db[Lock(t)] # NoRow => \A n \in 1..Len(log) :
    LastOf(n, Lock(t), "amount") =>
      /\ Done(n, Lock(t)) =>
           db[Lock(t)].amount >= Value(n, Lock(t), "amount") + Cardinality(Added(n, t))
      /\ First(n, Lock(t)) => db[Lock(t)].amount >= Value(n, Lock(t), "amount")

AtMost(t) ==
  Clean(Lock(t)) /\ db[Lock(t)] # NoRow /\ (\A m \in twice : log[m].token # t) =>
    \A n \in 1..Len(log) :
      LastOf(n, Lock(t), "amount") /\ (Done(n, Lock(t)) \/ First(n, Lock(t))) =>
        db[Lock(t)].amount <=
          Value(n, Lock(t), "amount") + Cardinality(Adds(n, t) \cap added)

Rows == \A k \in Key : Valued(k) /\ Present(k) /\ Current(k)
Amounts == \A t \in Token : AtLeast(t) /\ AtMost(t)

\* What has been handled is in the history.
Recorded ==
  failed = {} =>
    /\ 1..(next - 1) \subseteq history
    /\ next <= Len(log) => \A i \in 1..(step - 1) :
         Statements(log[next])[i].op = "record" => next \in history

OrphansKnown ==
  orphaned \subseteq 1..Len(log) /\ (orphan # NoOrphan => orphan.n \in orphaned)

CInv ==
  /\ LogShape /\ Origin /\ InLedger /\ AmountInLedger
  /\ Rows /\ Amounts /\ Recorded /\ OrphansKnown

-----------------------------------------------------------------------------
(* The statements of an event, by key.                                     *)

RowOf(k) == IF k[1] = "lock" THEN LockRow ELSE VoteRow

Proper(s) ==
  /\ s.op \in {"insert", "upsert", "update", "add"} /\ s.key \in Key
  /\ Opens(s) => s.row \in RowOf(s.key)
  /\ s.op \in {"update", "upsert"} => \A r \in RowOf(s.key) : With(s.change, r) \in RowOf(s.key)
  /\ s.op = "upsert" => \A f \in DOMAIN s.change : s.change[f] = s.row[f]
  /\ s.op = "add" => s.key[1] = "lock" /\ s.value = 1

\* Only a deposit into a lock adds.
AddsOf(e, s) == s.op = "add" <=> e.type = "increase" /\ s.key = Lock(e.token)

Shape(e) ==
  /\ DOMAIN Statements(e) = 1..Len(Statements(e))
  /\ \A i \in 1..Len(Statements(e)) :
       LET s == Statements(e)[i] IN s.op # "record" => Proper(s) /\ AddsOf(e, s)
  /\ \A i, j \in 1..Len(Statements(e)) :
       Statements(e)[i].op # "record" /\ HitsAt(e, j, Statements(e)[i].key) => i = j
  /\ \E i \in 1..Len(Statements(e)) : Statements(e)[i].op = "record"
  /\ e.type = "increase" => Hits(e, Lock(e.token))

LEMMA Keys ==
  /\ \A t \in Token : /\ Lock(t) \in Key /\ Vote(t) \in Key
                      /\ Lock(t)[1] = "lock" /\ Vote(t)[1] = "vote"
                      /\ RowOf(Lock(t)) = LockRow /\ RowOf(Vote(t)) = VoteRow
  /\ \A t, u : Lock(t) # Vote(u) /\ (Lock(t) = Lock(u) => t = u) /\ (Vote(t) = Vote(u) => t = u)
  /\ \A k \in Key : \E t \in Token : k = Lock(t) \/ k = Vote(t)
  BY DEF Lock, Vote, Key, RowOf

LEMMA ProperInsert ==
  ASSUME NEW t \in Token, NEW a \in Nat, NEW n \in Nat
  PROVE  /\ Proper(Insert(Lock(t), NewLock(a, n))) /\ Insert(Lock(t), NewLock(a, n)).op = "insert"
         /\ Insert(Lock(t), NewLock(a, n)).key = Lock(t)
<1>1. PICK r : r = NewLock(a, n)
  OBVIOUS
<1>2. r \in LockRow
  BY <1>1 DEF NewLock, LockRow
<1>3. Insert(Lock(t), r) = [op |-> "insert", key |-> Lock(t), row |-> r]
  BY DEF Insert
<1> QED
  BY <1>1, <1>2, <1>3, Keys DEF Proper, Opens

LEMMA ProperAdd ==
  ASSUME NEW t \in Token
  PROVE  Proper(Add(Lock(t), 1)) /\ Add(Lock(t), 1).op = "add" /\ Add(Lock(t), 1).key = Lock(t)
<1>1. Add(Lock(t), 1) = [op |-> "add", key |-> Lock(t), value |-> 1]
  BY DEF Add
<1> QED
  BY <1>1, Keys DEF Proper, Opens

LEMMA ProperUpdate ==
  ASSUME NEW k \in Key, NEW c, \A r \in RowOf(k) : With(c, r) \in RowOf(k)
  PROVE  Proper(Update(k, c)) /\ Update(k, c).op = "update" /\ Update(k, c).key = k
<1>1. Update(k, c) = [op |-> "update", key |-> k, change |-> c]
  BY DEF Update
<1> QED
  BY <1>1 DEF Proper, Opens

LEMMA ProperUpsert ==
  ASSUME NEW k \in Key, NEW x \in RowOf(k), NEW c, \A r \in RowOf(k) : With(c, r) \in RowOf(k),
         \A f \in DOMAIN c : c[f] = x[f]
  PROVE  Proper(Upsert(k, x, c)) /\ Upsert(k, x, c).op = "upsert" /\ Upsert(k, x, c).key = k
<1>1. Upsert(k, x, c) = [op |-> "upsert", key |-> k, row |-> x, change |-> c]
  BY DEF Upsert
<1> QED
  BY <1>1 DEF Proper, Opens

LEMMA ProperLockUpdate ==
  ASSUME NEW t \in Token
  PROVE  /\ Proper(Update(Lock(t), Closed))
         /\ Proper(Update(Lock(t), [permanent |-> TRUE, end |-> 0]))
         /\ Proper(Update(Lock(t), [permanent |-> FALSE]))
         /\ \A n \in Nat : Proper(Update(Lock(t), [end |-> n]))
         /\ \A a, n \in Nat : Proper(Update(Lock(t), [amount |-> a, end |-> n]))
         /\ \A c : Update(Lock(t), c).op = "update" /\ Update(Lock(t), c).key = Lock(t)
<1>1. RowOf(Lock(t)) = LockRow /\ Lock(t) \in Key
  BY Keys
<1>2. \A r \in LockRow : With(Closed, r) \in LockRow
  BY Changes DEF Sets
<1>3. /\ \A r \in LockRow : With([permanent |-> TRUE, end |-> 0], r) \in LockRow
      /\ \A r \in LockRow : With([permanent |-> FALSE], r) \in LockRow
  BY Changes DEF Keeps
<1>4. \A n \in Nat : \A r \in LockRow : With([end |-> n], r) \in LockRow
  BY Changes DEF Keeps
<1>5. \A a, n \in Nat : \A r \in LockRow : With([amount |-> a, end |-> n], r) \in LockRow
  BY Changes DEF Keeps
<1>6. \A c : Update(Lock(t), c).op = "update" /\ Update(Lock(t), c).key = Lock(t)
  BY DEF Update
<1>7. \A c : (\A r \in LockRow : With(c, r) \in LockRow) => Proper(Update(Lock(t), c))
  BY <1>1, ProperUpdate
<1> HIDE DEF Closed
<1> QED
  BY <1>2, <1>3, <1>4, <1>5, <1>6, <1>7

LEMMA ProperPart ==
  ASSUME NEW t \in Token, NEW a \in Nat, NEW n \in Nat
  PROVE  /\ Proper(UpsertLock(t, a, n)) /\ UpsertLock(t, a, n).op = "upsert"
         /\ UpsertLock(t, a, n).key = Lock(t)
<1>1. PICK x : x = NewLock(a, n)
  OBVIOUS
<1>2. PICK c : c = [amount |-> a, end |-> n, active |-> TRUE]
  OBVIOUS
<1>3. x \in LockRow /\ \A f \in DOMAIN c : c[f] = x[f]
  <2>1. x = [amount |-> a, end |-> n, permanent |-> FALSE, active |-> TRUE]
    BY <1>1 DEF NewLock
  <2>2. DOMAIN c = {"amount", "end", "active"}
    BY <1>2
  <2>3. c.amount = x.amount /\ c.end = x.end /\ c.active = x.active
    BY <1>2, <2>1
  <2>4. x \in LockRow
    BY <2>1 DEF LockRow
  <2> QED
    BY <2>2, <2>3, <2>4
<1>4. \A r \in LockRow : With(c, r) \in LockRow
  BY <1>2, Changes DEF Sets
<1>5. UpsertLock(t, a, n) = Upsert(Lock(t), x, c)
  BY <1>1, <1>2 DEF UpsertLock
<1> QED
  BY <1>3, <1>4, <1>5, Keys, ProperUpsert

LEMMA ProperVote ==
  ASSUME NEW t \in Token, NEW r \in VoteRow
  PROVE  /\ Proper(Upsert(Vote(t), r, r)) /\ Upsert(Vote(t), r, r).op = "upsert"
         /\ Proper(Update(Vote(t), r)) /\ Update(Vote(t), r).op = "update"
         /\ Upsert(Vote(t), r, r).key = Vote(t) /\ Update(Vote(t), r).key = Vote(t)
<1>1. \A q \in VoteRow : With(r, q) \in VoteRow
  BY DEF VoteRow, With
<1> QED
  BY <1>1, Keys, ProperUpsert, ProperUpdate

LEMMA ShapeOfTwo ==
  ASSUME NEW e, NEW s, Proper(s), AddsOf(e, s), e.type = "increase" => s.key = Lock(e.token),
         Statements(e) = << Record, s >> \/ Statements(e) = << s, Record >>
  PROVE  Shape(e)
<1>1. s.op # "record"
  BY DEF Proper
<1>2. CASE Statements(e) = << Record, s >>
  BY <1>1, <1>2, RecordStatement DEF Shape, HitsAt, Hits
<1>3. CASE Statements(e) = << s, Record >>
  BY <1>1, <1>3, RecordStatement DEF Shape, HitsAt, Hits
<1> QED
  BY <1>2, <1>3

LEMMA Shaped ==
  ASSUME NEW e, WellFormed(e)
  PROVE  Shape(e)
<1>0. e \in Event /\ e.token \in Token
  BY EventFields DEF WellFormed
<1>1. CASE e.type = "create"
  <2>1. Statements(e) = << Record, Insert(Lock(e.token), NewLock(e.value, e.end)) >>
    BY <1>1 DEF Statements, DepositStatements
  <2> QED
    BY <1>0, <1>1, <2>1, EventFields, ProperInsert, ShapeOfTwo DEF AddsOf
<1>2. CASE e.type = "increase"
  <2>1. Statements(e) = << Record, Add(Lock(e.token), 1) >>
    BY <1>2 DEF Statements, DepositStatements, WellFormed
  <2> QED
    BY <1>0, <1>2, <2>1, ProperAdd, ShapeOfTwo DEF AddsOf
<1>3. CASE e.type = "extend"
  <2>1. Statements(e) = << Record, Update(Lock(e.token), [end |-> e.end]) >>
    BY <1>3 DEF Statements, DepositStatements
  <2> QED
    BY <1>0, <1>3, <2>1, EventFields, ProperLockUpdate, ShapeOfTwo DEF AddsOf
<1>4. CASE e.type = "withdraw"
  <2>1. Statements(e) = << Record, Update(Lock(e.token), Closed) >>
    BY <1>4 DEF Statements, WithdrawStatements
  <2> QED
    BY <1>0, <1>4, <2>1, ProperLockUpdate, ShapeOfTwo DEF AddsOf
<1>5. CASE e.type = "lockPermanent"
  <2>1. Statements(e) =
          << Record, Update(Lock(e.token), [permanent |-> TRUE, end |-> 0]) >>
    BY <1>5 DEF Statements, LockPermanentStatements
  <2> QED
    BY <1>0, <1>5, <2>1, ProperLockUpdate, ShapeOfTwo DEF AddsOf
<1>6. CASE e.type = "unlockPermanent"
  <2>1. Statements(e) = << Record, Update(Lock(e.token), [permanent |-> FALSE]) >>
    BY <1>6 DEF Statements, UnlockPermanentStatements
  <2> QED
    BY <1>0, <1>6, <2>1, ProperLockUpdate, ShapeOfTwo DEF AddsOf
<1>7. CASE e.type = "merge"
  <2>1. PICK a : a = Update(Lock(e.token), Closed)
    OBVIOUS
  <2>2. PICK b : b = Update(Lock(e.to), [amount |-> e.amount, end |-> e.end])
    OBVIOUS
  <2>3. Statements(e) = << Record, a, b >>
    <3>1. Statements(e) = << Record >> \o ClosesThenRaises(e)
      BY <1>7 DEF Statements, MergeStatements
    <3> QED
      BY <2>1, <2>2, <3>1, OneThenTwo DEF ClosesThenRaises
  <2>4. /\ Proper(a) /\ a.op = "update" /\ a.key = Lock(e.token)
        /\ Proper(b) /\ b.op = "update" /\ b.key = Lock(e.to) /\ b.key # a.key
    BY <1>0, <1>7, <2>1, <2>2, EventFields, ProperLockUpdate, Keys DEF WellFormed
  <2>5. AddsOf(e, a) /\ AddsOf(e, b)
    BY <1>7, <2>4 DEF AddsOf
  <2> QED
    BY <1>7, <2>3, <2>4, <2>5, RecordStatement DEF Shape, HitsAt
<1>8. CASE e.type = "split"
  <2>1. PICK a : a = Update(Lock(e.token), Closed)
    OBVIOUS
  <2>2. PICK b : b = UpsertLock(e.parts[1], e.amounts[1], e.end)
    OBVIOUS
  <2>3. PICK c : c = UpsertLock(e.parts[2], e.amounts[2], e.end)
    OBVIOUS
  <2>4. Statements(e) = << Record, a, b, c >>
    BY <1>8, <2>1, <2>2, <2>3 DEF Statements, SplitStatements
  <2>5. Proper(a) /\ a.op = "update" /\ a.key = Lock(e.token)
    BY <1>0, <2>1, ProperLockUpdate
  <2>6. Proper(b) /\ b.op = "upsert" /\ b.key = Lock(e.parts[1])
    BY <1>0, <1>8, <2>2, EventFields, ProperPart
  <2>7. Proper(c) /\ c.op = "upsert" /\ c.key = Lock(e.parts[2])
    BY <1>0, <1>8, <2>3, EventFields, ProperPart
  <2>8. a.key # b.key /\ a.key # c.key /\ b.key # c.key
    BY <1>8, <2>5, <2>6, <2>7, Keys DEF WellFormed, Parts
  <2>9. AddsOf(e, a) /\ AddsOf(e, b) /\ AddsOf(e, c)
    BY <1>8, <2>5, <2>6, <2>7 DEF AddsOf
  <2> QED
    BY <1>8, <2>4, <2>5, <2>6, <2>7, <2>8, <2>9, RecordStatement DEF Shape, HitsAt
<1>9. CASE e.type = "voted"
  <2>1. PICK r : r = [weight |-> e.weight, active |-> TRUE]
    OBVIOUS
  <2>2. Statements(e) = << Upsert(Vote(e.token), r, r), Record >>
    BY <1>9, <2>1 DEF Statements, VotedStatements
  <2>3. r \in VoteRow
    BY <1>0, <1>9, <2>1, EventFields DEF VoteRow
  <2> QED
    BY <1>0, <1>9, <2>2, <2>3, ProperVote, ShapeOfTwo DEF AddsOf
<1>10. CASE e.type = "abstained"
  <2>1. PICK r : r = [weight |-> 0, active |-> FALSE]
    OBVIOUS
  <2>2. Statements(e) = << Update(Vote(e.token), r), Record >>
    BY <1>10, <2>1 DEF Statements, AbstainedStatements
  <2>3. r \in VoteRow
    BY <2>1 DEF VoteRow
  <2> QED
    BY <1>0, <1>10, <2>2, <2>3, ProperVote, ShapeOfTwo DEF AddsOf
<1> QED
  BY <1>0, <1>1, <1>2, <1>3, <1>4, <1>5, <1>6, <1>7, <1>8, <1>9, <1>10, EventFields

\* The statement of e for k is found by its key.
LEMMA Found ==
  ASSUME NEW e, WellFormed(e), NEW k, Hits(e, k)
  PROVE  /\ On(e, k) \in 1..Len(Statements(e)) /\ HitsAt(e, On(e, k), k) /\ On(e, k) \in Nat \ {0}
         /\ \A i \in 1..Len(Statements(e)) : HitsAt(e, i, k) => i = On(e, k)
         /\ For(e, k).op # "record" /\ For(e, k).key = k /\ k \in Key /\ Proper(For(e, k))
         /\ For(e, k).op = "add" <=> e.type = "increase" /\ k = Lock(e.token)
<1>1. Shape(e) /\ Len(Statements(e)) \in Nat
  BY Shaped, StatementKinds DEF WellFormed
<1>2. PICK i \in 1..Len(Statements(e)) : i = On(e, k)
  BY DEF Hits, On
<1>3. HitsAt(e, i, k)
  BY <1>2 DEF Hits, On
<1>4. Statements(e)[i].op # "record" /\ Statements(e)[i].key = k /\ For(e, k) = Statements(e)[i]
  BY <1>2, <1>3 DEF HitsAt, For
<1>5. Proper(For(e, k)) /\ AddsOf(e, For(e, k))
  BY <1>1, <1>4 DEF Shape
<1>6. \A j \in 1..Len(Statements(e)) : HitsAt(e, j, k) => j = i
  BY <1>1, <1>4 DEF Shape
<1> QED
  BY <1>1, <1>2, <1>3, <1>4, <1>5, <1>6 DEF Proper, AddsOf

-----------------------------------------------------------------------------
(* What statements do to rows.                                             *)

LEMMA RowColumns ==
  ASSUME NEW k \in Key
  PROVE  /\ NoRow \notin RowOf(k)
         /\ \A r \in RowOf(k) : DOMAIN r = Columns(k)
         /\ k[1] = "lock" => RowOf(k) = LockRow /\ \E t \in Token : k = Lock(t)
<1>1. \A r \in LockRow : DOMAIN r = {"amount", "end", "permanent", "active"}
  BY DEF LockRow
<1>2. \A r \in VoteRow : DOMAIN r = {"weight", "active"}
  BY DEF VoteRow
<1>3. k[1] = "lock" => \E t \in Token : k = Lock(t)
  BY Keys
<1> QED
  BY <1>1, <1>2, <1>3, NoRowAssumption DEF RowOf, Columns

LEMMA EffectColumns ==
  ASSUME NEW s, Proper(s), NEW k, k = s.key
  PROVE  /\ Effect(s, NoRow) = IF Opens(s) THEN s.row ELSE NoRow
         /\ Opens(s) => s.row # NoRow
         /\ \A r \in RowOf(k) :
              /\ Effect(s, r) \in RowOf(k)
              /\ \A f \in Columns(k) : Assigns(s, f) => Effect(s, r)[f] = Given(s, f)
              /\ \A f \in Columns(k) : ~Assigns(s, f) /\ s.op # "add" => Effect(s, r)[f] = r[f]
              /\ s.op = "add" =>
                   (\A f \in Set(k) : Effect(s, r)[f] = r[f]) /\ Effect(s, r).amount = r.amount + 1
<1>1. k \in Key /\ NoRow \notin RowOf(k) /\ \A r \in RowOf(k) : DOMAIN r = Columns(k)
  BY RowColumns DEF Proper
<1>2. Effect(s, NoRow) = IF Opens(s) THEN s.row ELSE NoRow
  BY DEF Effect, Opens, Proper
<1>3. Opens(s) => s.row # NoRow
  BY <1>1 DEF Proper
<1>4. ASSUME NEW r \in RowOf(k)
      PROVE  /\ Effect(s, r) \in RowOf(k)
             /\ \A f \in Columns(k) : Assigns(s, f) => Effect(s, r)[f] = Given(s, f)
             /\ \A f \in Columns(k) : ~Assigns(s, f) /\ s.op # "add" => Effect(s, r)[f] = r[f]
             /\ s.op = "add" =>
                  (\A f \in Set(k) : Effect(s, r)[f] = r[f]) /\ Effect(s, r).amount = r.amount + 1
  <2>1. r # NoRow /\ DOMAIN r = Columns(k)
    BY <1>1
  <2>2. CASE s.op = "insert"
    <3>1. Effect(s, r) = r
      BY <2>1, <2>2 DEF Effect
    <3> QED
      BY <2>2, <3>1 DEF Assigns
  <2>3. CASE s.op \in {"update", "upsert"}
    <3>1. Effect(s, r) = With(s.change, r)
      BY <2>1, <2>3 DEF Effect
    <3>2. \A f \in Columns(k) :
            With(s.change, r)[f] = IF f \in DOMAIN s.change THEN s.change[f] ELSE r[f]
      BY <2>1 DEF With
    <3>3. With(s.change, r) \in RowOf(k)
      BY <2>3 DEF Proper
    <3>4. \A f : Assigns(s, f) => Given(s, f) = s.change[f]
      BY <2>3 DEF Assigns, Given, Opens, Proper
    <3> QED
      BY <2>3, <3>1, <3>2, <3>3, <3>4 DEF Assigns
  <2>4. CASE s.op = "add"
    <3>1. Effect(s, r) = [r EXCEPT !.amount = @ + 1]
      BY <2>1, <2>4 DEF Effect, Proper
    <3>2. r \in LockRow /\ RowOf(k) = LockRow
      BY <1>1, <2>4, RowColumns DEF Proper
    <3>3. Effect(s, r) \in LockRow /\ Effect(s, r).amount = r.amount + 1
      BY <3>1, <3>2 DEF LockRow
    <3>4. \A f \in Set(k) : Effect(s, r)[f] = r[f]
      BY <2>1, <3>1 DEF Set
    <3> QED
      BY <2>4, <3>2, <3>3, <3>4 DEF Assigns
  <2> QED
    BY <2>2, <2>3, <2>4 DEF Proper
<1> QED
  BY <1>2, <1>3, <1>4

LEMMA RowsTyped ==
  ASSUME NEW p \in Positions, NEW k \in Key
  PROVE  p[k] \in RowOf(k) \cup {NoRow}
<1>1. PICK t \in Token : k = Lock(t) \/ k = Vote(t)
  BY Keys
<1> QED
  BY <1>1, Keys DEF Positions

\* Statement i of event n, by the key it writes.
LEMMA Stated ==
  ASSUME TypeOK, LogShape, NEW n \in 1..Len(log), NEW i \in 1..Last(n), Execute(n, i)
  PROVE  \/ /\ Statements(log[n])[i].op = "record"
            /\ db' = db /\ history' = history \cup {n} /\ added' = added /\ twice' = twice
         \/ \E k \in Key :
              LET s == For(log[n], k) IN
              /\ Hits(log[n], k) /\ On(log[n], k) = i /\ Statements(log[n])[i].op # "record"
              /\ db'[k] = Effect(s, db[k]) /\ \A j \in Key : j # k => db'[j] = db[j]
              /\ history' = history
              /\ added' = IF s.op = "add" THEN added \cup {n} ELSE added
              /\ twice' = IF s.op = "add" /\ n \in added THEN twice \cup {n} ELSE twice
<1>1. PICK e : e = log[n]
  OBVIOUS
<1>2. PICK s : s = Statements(e)[i]
  OBVIOUS
<1>3. WellFormed(e) /\ i \in 1..Len(Statements(e))
  BY <1>1 DEF LogShape, Last
<1>4. /\ IF s.op = "record" THEN history' = history \cup {n} /\ UNCHANGED db
         ELSE db' = [db EXCEPT ![s.key] = Written(s)] /\ UNCHANGED history
      /\ IF s.op = "add"
           THEN /\ added' = added \cup {n}
                /\ twice' = IF n \in added THEN twice \cup {n} ELSE twice
           ELSE UNCHANGED <<added, twice>>
  BY <1>1, <1>2 DEF Execute
<1>5. CASE s.op = "record"
  BY <1>1, <1>2, <1>4, <1>5
<1>6. CASE s.op # "record"
  <2>1. PICK k : k = s.key
    OBVIOUS
  <2>2. HitsAt(e, i, k) /\ Hits(e, k)
    BY <1>2, <1>3, <1>6, <2>1 DEF HitsAt, Hits
  <2>3. On(e, k) = i /\ k \in Key /\ For(e, k) = s
    BY <1>2, <1>3, <2>2, Found DEF For
  <2>4. Written(s) = Effect(s, db[k])
    BY <2>1 DEF Written, Effect
  <2>5. DOMAIN db = Key
    BY DEF TypeOK, Positions
  <2>6. db'[k] = Effect(s, db[k]) /\ \A j \in Key : j # k => db'[j] = db[j]
    BY <1>4, <1>6, <2>1, <2>3, <2>4, <2>5
  <2> QED
    BY <1>1, <1>2, <1>4, <1>6, <2>2, <2>3, <2>6
<1> QED
  BY <1>5, <1>6

-----------------------------------------------------------------------------
(* The ledger changes as the statements of the event would change it.      *)

Foretold(e) ==
  /\ WellFormed(e) /\ log' = Append(log, e)
  /\ UNCHANGED <<tableVars, next, step, orphan, failed, orphaned, rewound, faults>>
  /\ \A k \in Key :
       IF Hits(e, k)
         THEN /\ ledger'[k] = Effect(For(e, k), ledger[k])
              /\ ledger[k] = NoRow => Opens(For(e, k))
              /\ ledger[k] # NoRow /\ Opens(For(e, k)) =>
                   \A f \in Columns(k) : Assigns(For(e, k), f)
         ELSE ledger'[k] = ledger[k]

LEMMA OneStatement ==
  ASSUME NEW e, NEW s, s.op # "record",
         Statements(e) = << Record, s >> \/ Statements(e) = << s, Record >>
  PROVE  Hits(e, s.key) /\ For(e, s.key) = s /\ \A k : Hits(e, k) => k = s.key
<1>1. CASE Statements(e) = << Record, s >>
  <2>1. /\ Len(Statements(e)) = 2 /\ Statements(e)[2] = s
        /\ \A i \in 1..2 : \A k : HitsAt(e, i, k) <=> i = 2 /\ k = s.key
    BY <1>1, RecordStatement DEF HitsAt
  <2>2. On(e, s.key) = 2
    BY <2>1 DEF On
  <2> QED
    BY <2>1, <2>2 DEF Hits, For
<1>2. CASE Statements(e) = << s, Record >>
  <2>1. /\ Len(Statements(e)) = 2 /\ Statements(e)[1] = s
        /\ \A i \in 1..2 : \A k : HitsAt(e, i, k) <=> i = 1 /\ k = s.key
    BY <1>2, RecordStatement DEF HitsAt
  <2>2. On(e, s.key) = 1
    BY <2>1 DEF On
  <2> QED
    BY <2>1, <2>2 DEF Hits, For
<1> QED
  BY <1>1, <1>2

LEMMA OneForetold ==
  ASSUME ledger \in Positions, NEW e, WellFormed(e), NEW s, s.op # "record",
         NEW k \in Key, k = s.key,
         Statements(e) = << Record, s >> \/ Statements(e) = << s, Record >>,
         Emit(e, [ledger EXCEPT ![k] = Effect(s, ledger[k])]),
         ledger[k] = NoRow => Opens(s),
         ledger[k] # NoRow /\ Opens(s) => \A f \in Columns(k) : Assigns(s, f)
  PROVE  Foretold(e)
<1>1. Hits(e, k) /\ For(e, k) = s /\ \A j : Hits(e, j) => j = k
  BY OneStatement
<1>2. /\ log' = Append(log, e) /\ ledger' = [ledger EXCEPT ![k] = Effect(s, ledger[k])]
      /\ UNCHANGED <<tableVars, next, step, orphan, failed, orphaned, rewound, faults>>
  BY DEF Emit
<1>3. DOMAIN ledger = Key
  BY DEF Positions
<1>4. ledger'[k] = Effect(s, ledger[k]) /\ \A j \in Key : j # k => ledger'[j] = ledger[j]
  BY <1>2, <1>3
<1>5. ASSUME NEW j \in Key
      PROVE  IF Hits(e, j)
               THEN /\ ledger'[j] = Effect(For(e, j), ledger[j])
                    /\ ledger[j] = NoRow => Opens(For(e, j))
                    /\ ledger[j] # NoRow /\ Opens(For(e, j)) =>
                         \A f \in Columns(j) : Assigns(For(e, j), f)
               ELSE ledger'[j] = ledger[j]
  <2>1. CASE j = k
    BY <1>1, <1>4, <2>1
  <2>2. CASE j # k
    BY <1>1, <1>4, <2>2
  <2> QED
    BY <2>1, <2>2
<1> QED
  BY <1>2, <1>5 DEF Foretold

LEMMA WithOne ==
  ASSUME NEW r \in LockRow, NEW n \in Nat
  PROVE  /\ With([end |-> n], r) = [r EXCEPT !.end = n]
         /\ With([permanent |-> FALSE], r) = [r EXCEPT !.permanent = FALSE]
<1>1. DOMAIN r = {"amount", "end", "permanent", "active"}
  BY DEF LockRow
<1>2. PICK c : c = [end |-> n]
  OBVIOUS
<1>3. With(c, r) = [f \in DOMAIN r |-> IF f = "end" THEN n ELSE r[f]]
  <2>1. DOMAIN c = {"end"} /\ c["end"] = n
    BY <1>2
  <2>2. \A f \in DOMAIN r : (IF f \in DOMAIN c THEN c[f] ELSE r[f]) = IF f = "end" THEN n ELSE r[f]
    BY <2>1
  <2> QED
    BY <2>2 DEF With
<1>7. PICK d : d = [permanent |-> FALSE]
  OBVIOUS
<1>4. With(d, r) = [f \in DOMAIN r |-> IF f = "permanent" THEN FALSE ELSE r[f]]
  <2>1. DOMAIN d = {"permanent"} /\ d["permanent"] = FALSE
    BY <1>7
  <2>2. \A f \in DOMAIN r :
          (IF f \in DOMAIN d THEN d[f] ELSE r[f]) = IF f = "permanent" THEN FALSE ELSE r[f]
    BY <2>1
  <2> QED
    BY <2>2 DEF With
<1>5. [r EXCEPT !.end = n] = [f \in DOMAIN r |-> IF f = "end" THEN n ELSE r[f]]
  BY <1>1 DEF LockRow
<1>6. [r EXCEPT !.permanent = FALSE] = [f \in DOMAIN r |-> IF f = "permanent" THEN FALSE ELSE r[f]]
  BY <1>1 DEF LockRow
<1> QED
  BY <1>2, <1>3, <1>4, <1>5, <1>6, <1>7

LEMMA WithVote ==
  ASSUME NEW r \in VoteRow, NEW q \in VoteRow
  PROVE  With(r, q) = r
<1>1. DOMAIN r = {"weight", "active"} /\ DOMAIN q = {"weight", "active"}
  BY DEF VoteRow
<1>2. With(r, q) = [f \in {"weight", "active"} |-> r[f]]
  BY <1>1 DEF With
<1>3. r = [f \in {"weight", "active"} |-> r[f]]
  BY <1>1 DEF VoteRow
<1> QED
  BY <1>2, <1>3

LEMMA UpdateEffect ==
  ASSUME NEW k \in Key, NEW c, NEW r \in RowOf(k)
  PROVE  /\ Effect(Update(k, c), r) = With(c, r) /\ Update(k, c).op = "update"
         /\ Update(k, c).key = k /\ ~Opens(Update(k, c)) /\ r # NoRow
<1>1. Update(k, c) = [op |-> "update", key |-> k, change |-> c]
  BY DEF Update
<1>2. r # NoRow
  BY RowColumns
<1> QED
  BY <1>1, <1>2 DEF Effect, Opens

\* An event that updates one row.
LEMMA UpdateForetold ==
  ASSUME ledger \in Positions, NEW e, WellFormed(e), NEW k \in Key, NEW c, ledger[k] # NoRow,
         \/ Statements(e) = << Record, Update(k, c) >>
         \/ Statements(e) = << Update(k, c), Record >>,
         Emit(e, [ledger EXCEPT ![k] = With(c, ledger[k])])
  PROVE  Foretold(e)
<1>1. ledger[k] \in RowOf(k)
  BY RowsTyped
<1>2. PICK s : s = Update(k, c)
  OBVIOUS
<1>3. Effect(s, ledger[k]) = With(c, ledger[k]) /\ s.op = "update" /\ s.key = k /\ ~Opens(s)
  BY <1>1, <1>2, UpdateEffect
<1>4. Emit(e, [ledger EXCEPT ![k] = Effect(s, ledger[k])])
  BY <1>3
<1> QED
  BY <1>2, <1>3, <1>4, OneForetold

LEMMA LockRowOf ==
  ASSUME IInv, NEW t \in Token, Active(t)
  PROVE  /\ Lock(t) \in Key /\ ledger \in Positions /\ ledger[Lock(t)] # NoRow
         /\ ledger[Lock(t)] \in LockRow
  BY LedgerRows, Keys DEF IInv, TypeOK, Active

LEMMA CreateForetold ==
  ASSUME IInv, Create
  PROVE  \E e : Foretold(e)
<1>1. PICK t \in Token : t = Fresh
  BY DEF Create
<1>2. PICK r : r = NewLock(2, 1)
  OBVIOUS
<1>3. PICK e : e = [type |-> "create", token |-> t, value |-> 2, end |-> 1]
  OBVIOUS
<1>4. PICK k \in Key : k = Lock(t)
  BY Keys
<1>5. PICK s : s = Insert(k, r)
  OBVIOUS
<1>6. /\ e.type = "create" /\ e.token = t /\ e.value = 2 /\ e.end = 1
      /\ WellFormed(e)
  BY <1>3 DEF WellFormed, Event
<1>7. Statements(e) = << Record, s >>
  BY <1>2, <1>4, <1>5, <1>6 DEF Statements, DepositStatements
<1>8. Proper(s) /\ s.op = "insert" /\ s.key = k
  BY <1>2, <1>4, <1>5, ProperInsert
<1>9. s.row = r
  BY <1>5 DEF Insert
<1>10. ledger \in Positions /\ ledger[k] = NoRow
  <2>1. PICK c \in Nat : t = 1 + c /\ Minted = 1..c
    BY <1>1, LedgerRows DEF IInv
  <2>2. t \notin Minted
    BY <2>1
  <2> QED
    BY <1>4, <2>2 DEF IInv, TypeOK, Minted
<1>11. Effect(s, ledger[k]) = r /\ Opens(s)
  BY <1>8, <1>9, <1>10 DEF Effect, Opens
<1>12. Emit(e, [ledger EXCEPT ![k] = r])
  BY <1>1, <1>2, <1>3, <1>4 DEF Create
<1> QED
  BY <1>6, <1>7, <1>8, <1>10, <1>11, <1>12, OneForetold

LEMMA IncreaseForetold ==
  ASSUME IInv, NEW t \in Token, Increase(t)
  PROVE  \E e : Foretold(e)
<1>1. PICK k \in Key : k = Lock(t)
  BY Keys
<1>2. ledger \in Positions /\ ledger[k] # NoRow
  BY <1>1, LockRowOf DEF Increase
<1>3. PICK e : e = [type |-> "increase", token |-> t, value |-> 1]
  OBVIOUS
<1>4. e.type = "increase" /\ e.token = t /\ e.value = 1 /\ WellFormed(e)
  BY <1>3 DEF WellFormed, Event
<1>5. PICK s : s = Add(k, 1)
  OBVIOUS
<1>6. Statements(e) = << Record, s >>
  BY <1>1, <1>4, <1>5 DEF Statements, DepositStatements
<1>7. s.op = "add" /\ s.key = k /\ s.value = 1
  BY <1>5 DEF Add
<1>8. Effect(s, ledger[k]) = [ledger[k] EXCEPT !.amount = @ + 1] /\ ~Opens(s)
  BY <1>2, <1>7 DEF Effect, Opens
<1>9. Emit(e, [ledger EXCEPT ![k] = [ledger[k] EXCEPT !.amount = @ + 1]])
  BY <1>1, <1>3 DEF Increase
<1>10. Emit(e, [ledger EXCEPT ![k] = Effect(s, ledger[k])])
  BY <1>8, <1>9
<1> QED
  BY <1>2, <1>4, <1>6, <1>7, <1>8, <1>10, OneForetold

LEMMA ExtendForetold ==
  ASSUME IInv, NEW t \in Token, Extend(t)
  PROVE  \E e : Foretold(e)
<1>1. PICK k \in Key : k = Lock(t)
  BY Keys
<1>2. ledger \in Positions /\ ledger[k] # NoRow /\ ledger[k] \in LockRow
  BY <1>1, LockRowOf DEF Extend
<1>3. PICK e : e = [type |-> "extend", token |-> t, end |-> 2]
  OBVIOUS
<1>4. e.type = "extend" /\ e.token = t /\ e.end = 2 /\ WellFormed(e)
  BY <1>3 DEF WellFormed, Event
<1>5. Statements(e) = << Record, Update(k, [end |-> 2]) >>
  BY <1>1, <1>4 DEF Statements, DepositStatements
<1>6. With([end |-> 2], ledger[k]) = [ledger[k] EXCEPT !.end = 2]
  BY <1>2, WithOne
<1>7. Emit(e, [ledger EXCEPT ![k] = [ledger[k] EXCEPT !.end = 2]])
  BY <1>1, <1>3 DEF Extend
<1>8. Emit(e, [ledger EXCEPT ![k] = With([end |-> 2], ledger[k])])
  BY <1>6, <1>7
<1> QED
  BY <1>2, <1>4, <1>5, <1>8, UpdateForetold

LEMMA WithdrawForetold ==
  ASSUME IInv, NEW t \in Token, Withdraw(t)
  PROVE  \E e : Foretold(e)
<1>1. PICK k \in Key : k = Lock(t)
  BY Keys
<1>2. ledger \in Positions /\ ledger[k] # NoRow
  BY <1>1, LockRowOf DEF Withdraw
<1>3. PICK e : e = [type |-> "withdraw", token |-> t]
  OBVIOUS
<1>4. e.type = "withdraw" /\ e.token = t /\ WellFormed(e)
  BY <1>3 DEF WellFormed, Event
<1>5. Statements(e) = << Record, Update(k, Closed) >>
  BY <1>1, <1>4 DEF Statements, WithdrawStatements
<1>6. Emit(e, [ledger EXCEPT ![k] = With(Closed, ledger[k])])
  BY <1>1, <1>3 DEF Withdraw
<1> QED
  BY <1>2, <1>4, <1>5, <1>6, UpdateForetold

LEMMA LockPermanentForetold ==
  ASSUME IInv, NEW t \in Token, LockPermanent(t)
  PROVE  \E e : Foretold(e)
<1>1. PICK k \in Key : k = Lock(t)
  BY Keys
<1>2. ledger \in Positions /\ ledger[k] # NoRow
  BY <1>1, LockRowOf DEF LockPermanent
<1>3. PICK e : e = [type |-> "lockPermanent", token |-> t]
  OBVIOUS
<1>4. e.type = "lockPermanent" /\ e.token = t /\ WellFormed(e)
  BY <1>3 DEF WellFormed, Event
<1>5. Statements(e) = << Record, Update(k, [permanent |-> TRUE, end |-> 0]) >>
  BY <1>1, <1>4 DEF Statements, LockPermanentStatements
<1>6. Emit(e, [ledger EXCEPT ![k] = With([permanent |-> TRUE, end |-> 0], ledger[k])])
  BY <1>1, <1>3 DEF LockPermanent
<1> QED
  BY <1>2, <1>4, <1>5, <1>6, UpdateForetold

LEMMA UnlockPermanentForetold ==
  ASSUME IInv, NEW t \in Token, UnlockPermanent(t)
  PROVE  \E e : Foretold(e)
<1>1. PICK k \in Key : k = Lock(t)
  BY Keys
<1>2. ledger \in Positions /\ ledger[k] # NoRow /\ ledger[k] \in LockRow
  BY <1>1, LockRowOf DEF UnlockPermanent
<1>3. PICK e : e = [type |-> "unlockPermanent", token |-> t]
  OBVIOUS
<1>4. e.type = "unlockPermanent" /\ e.token = t /\ WellFormed(e)
  BY <1>3 DEF WellFormed, Event
<1>5. Statements(e) = << Record, Update(k, [permanent |-> FALSE]) >>
  BY <1>1, <1>4 DEF Statements, UnlockPermanentStatements
<1>6. With([permanent |-> FALSE], ledger[k]) = [ledger[k] EXCEPT !.permanent = FALSE]
  BY <1>2, WithOne
<1>7. Emit(e, [ledger EXCEPT ![k] = [ledger[k] EXCEPT !.permanent = FALSE]])
  BY <1>1, <1>3 DEF UnlockPermanent
<1>8. Emit(e, [ledger EXCEPT ![k] = With([permanent |-> FALSE], ledger[k])])
  BY <1>6, <1>7
<1> QED
  BY <1>2, <1>4, <1>5, <1>8, UpdateForetold

LEMMA CastVoteForetold ==
  ASSUME IInv, NEW t \in Token, CastVote(t)
  PROVE  \E e : Foretold(e)
<1>1. PICK k \in Key : k = Vote(t)
  BY Keys
<1>2. ledger \in Positions /\ ledger[Lock(t)] \in LockRow
  BY LockRowOf DEF CastVote
<1>3. PICK w \in Nat : w = ledger[Lock(t)].amount
  BY <1>2 DEF LockRow
<1>4. PICK r : r = [weight |-> w, active |-> TRUE]
  OBVIOUS
<1>5. PICK e : e = [type |-> "voted", token |-> t, weight |-> w]
  OBVIOUS
<1>6. e.type = "voted" /\ e.token = t /\ e.weight = w /\ WellFormed(e)
  BY <1>5 DEF WellFormed, Event
<1>7. r \in VoteRow
  BY <1>4 DEF VoteRow
<1>8. PICK s : s = Upsert(k, r, r)
  OBVIOUS
<1>9. Statements(e) = << s, Record >>
  BY <1>1, <1>4, <1>6, <1>8 DEF Statements, VotedStatements
<1>10. s.op = "upsert" /\ s.key = k /\ s.row = r /\ s.change = r
  BY <1>8 DEF Upsert
<1>11. ledger[k] \in VoteRow \cup {NoRow}
  BY <1>1, <1>2, RowsTyped, Keys
<1>12. Effect(s, ledger[k]) = r
  BY <1>7, <1>10, <1>11, WithVote DEF Effect
<1>13. Opens(s) /\ \A f \in Columns(k) : Assigns(s, f)
  <2>1. DOMAIN r = Columns(k)
    BY <1>1, <1>7, RowColumns, Keys
  <2> QED
    BY <1>10, <2>1 DEF Opens, Assigns
<1>14. Emit(e, [ledger EXCEPT ![k] = r])
  BY <1>1, <1>3, <1>4, <1>5 DEF CastVote
<1> QED
  BY <1>2, <1>6, <1>9, <1>10, <1>12, <1>13, <1>14, OneForetold

LEMMA AbstainForetold ==
  ASSUME IInv, NEW t \in Token, Abstain(t)
  PROVE  \E e : Foretold(e)
<1>1. PICK k \in Key : k = Vote(t)
  BY Keys
<1>2. ledger \in Positions /\ ledger[k] # NoRow
  BY <1>1 DEF Abstain, Voted, IInv, TypeOK
<1>3. PICK r : r = [weight |-> 0, active |-> FALSE]
  OBVIOUS
<1>4. r \in VoteRow /\ ledger[k] \in VoteRow
  BY <1>1, <1>2, <1>3, RowsTyped, Keys DEF VoteRow
<1>5. PICK e : e = [type |-> "abstained", token |-> t]
  OBVIOUS
<1>6. e.type = "abstained" /\ e.token = t /\ WellFormed(e)
  BY <1>5 DEF WellFormed, Event
<1>7. Statements(e) = << Update(k, r), Record >>
  BY <1>1, <1>3, <1>6 DEF Statements, AbstainedStatements
<1>8. Emit(e, [ledger EXCEPT ![k] = r])
  BY <1>1, <1>3, <1>5 DEF Abstain
<1>9. Emit(e, [ledger EXCEPT ![k] = With(r, ledger[k])])
  BY <1>4, <1>8, WithVote
<1> QED
  BY <1>2, <1>6, <1>7, <1>9, UpdateForetold

LEMMA MergeForetold ==
  ASSUME IInv, NEW from \in Token, NEW to \in Token, Merge(from, to)
  PROVE  \E e : Foretold(e)
<1>1. PICK j \in Key, k \in Key : j = Lock(from) /\ k = Lock(to) /\ j # k
  BY Keys DEF Merge
<1>2. ledger \in Positions /\ ledger[j] # NoRow /\ ledger[k] # NoRow
  BY <1>1, LockRowOf DEF Merge
<1>3. ledger[j] \in LockRow /\ ledger[k] \in LockRow
  BY <1>1, LockRowOf DEF Merge
<1>4. PICK a \in Nat : a = ledger[j].amount + ledger[k].amount
  BY <1>3 DEF LockRow
<1>5. PICK n \in Nat : n = IF Permanent(to) THEN 0 ELSE Larger(ledger[j].end, ledger[k].end)
  BY <1>3 DEF LockRow, Larger
<1>6. PICK e : e = [type |-> "merge", token |-> from, to |-> to, amount |-> a, end |-> n]
  OBVIOUS
<1>7. e.type = "merge" /\ e.token = from /\ e.to = to /\ e.amount = a /\ e.end = n /\ WellFormed(e)
  BY <1>6 DEF WellFormed, Event, Merge
<1>8. PICK c : c = [amount |-> a, end |-> n]
  OBVIOUS
<1>9. PICK s : s = Update(j, Closed)
  OBVIOUS
<1>10. PICK u : u = Update(k, c)
  OBVIOUS
<1>11. Statements(e) = << Record, s, u >>
  <2>1. Statements(e) = << Record >> \o ClosesThenRaises(e)
    BY <1>7 DEF Statements, MergeStatements
  <2>2. ClosesThenRaises(e) = << s, u >>
    BY <1>1, <1>7, <1>8, <1>9, <1>10 DEF ClosesThenRaises
  <2> QED
    BY <2>1, <2>2, OneThenTwo
<1>12. /\ Effect(s, ledger[j]) = With(Closed, ledger[j])
       /\ s.op = "update" /\ s.key = j /\ ~Opens(s)
  BY <1>1, <1>3, <1>9, UpdateEffect, Keys
<1>13. Effect(u, ledger[k]) = With(c, ledger[k]) /\ u.op = "update" /\ u.key = k /\ ~Opens(u)
  BY <1>1, <1>3, <1>10, UpdateEffect, Keys
<1>14. /\ Hits(e, j) /\ For(e, j) = s /\ Hits(e, k) /\ For(e, k) = u
       /\ \A i : Hits(e, i) => i = j \/ i = k
  <2>1. /\ Len(Statements(e)) = 3 /\ Statements(e)[2] = s /\ Statements(e)[3] = u
        /\ \A i \in 1..3 : \A x : HitsAt(e, i, x) <=> (i = 2 /\ x = j) \/ (i = 3 /\ x = k)
    BY <1>11, <1>12, <1>13, RecordStatement DEF HitsAt
  <2>2. On(e, j) = 2 /\ On(e, k) = 3
    BY <1>1, <2>1 DEF On
  <2> QED
    BY <2>1, <2>2 DEF Hits, For
<1>15. Emit(e, [ledger EXCEPT ![j] = With(Closed, ledger[j]), ![k] = With(c, ledger[k])])
  <2>1. Emit(e, [ledger EXCEPT ![Lock(from)] = With(Closed, @), ![Lock(to)] = With(c, @)])
    BY <1>1, <1>4, <1>5, <1>6, <1>8 DEF Merge
  <2>2. [ledger EXCEPT ![j] = With(Closed, @), ![k] = With(c, @)]
          = [ledger EXCEPT ![j] = With(Closed, ledger[j]), ![k] = With(c, ledger[k])]
    BY <1>1
  <2> QED
    BY <1>1, <2>1, <2>2
<1>16. /\ log' = Append(log, e)
       /\ ledger' = [ledger EXCEPT ![j] = With(Closed, ledger[j]), ![k] = With(c, ledger[k])]
       /\ UNCHANGED <<tableVars, next, step, orphan, failed, orphaned, rewound, faults>>
  BY <1>15 DEF Emit
<1>17. DOMAIN ledger = Key
  BY <1>2 DEF Positions
<1>18. /\ ledger'[j] = With(Closed, ledger[j]) /\ ledger'[k] = With(c, ledger[k])
       /\ \A i \in Key : i # j /\ i # k => ledger'[i] = ledger[i]
  BY <1>1, <1>16, <1>17
<1>19. ASSUME NEW i \in Key
       PROVE  IF Hits(e, i)
                THEN /\ ledger'[i] = Effect(For(e, i), ledger[i])
                     /\ ledger[i] = NoRow => Opens(For(e, i))
                     /\ ledger[i] # NoRow /\ Opens(For(e, i)) =>
                          \A f \in Columns(i) : Assigns(For(e, i), f)
                ELSE ledger'[i] = ledger[i]
  <2>1. CASE i = j
    BY <1>2, <1>12, <1>14, <1>18, <2>1
  <2>2. CASE i = k
    BY <1>2, <1>13, <1>14, <1>18, <2>2
  <2>3. CASE i # j /\ i # k
    BY <1>14, <1>18, <2>3
  <2> QED
    BY <2>1, <2>2, <2>3
<1>20. Foretold(e)
  BY <1>7, <1>16, <1>19 DEF Foretold
<1> QED
  BY <1>20

LEMMA PartEffect ==
  ASSUME NEW t \in Token, NEW a \in Nat, NEW n \in Nat
  PROVE  /\ UpsertLock(t, a, n).op = "upsert" /\ UpsertLock(t, a, n).key = Lock(t)
         /\ Effect(UpsertLock(t, a, n), NoRow) = NewLock(a, n) /\ Opens(UpsertLock(t, a, n))
<1>1. PICK s : s = UpsertLock(t, a, n)
  OBVIOUS
<1>2. s.op = "upsert" /\ s.key = Lock(t) /\ s.row = NewLock(a, n)
  BY <1>1 DEF UpsertLock, Upsert
<1> QED
  BY <1>1, <1>2 DEF Effect, Opens

LEMMA SplitForetold ==
  ASSUME IInv, NEW t \in Token, Split(t)
  PROVE  \E e : Foretold(e)
<1>1. PICK j \in Key : j = Lock(t)
  BY Keys
<1>2. ledger \in Positions /\ ledger[j] # NoRow /\ ledger[j] \in LockRow
  BY <1>1, LockRowOf DEF Split
<1>3. PICK p : p = Fresh
  OBVIOUS
<1>4. /\ p \in Token /\ p + 1 \in Token /\ p # p + 1 /\ t # p /\ t # p + 1
      /\ ledger[Lock(p)] = NoRow /\ ledger[Lock(p + 1)] = NoRow
  <2>1. PICK c \in Nat : p = 1 + c /\ Minted = 1..c
    BY <1>3, LedgerRows DEF IInv
  <2>2. p + 1 \in Token
    BY <1>3 DEF Split
  <2>3. p \in Token
    BY <2>1, <2>2, VeLocksAssumption DEF Token
  <2>4. p \notin Minted /\ p + 1 \notin Minted /\ p # p + 1
    BY <2>1
  <2>5. t \in Minted
    BY <1>1, <1>2 DEF Minted
  <2> QED
    BY <2>2, <2>3, <2>4, <2>5 DEF Minted
<1>5. PICK a \in Nat : a = ledger[j].amount - 1
  BY <1>1, <1>2 DEF LockRow, Split
<1>6. PICK n \in Nat : n = ledger[j].end
  BY <1>2 DEF LockRow
<1>7. PICK e : e = [type |-> "split", token |-> t, parts |-> <<p, p + 1>>,
                    amounts |-> <<1, a>>, end |-> n]
  OBVIOUS
<1>8. /\ e.type = "split" /\ e.token = t /\ e.parts[1] = p /\ e.parts[2] = p + 1
      /\ e.amounts[1] = 1 /\ e.amounts[2] = a /\ e.end = n
  BY <1>7
<1>9. WellFormed(e)
  <2>1. <<p, p + 1>> \in Token \X Token /\ <<1, a>> \in Nat \X Nat
    BY <1>4
  <2>2. e \in Event
    BY <1>7, <2>1 DEF Event
  <2> QED
    BY <1>4, <1>8, <2>2 DEF WellFormed, Parts
<1>10. PICK k \in Key, l \in Key : k = Lock(p) /\ l = Lock(p + 1) /\ j # k /\ j # l /\ k # l
  BY <1>1, <1>4, Keys
<1>11. PICK s : s = Update(j, Closed)
  OBVIOUS
<1>12. PICK u : u = UpsertLock(p, 1, n)
  OBVIOUS
<1>13. PICK v : v = UpsertLock(p + 1, a, n)
  OBVIOUS
<1>14. Statements(e) = << Record, s, u, v >>
  BY <1>1, <1>8, <1>11, <1>12, <1>13 DEF Statements, SplitStatements
<1>15. /\ Effect(s, ledger[j]) = With(Closed, ledger[j])
       /\ s.op = "update" /\ s.key = j /\ ~Opens(s)
  BY <1>1, <1>2, <1>11, UpdateEffect, Keys
<1>16. /\ Effect(u, NoRow) = NewLock(1, n) /\ u.op = "upsert" /\ u.key = k /\ Opens(u)
  BY <1>4, <1>10, <1>12, PartEffect
<1>17. /\ Effect(v, NoRow) = NewLock(a, n) /\ v.op = "upsert" /\ v.key = l /\ Opens(v)
  BY <1>4, <1>10, <1>13, PartEffect
<1>18. /\ Hits(e, j) /\ For(e, j) = s /\ Hits(e, k) /\ For(e, k) = u
       /\ Hits(e, l) /\ For(e, l) = v
       /\ \A i : Hits(e, i) => i = j \/ i = k \/ i = l
  <2>1. /\ Len(Statements(e)) = 4 /\ Statements(e)[2] = s
        /\ Statements(e)[3] = u /\ Statements(e)[4] = v
        /\ \A i \in 1..4 : \A x : HitsAt(e, i, x) <=>
             (i = 2 /\ x = j) \/ (i = 3 /\ x = k) \/ (i = 4 /\ x = l)
    BY <1>14, <1>15, <1>16, <1>17, RecordStatement DEF HitsAt
  <2>2. On(e, j) = 2 /\ On(e, k) = 3 /\ On(e, l) = 4
    BY <1>10, <2>1 DEF On
  <2> QED
    BY <2>1, <2>2 DEF Hits, For
<1>19. Emit(e, [ledger EXCEPT ![j] = With(Closed, ledger[j]),
                              ![k] = NewLock(1, n), ![l] = NewLock(a, n)])
  <2>1. Emit(e, [ledger EXCEPT ![Lock(t)] = With(Closed, @),
                               ![Lock(p)] = NewLock(1, n), ![Lock(p + 1)] = NewLock(a, n)])
    BY <1>1, <1>3, <1>5, <1>6, <1>7 DEF Split
  <2> QED
    BY <1>1, <1>10, <2>1
<1>20. /\ log' = Append(log, e)
       /\ ledger' = [ledger EXCEPT ![j] = With(Closed, ledger[j]),
                                   ![k] = NewLock(1, n), ![l] = NewLock(a, n)]
       /\ UNCHANGED <<tableVars, next, step, orphan, failed, orphaned, rewound, faults>>
  BY <1>19 DEF Emit
<1>21. DOMAIN ledger = Key
  BY <1>2 DEF Positions
<1>22. /\ ledger'[j] = With(Closed, ledger[j]) /\ ledger'[k] = NewLock(1, n)
       /\ ledger'[l] = NewLock(a, n)
       /\ \A i \in Key : i # j /\ i # k /\ i # l => ledger'[i] = ledger[i]
  BY <1>10, <1>20, <1>21
<1>23. ASSUME NEW i \in Key
       PROVE  IF Hits(e, i)
                THEN /\ ledger'[i] = Effect(For(e, i), ledger[i])
                     /\ ledger[i] = NoRow => Opens(For(e, i))
                     /\ ledger[i] # NoRow /\ Opens(For(e, i)) =>
                          \A f \in Columns(i) : Assigns(For(e, i), f)
                ELSE ledger'[i] = ledger[i]
  <2>1. CASE i = j
    BY <1>2, <1>15, <1>18, <1>22, <2>1
  <2>2. CASE i = k
    BY <1>4, <1>10, <1>16, <1>18, <1>22, <2>2
  <2>3. CASE i = l
    BY <1>4, <1>10, <1>17, <1>18, <1>22, <2>3
  <2>4. CASE i # j /\ i # k /\ i # l
    BY <1>18, <1>22, <2>4
  <2> QED
    BY <2>1, <2>2, <2>3, <2>4
<1>24. Foretold(e)
  BY <1>9, <1>20, <1>23 DEF Foretold
<1> QED
  BY <1>24

LEMMA ChainForetold ==
  ASSUME IInv, Chain
  PROVE  \E e : Foretold(e)
  BY CreateForetold, IncreaseForetold, ExtendForetold, WithdrawForetold,
     LockPermanentForetold, UnlockPermanentForetold, SplitForetold, CastVoteForetold,
     AbstainForetold, MergeForetold DEF Chain

-----------------------------------------------------------------------------
(* An event is emitted.                                                    *)

\* What is said of the log that has grown by e.
LEMMA Grown ==
  ASSUME TypeOK, LogShape, NEW e, Foretold(e), NEW N, N = Len(log) + 1
  PROVE  /\ Len(log) \in Nat /\ Len(log') = N /\ log'[N] = e /\ N \notin 1..Len(log)
         /\ \A n \in 1..Len(log) : log'[n] = log[n]
         /\ 1..Len(log') = 1..Len(log) \cup {N}
         /\ \A n \in 1..Len(log) : \A k, f :
              /\ Says(n, k, f)' <=> Says(n, k, f)
              /\ Value(n, k, f)' = Value(n, k, f)
              /\ First(n, k)' <=> First(n, k)
              /\ Done(n, k)' <=> Done(n, k)
              /\ LastOf(n, k, f)' <=> LastOf(n, k, f) /\ ~(Hits(e, k) /\ Gives(For(e, k), f))
         /\ \A k, f : /\ Says(N, k, f)' <=> Hits(e, k) /\ Gives(For(e, k), f)
                      /\ LastOf(N, k, f)' <=> Hits(e, k) /\ Gives(For(e, k), f)
                      /\ Value(N, k, f)' = Given(For(e, k), f)
                      /\ First(N, k)' <=> \A m \in 1..Len(log) : ~Hits(log[m], k)
<1>1. /\ log \in Seq(Event) /\ log' = Append(log, e) /\ next' = next /\ step' = step
      /\ e \in Event
  BY DEF TypeOK, Foretold, WellFormed
<1>2. /\ Len(log) \in Nat /\ Len(log') = N /\ log'[N] = e /\ N \notin 1..Len(log)
      /\ \A n \in 1..Len(log) : log'[n] = log[n]
      /\ 1..Len(log') = 1..Len(log) \cup {N}
  BY <1>1
<1>3. /\ \A n \in 1..Len(log) : \A k, f : Says(n, k, f)' <=> Says(n, k, f)
      /\ \A k, f : Says(N, k, f)' <=> Hits(e, k) /\ Gives(For(e, k), f)
  BY <1>2 DEF Says
<1>4. /\ \A n \in 1..Len(log) : \A k, f : Value(n, k, f)' = Value(n, k, f)
      /\ \A k, f : Value(N, k, f)' = Given(For(e, k), f)
  BY <1>2 DEF Value
<1>5. \A n \in 1..Len(log) : \A k : First(n, k)' <=> First(n, k)
  <2>1. \A n \in 1..Len(log) : 1..(n - 1) \subseteq 1..Len(log)
    BY <1>2
  <2> QED
    BY <1>2, <2>1 DEF First
<1>6. \A k : First(N, k)' <=> \A m \in 1..Len(log) : ~Hits(log[m], k)
  <2>1. 1..(N - 1) = 1..Len(log)
    BY <1>2
  <2> QED
    BY <1>2, <2>1 DEF First
<1>7. \A n \in 1..Len(log) : \A k : Done(n, k)' <=> Done(n, k)
  BY <1>1, <1>2 DEF Done
<1>8. ASSUME NEW n \in 1..Len(log), NEW k, NEW f
      PROVE  LastOf(n, k, f)' <=> LastOf(n, k, f) /\ ~(Hits(e, k) /\ Gives(For(e, k), f))
  <2>1. (n + 1)..Len(log') = ((n + 1)..Len(log)) \cup {N}
    BY <1>2
  <2>2. \A m \in (n + 1)..Len(log) : m \in 1..Len(log)
    BY <1>2
  <2> QED
    BY <1>3, <2>1, <2>2 DEF LastOf
<1>9. \A k, f : LastOf(N, k, f)' <=> Hits(e, k) /\ Gives(For(e, k), f)
  <2>1. (N + 1)..Len(log') = {}
    BY <1>2
  <2> QED
    BY <1>3, <2>1 DEF LastOf
<1> QED
  BY <1>2, <1>3, <1>4, <1>5, <1>6, <1>7, <1>8, <1>9

LEMMA GrownDone ==
  ASSUME TypeOK, AtRest, LogShape, OrphansKnown, NEW e, Foretold(e), NEW k,
         NEW N, N = Len(log) + 1
  PROVE  /\ Hits(e, k) => ~Done(N, k)'
         /\ Clean(k)' => Clean(k)
<1>1. /\ Len(log) \in Nat /\ \A n \in 1..Len(log) : log'[n] = log[n]
      /\ log'[N] = e
  BY Grown
<1>2. /\ WellFormed(e) /\ next' = next /\ step' = step /\ failed' = failed
      /\ orphaned' = orphaned
  BY DEF Foretold
<1>3. ASSUME Hits(e, k) PROVE ~Done(N, k)'
  <2>1. On(e, k) \in Nat \ {0}
    BY <1>2, <1>3, Found
  <2>2. next \in 1..(Len(log) + 1) /\ (next = Len(log) + 1 => step = 1)
    BY DEF TypeOK, AtRest
  <2> QED
    BY <1>1, <1>2, <2>1, <2>2 DEF Done
<1>4. ASSUME Clean(k)' PROVE Clean(k)
  <2>1. \A n \in orphaned : log'[n] = log[n]
    BY <1>1 DEF OrphansKnown
  <2>2. \A n \in orphaned : KeysOf(n)' = KeysOf(n)
    BY <2>1 DEF KeysOf
  <2> QED
    BY <1>2, <1>4, <2>2 DEF Clean, Sound
<1> QED
  BY <1>3, <1>4

\* A row of the ledger has been written by some event.
LEMMA SaidOnce ==
  ASSUME InLedger, NEW k \in Key, ledger[k] # NoRow
  PROVE  \E n \in 1..Len(log) : Hits(log[n], k)
<1>1. "active" \in Set(k)
  BY DEF Set, Columns
<1> QED
  BY <1>1 DEF InLedger, LastOf, Says

LEMMA ValuedOnce ==
  ASSUME NEW k \in Key, Valued(k), Clean(k), db[k] # NoRow
  PROVE  \E n \in 1..Len(log) : Hits(log[n], k)
<1>1. "active" \in Set(k)
  BY DEF Set, Columns
<1> QED
  BY <1>1 DEF Valued, Says

LEMMA OriginGrows ==
  ASSUME TypeOK, LogShape, Origin, InLedger, NEW e, Foretold(e)
  PROVE  LogShape' /\ Origin'
<1>1. PICK N : N = Len(log) + 1
  OBVIOUS
<1>2. /\ log'[N] = e /\ \A n \in 1..Len(log) : log'[n] = log[n]
      /\ 1..Len(log') = 1..Len(log) \cup {N}
  BY <1>1, Grown
<1>3. WellFormed(e) /\ ledger \in Positions
  BY DEF Foretold, TypeOK
<1>4. LogShape'
  BY <1>2, <1>3 DEF LogShape
<1>5. ASSUME NEW k \in Key
      PROVE  /\ ledger'[k] = NoRow => \A n \in 1..Len(log') : ~Hits(log'[n], k)
             /\ \A n \in 1..Len(log') : Hits(log'[n], k) =>
                  IF First(n, k)' THEN Opens(For(log'[n], k))
                  ELSE \A f \in Columns(k) :
                         Gives(For(log'[n], k), f) => Assigns(For(log'[n], k), f)
  <2>1. ASSUME ledger'[k] = NoRow, NEW n \in 1..Len(log') PROVE ~Hits(log'[n], k)
    <3>1. CASE Hits(e, k)
      <4>1. /\ ledger'[k] = Effect(For(e, k), ledger[k])
            /\ ledger[k] = NoRow => Opens(For(e, k))
        BY <3>1 DEF Foretold
      <4>2. Proper(For(e, k)) /\ k = For(e, k).key
        BY <1>3, <3>1, Found
      <4>3. ledger[k] \in RowOf(k) => Effect(For(e, k), ledger[k]) \in RowOf(k)
        BY <4>2, EffectColumns
      <4>4. ledger[k] = NoRow => Effect(For(e, k), NoRow) # NoRow
        BY <4>1, <4>2, EffectColumns
      <4> QED
        BY <1>3, <2>1, <4>1, <4>3, <4>4, RowsTyped, RowColumns
    <3>2. CASE ~Hits(e, k)
      BY <1>2, <2>1, <3>2 DEF Foretold, Origin
    <3> QED
      BY <3>1, <3>2
  <2>2. ASSUME NEW n \in 1..Len(log), Hits(log'[n], k)
        PROVE  IF First(n, k)' THEN Opens(For(log'[n], k))
               ELSE \A f \in Columns(k) : Gives(For(log'[n], k), f) => Assigns(For(log'[n], k), f)
    <3>1. log'[n] = log[n] /\ (First(n, k)' <=> First(n, k))
      BY <1>1, <1>2, Grown
    <3> QED
      BY <2>2, <3>1 DEF Origin
  <2>3. ASSUME Hits(e, k)
        PROVE  IF First(N, k)' THEN Opens(For(e, k))
               ELSE \A f \in Columns(k) : Gives(For(e, k), f) => Assigns(For(e, k), f)
    <3>1. First(N, k)' <=> \A m \in 1..Len(log) : ~Hits(log[m], k)
      BY <1>1, Grown
    <3>2. /\ ledger[k] = NoRow => Opens(For(e, k))
          /\ ledger[k] # NoRow /\ Opens(For(e, k)) => \A f \in Columns(k) : Assigns(For(e, k), f)
      BY <2>3 DEF Foretold
    <3>3. CASE First(N, k)'
      BY <3>1, <3>2, <3>3, SaidOnce
    <3>4. CASE ~First(N, k)'
      <4>1. ledger[k] # NoRow
        BY <3>1, <3>4 DEF Origin
      <4> QED
        BY <3>2, <3>4, <4>1 DEF Gives
    <3> QED
      BY <3>3, <3>4
  <2> QED
    BY <1>2, <2>1, <2>2, <2>3
<1> QED
  BY <1>4, <1>5 DEF Origin

\* What e makes of a column of the ledger's row: it gives it, or leaves it.
LEMMA ColumnGrows ==
  ASSUME TypeOK, LogShape, NEW e, Foretold(e), NEW k \in Key, Hits(e, k), NEW f \in Columns(k)
  PROVE  /\ Gives(For(e, k), f) => ledger'[k][f] = Given(For(e, k), f)
         /\ ~Gives(For(e, k), f) => /\ ledger[k] # NoRow
                                    /\ f \in Set(k) \/ For(e, k).op # "add" =>
                                         ledger'[k][f] = ledger[k][f]
                                    /\ For(e, k).op = "add" =>
                                         ledger'[k].amount = ledger[k].amount + 1
<1>1. PICK s : s = For(e, k)
  OBVIOUS
<1>2. /\ ledger'[k] = Effect(s, ledger[k])
      /\ ledger[k] = NoRow => Opens(s)
      /\ ledger[k] # NoRow /\ Opens(s) => \A g \in Columns(k) : Assigns(s, g)
  BY <1>1 DEF Foretold
<1>3. Proper(s) /\ k = s.key
  BY <1>1, Found DEF Foretold
<1>4. ledger[k] \in RowOf(k) \cup {NoRow}
  BY RowsTyped DEF TypeOK
<1>5. CASE ledger[k] = NoRow
  <2>1. ledger'[k] = s.row /\ Opens(s)
    BY <1>2, <1>3, <1>5, EffectColumns
  <2> QED
    BY <1>1, <2>1 DEF Given, Gives
<1>6. CASE ledger[k] # NoRow
  <2>1. ledger[k] \in RowOf(k)
    BY <1>4, <1>6
  <2>2. /\ Assigns(s, f) => Effect(s, ledger[k])[f] = Given(s, f)
        /\ ~Assigns(s, f) /\ s.op # "add" => Effect(s, ledger[k])[f] = ledger[k][f]
        /\ s.op = "add" => /\ \A g \in Set(k) : Effect(s, ledger[k])[g] = ledger[k][g]
                           /\ Effect(s, ledger[k]).amount = ledger[k].amount + 1
    BY <1>3, <2>1, EffectColumns
  <2>3. Gives(s, f) <=> Assigns(s, f)
    BY <1>2, <1>6 DEF Gives
  <2> QED
    BY <1>1, <1>2, <1>6, <2>2, <2>3
<1> QED
  BY <1>5, <1>6

LEMMA LedgerGrows ==
  ASSUME TypeOK, LogShape, InLedger, NEW e, Foretold(e)
  PROVE  InLedger'
<1>1. PICK N : N = Len(log) + 1
  OBVIOUS
<1>2. 1..Len(log') = 1..Len(log) \cup {N}
  BY <1>1, Grown
<1> SUFFICES ASSUME NEW k \in Key, ledger'[k] # NoRow, NEW f \in Set(k)
             PROVE  \E n \in 1..Len(log') : LastOf(n, k, f)' /\ Value(n, k, f)' = ledger'[k][f]
  BY DEF InLedger
<1>3. CASE Hits(e, k) /\ Gives(For(e, k), f)
  <2>1. ledger'[k][f] = Given(For(e, k), f)
    BY <1>3, ColumnGrows DEF Set
  <2>2. LastOf(N, k, f)' /\ Value(N, k, f)' = Given(For(e, k), f)
    BY <1>1, <1>3, Grown
  <2> QED
    BY <1>2, <2>1, <2>2
<1>4. CASE ~(Hits(e, k) /\ Gives(For(e, k), f))
  <2>1. ledger[k] # NoRow /\ ledger'[k][f] = ledger[k][f]
    <3>1. CASE Hits(e, k)
      BY <1>4, <3>1, ColumnGrows DEF Set
    <3>2. CASE ~Hits(e, k)
      BY <3>2 DEF Foretold
    <3> QED
      BY <3>1, <3>2
  <2>2. PICK n \in 1..Len(log) : LastOf(n, k, f) /\ Value(n, k, f) = ledger[k][f]
    BY <2>1 DEF InLedger
  <2>3. LastOf(n, k, f)' /\ Value(n, k, f)' = Value(n, k, f)
    BY <1>1, <1>4, <2>2, Grown
  <2> QED
    BY <1>2, <2>1, <2>2, <2>3
<1> QED
  BY <1>3, <1>4

LEMMA AddsGrow ==
  ASSUME TypeOK, LogShape, NEW e, Foretold(e), NEW t \in Token, NEW n \in 1..Len(log),
         NEW N, N = Len(log) + 1
  PROVE  /\ Adds(n, t)' = IF e.type = "increase" /\ e.token = t THEN Adds(n, t) \cup {N}
                          ELSE Adds(n, t)
         /\ IsFiniteSet(Adds(n, t)) /\ N \notin Adds(n, t) /\ Adds(n, t) \subseteq 1..Len(log)
<1>1. /\ Len(log) \in Nat /\ Len(log') = N /\ log'[N] = e
      /\ \A m \in 1..Len(log) : log'[m] = log[m]
  BY Grown
<1>2. (n + 1)..Len(log') = ((n + 1)..Len(log)) \cup {N} /\ (n + 1)..Len(log) \subseteq 1..Len(log)
  BY <1>1
<1>3. N \notin 1..Len(log)
  BY <1>1
<1>4. IsFiniteSet(Adds(n, t)) /\ Adds(n, t) \subseteq 1..Len(log)
  <2>1. IsFiniteSet(1..Len(log))
    BY <1>1, FS_Interval
  <2>2. Adds(n, t) \subseteq 1..Len(log)
    BY <1>2 DEF Adds
  <2> QED
    BY <2>1, <2>2, FS_Subset
<1>5. Adds(n, t)' = IF e.type = "increase" /\ e.token = t THEN Adds(n, t) \cup {N} ELSE Adds(n, t)
  BY <1>1, <1>2 DEF Adds
<1> QED
  BY <1>3, <1>4, <1>5

\* An amount that an event gives is a number.
LEMMA GivenAmount ==
  ASSUME NEW e, WellFormed(e), NEW t \in Token, Hits(e, Lock(t)), Gives(For(e, Lock(t)), "amount")
  PROVE  Given(For(e, Lock(t)), "amount") \in Nat
<1>1. PICK s : s = For(e, Lock(t))
  OBVIOUS
<1>2. Proper(s) /\ s.key = Lock(t) /\ RowOf(s.key) = LockRow
  BY <1>1, Found, Keys
<1>3. CASE Opens(s)
  <2>1. s.row \in LockRow
    BY <1>2, <1>3 DEF Proper
  <2> QED
    BY <1>1, <1>3, <2>1 DEF Given, LockRow
<1>4. CASE ~Opens(s)
  <2>1. Assigns(s, "amount") /\ s.op = "update"
    BY <1>1, <1>4 DEF Gives, Assigns, Opens
  <2>2. PICK r \in LockRow : r = NewLock(0, 0)
    BY DEF NewLock, LockRow
  <2>3. With(s.change, r) \in LockRow
    BY <1>2, <2>1 DEF Proper
  <2>4. With(s.change, r).amount = s.change.amount
    BY <2>1 DEF With, Assigns, LockRow
  <2> QED
    BY <1>1, <1>4, <2>3, <2>4 DEF Given, LockRow
<1> QED
  BY <1>3, <1>4

LEMMA AmountGrows ==
  ASSUME TypeOK, TypeOK', LogShape, AmountInLedger, NEW e, Foretold(e)
  PROVE  AmountInLedger'
<1>1. PICK N : N = Len(log) + 1
  OBVIOUS
<1>2. 1..Len(log') = 1..Len(log) \cup {N}
  BY <1>1, Grown
<1> SUFFICES ASSUME NEW t \in Token, ledger'[Lock(t)] # NoRow
             PROVE  \E n \in 1..Len(log') :
                      /\ LastOf(n, Lock(t), "amount")'
                      /\ ledger'[Lock(t)].amount =
                           Value(n, Lock(t), "amount")' + Cardinality(Adds(n, t)')
  BY DEF AmountInLedger, Lock
<1>3. PICK k \in Key : /\ k = Lock(t) /\ k[1] = "lock"
                       /\ "amount" \in Columns(k) /\ "amount" \notin Set(k)
  BY Keys DEF Columns, Set
<1>4. WellFormed(e) /\ Shape(e)
  BY Shaped DEF Foretold
<1>5. CASE Hits(e, k) /\ Gives(For(e, k), "amount")
  <2>1. ledger'[k].amount = Given(For(e, k), "amount")
    BY <1>3, <1>5, ColumnGrows
  <2>2. LastOf(N, k, "amount")' /\ Value(N, k, "amount")' = Given(For(e, k), "amount")
    BY <1>1, <1>5, Grown
  <2>3. Given(For(e, k), "amount") \in Nat
    BY <1>3, <1>4, <1>5, GivenAmount
  <2>4. Cardinality(Adds(N, t)') = 0
    <3>1. Len(log') = N /\ N \in Nat
      BY <1>1, Grown
    <3>2. Adds(N, t)' = {}
      BY <3>1 DEF Adds
    <3> QED
      BY <3>2, FS_EmptySet
  <2> QED
    BY <1>2, <1>3, <2>1, <2>2, <2>3, <2>4
<1>6. CASE ~(Hits(e, k) /\ Gives(For(e, k), "amount"))
  <2>1. ledger[k] # NoRow
    BY <1>3, <1>6, ColumnGrows DEF Foretold
  <2>2. PICK n \in 1..Len(log) :
          /\ LastOf(n, k, "amount")
          /\ ledger[k].amount = Value(n, k, "amount") + Cardinality(Adds(n, t))
    BY <1>3, <2>1 DEF AmountInLedger
  <2>3. LastOf(n, k, "amount")' /\ Value(n, k, "amount")' = Value(n, k, "amount")
    BY <1>1, <1>6, <2>2, Grown
  <2>4. PICK v \in Nat, c \in Nat : v = Value(n, k, "amount") /\ c = Cardinality(Adds(n, t))
    <3>1. Value(n, k, "amount") \in Nat
      BY <1>3, <2>2, GivenAmount DEF LastOf, Says, Value, LogShape
    <3>2. Cardinality(Adds(n, t)) \in Nat
      BY <1>1, AddsGrow, FS_CardinalityType
    <3> QED
      BY <3>1, <3>2
  <2>5. CASE e.type = "increase" /\ e.token = t
    <3>1. Hits(e, k) /\ For(e, k).op = "add"
      BY <1>3, <1>4, <2>5, Found DEF Shape
    <3>2. ledger'[k].amount = ledger[k].amount + 1
      BY <1>3, <1>6, <3>1, ColumnGrows
    <3>3. PICK S : S = Adds(n, t)
      OBVIOUS
    <3>4. Adds(n, t)' = S \cup {N} /\ IsFiniteSet(S) /\ N \notin S /\ Cardinality(S) = c
      BY <1>1, <2>4, <2>5, <3>3, AddsGrow
    <3>5. Cardinality(S \cup {N}) = c + 1
      BY <3>4, FS_AddElement
    <3>6. ledger'[k].amount = v + (c + 1)
      BY <2>2, <2>4, <3>2
    <3>7. Value(n, k, "amount")' = v /\ Cardinality(Adds(n, t)') = c + 1
      BY <2>3, <2>4, <3>4, <3>5
    <3> QED
      BY <1>2, <1>3, <2>3, <3>6, <3>7
  <2>6. CASE ~(e.type = "increase" /\ e.token = t)
    <3>1. ledger'[k].amount = ledger[k].amount
      <4>1. CASE Hits(e, k)
        <5>1. For(e, k).op # "add"
          BY <1>3, <1>4, <2>6, <4>1, Found, Keys
        <5> QED
          BY <1>3, <1>6, <4>1, <5>1, ColumnGrows
      <4>2. CASE ~Hits(e, k)
        BY <4>2 DEF Foretold
      <4> QED
        BY <4>1, <4>2
    <3>2. Adds(n, t)' = Adds(n, t)
      BY <1>1, <2>6, AddsGrow
    <3> QED
      BY <1>2, <1>3, <2>2, <2>3, <3>1, <3>2
  <2> QED
    BY <2>5, <2>6
<1> QED
  BY <1>5, <1>6

\* The rows are as before, and what is new has not been handled.
LEMMA RowsGrow ==
  ASSUME TypeOK, AtRest, LogShape, OrphansKnown, NEW e, Foretold(e), NEW k \in Key,
         Valued(k), Present(k), Current(k)
  PROVE  Valued(k)' /\ Present(k)' /\ Current(k)'
<1>1. PICK N : N = Len(log) + 1
  OBVIOUS
<1>2. /\ log'[N] = e /\ \A n \in 1..Len(log) : log'[n] = log[n]
      /\ 1..Len(log') = 1..Len(log) \cup {N}
  BY <1>1, Grown
<1>3. (Clean(k)' => Clean(k)) /\ (Hits(e, k) => ~Done(N, k)') /\ db' = db
  BY <1>1, GrownDone DEF Foretold, tableVars
<1>4. Valued(k)'
  <2>1. ASSUME Clean(k)', db'[k] # NoRow, NEW f \in Set(k)
        PROVE  \E n \in 1..Len(log') : Says(n, k, f)' /\ Value(n, k, f)' = db'[k][f]
    <3>1. PICK n \in 1..Len(log) : Says(n, k, f) /\ Value(n, k, f) = db[k][f]
      BY <1>3, <2>1 DEF Valued
    <3>2. Says(n, k, f)' /\ Value(n, k, f)' = Value(n, k, f)
      BY <1>1, <3>1, Grown
    <3> QED
      BY <1>2, <1>3, <3>1, <3>2
  <2> QED
    BY <2>1 DEF Valued
<1>5. Present(k)'
  <2>1. ASSUME Clean(k)', NEW n \in 1..Len(log'), Hits(log'[n], k), Done(n, k)'
        PROVE  db'[k] # NoRow
    <3>1. n \in 1..Len(log)
      BY <1>2, <1>3, <2>1
    <3>2. Hits(log[n], k) /\ Done(n, k)
      BY <1>1, <1>2, <2>1, <3>1, Grown
    <3> QED
      BY <1>3, <2>1, <3>1, <3>2 DEF Present
  <2> QED
    BY <2>1 DEF Present
<1>6. Current(k)'
  <2>1. ASSUME Clean(k)', NEW f \in Set(k), NEW n \in 1..Len(log'), LastOf(n, k, f)', Done(n, k)'
        PROVE  db'[k][f] = Value(n, k, f)'
    <3>1. n \in 1..Len(log)
      BY <1>1, <1>2, <1>3, <2>1, Grown
    <3>2. LastOf(n, k, f) /\ Done(n, k) /\ Value(n, k, f)' = Value(n, k, f)
      BY <1>1, <2>1, <3>1, Grown
    <3> QED
      BY <1>3, <2>1, <3>1, <3>2 DEF Current
  <2> QED
    BY <2>1 DEF Current
<1> QED
  BY <1>4, <1>5, <1>6

LEMMA AmountsGrow ==
  ASSUME TypeOK, AtRest, LogShape, OrphansKnown, NEW e, Foretold(e), NEW t \in Token,
         Valued(Lock(t)), AtLeast(t), AtMost(t)
  PROVE  AtLeast(t)' /\ AtMost(t)'
<1>1. PICK N : N = Len(log) + 1
  OBVIOUS
<1>2. /\ log'[N] = e /\ (\A n \in 1..Len(log) : log'[n] = log[n]) /\ N \notin 1..Len(log)
      /\ 1..Len(log') = 1..Len(log) \cup {N}
  BY <1>1, Grown
<1>3. PICK k \in Key : k = Lock(t)
  BY Keys
<1>4. /\ Clean(k)' => Clean(k)
      /\ Hits(e, k) => ~Done(N, k)'
      /\ db' = db /\ added' = added /\ twice' = twice
  BY <1>1, GrownDone DEF Foretold, tableVars
<1>5. WellFormed(e) /\ Shape(e)
  BY Shaped DEF Foretold
\* The new event is not the first, if there is a row, nor done.
<1>6. ASSUME Clean(k)', db'[k] # NoRow, NEW n \in 1..Len(log'), LastOf(n, k, "amount")',
             Done(n, k)' \/ First(n, k)'
      PROVE  n \in 1..Len(log)
  <2>1. CASE n = N
    <3>1. Hits(e, k) /\ First(N, k)'
      BY <1>1, <1>4, <1>6, <2>1, Grown
    <3>2. \A m \in 1..Len(log) : ~Hits(log[m], k)
      BY <1>1, <3>1, Grown
    <3> QED
      BY <1>3, <1>4, <1>6, <3>2, ValuedOnce
  <2> QED
    BY <1>2, <1>6, <2>1
<1>7. ASSUME NEW n \in 1..Len(log)
      PROVE  Added(n, t)' = Added(n, t) /\ Adds(n, t)' \cap added' = Adds(n, t) \cap added
  <2>1. Adds(n, t)' \subseteq Adds(n, t) \cup {N} /\ Adds(n, t) \subseteq Adds(n, t)'
    BY <1>1, AddsGrow
  <2>2. N \in Adds(n, t)' => ~Done(N, k)'
    <3>1. N \in Adds(n, t)' => e.type = "increase" /\ e.token = t
      BY <1>2 DEF Adds
    <3> QED
      BY <1>3, <1>4, <1>5, <3>1 DEF Shape
  <2>3. \A m \in Adds(n, t) : m \in 1..Len(log)
    BY <1>1, AddsGrow
  <2>4. \A m \in Adds(n, t) : Done(m, k)' <=> Done(m, k)
    BY <1>1, <2>3, Grown
  <2>5. Added(n, t)' = {m \in Adds(n, t)' : Done(m, k)'}
    BY <1>3 DEF Added, Lock
  <2>6. Added(n, t)' = Added(n, t)
    BY <1>3, <2>1, <2>2, <2>4, <2>5 DEF Added
  <2>7. N \notin added
    BY <1>2 DEF TypeOK
  <2> QED
    BY <1>4, <2>1, <2>6, <2>7
<1>8. AtLeast(t)'
  <2>1. ASSUME Clean(k)', db'[k] # NoRow, NEW n \in 1..Len(log'), LastOf(n, k, "amount")'
        PROVE  /\ Done(n, k)' => db'[k].amount >= Value(n, k, "amount")' + Cardinality(Added(n, t)')
               /\ First(n, k)' => db'[k].amount >= Value(n, k, "amount")'
    <3>1. CASE Done(n, k)' \/ First(n, k)'
      <4>1. n \in 1..Len(log)
        BY <1>6, <2>1, <3>1
      <4>2. /\ LastOf(n, k, "amount")
            /\ (Done(n, k)' <=> Done(n, k)) /\ (First(n, k)' <=> First(n, k))
            /\ Value(n, k, "amount")' = Value(n, k, "amount")
        BY <1>1, <2>1, <4>1, Grown
      <4>3. /\ Done(n, k) => db[k].amount >= Value(n, k, "amount") + Cardinality(Added(n, t))
            /\ First(n, k) => db[k].amount >= Value(n, k, "amount")
        BY <1>3, <1>4, <2>1, <4>1, <4>2 DEF AtLeast
      <4> QED
        BY <1>4, <1>7, <4>1, <4>2, <4>3
    <3> QED
      BY <3>1
  <2> QED
    BY <1>3, <2>1 DEF AtLeast, Lock
<1>9. AtMost(t)'
  <2>1. ASSUME Clean(k)', db'[k] # NoRow, \A m \in twice' : log'[m].token # t,
               NEW n \in 1..Len(log'), LastOf(n, k, "amount")', Done(n, k)' \/ First(n, k)'
        PROVE  db'[k].amount <= Value(n, k, "amount")' + Cardinality(Adds(n, t)' \cap added')
    <3>1. n \in 1..Len(log)
      BY <1>6, <2>1
    <3>2. /\ LastOf(n, k, "amount") /\ (Done(n, k) \/ First(n, k))
          /\ Value(n, k, "amount")' = Value(n, k, "amount")
      BY <1>1, <2>1, <3>1, Grown
    <3>3. \A m \in twice : log[m].token # t
      BY <1>2, <1>4, <2>1 DEF TypeOK
    <3>4. db[k].amount <= Value(n, k, "amount") + Cardinality(Adds(n, t) \cap added)
      BY <1>3, <1>4, <2>1, <3>1, <3>2, <3>3 DEF AtMost
    <3> QED
      BY <1>4, <1>7, <3>1, <3>2, <3>4
  <2> QED
    BY <1>3, <2>1 DEF AtMost, Lock
<1> QED
  BY <1>8, <1>9

LEMMA ChainConverges ==
  ASSUME IInv, IInv', CInv, Chain
  PROVE  CInv'
<1>1. PICK e : Foretold(e)
  BY ChainForetold
<1>2. TypeOK /\ TypeOK' /\ AtRest
  BY DEF IInv
<1>3. /\ LogShape /\ Origin /\ InLedger /\ AmountInLedger
      /\ Rows /\ Amounts /\ Recorded /\ OrphansKnown
  BY DEF CInv
<1>4. LogShape' /\ Origin' /\ InLedger' /\ AmountInLedger'
  BY <1>1, <1>2, <1>3, OriginGrows, LedgerGrows, AmountGrows
<1>5. Rows'
  BY <1>1, <1>2, <1>3, RowsGrow DEF Rows
<1>6. Amounts'
  BY <1>1, <1>2, <1>3, AmountsGrow, Keys DEF Rows, Amounts
<1>7. PICK N : N = Len(log) + 1
  OBVIOUS
<1>8. /\ Len(log) \in Nat /\ Len(log') = N /\ \A n \in 1..Len(log) : log'[n] = log[n]
      /\ 1..Len(log') = 1..Len(log) \cup {N}
  BY <1>1, <1>2, <1>3, <1>7, Grown
<1>9. /\ next' = next /\ step' = step /\ failed' = failed /\ history' = history
      /\ orphan' = orphan /\ orphaned' = orphaned
  BY <1>1 DEF Foretold, tableVars
<1>10. Recorded'
  <2>1. CASE next \in 1..Len(log)
    BY <1>3, <1>8, <1>9, <2>1 DEF Recorded
  <2>2. CASE next = Len(log) + 1
    <3>1. step = 1
      BY <1>2, <2>2 DEF AtRest
    <3> QED
      BY <1>3, <1>9, <3>1 DEF Recorded
  <2> QED
    BY <1>2, <1>8, <2>1, <2>2 DEF TypeOK
<1>11. OrphansKnown'
  BY <1>3, <1>8, <1>9 DEF OrphansKnown
<1> QED
  BY <1>4, <1>5, <1>6, <1>10, <1>11 DEF CInv

-----------------------------------------------------------------------------
(* The consumer, a row it does not write.                                  *)

\* Nothing more of k is done than before.
LEMMA RowKept ==
  ASSUME NEW k \in Key, log' = log, db'[k] = db[k], Clean(k)' => Clean(k),
         Clean(k)' => \A n \in 1..Len(log) : Hits(log[n], k) /\ Done(n, k)' => Done(n, k),
         Valued(k), Present(k), Current(k)
  PROVE  Valued(k)' /\ Present(k)' /\ Current(k)'
<1>1. \A n, f : /\ Says(n, k, f)' <=> Says(n, k, f)
                /\ Value(n, k, f)' = Value(n, k, f)
                /\ LastOf(n, k, f)' <=> LastOf(n, k, f)
  BY DEF Says, Value, LastOf
<1>2. Valued(k)'
  BY <1>1 DEF Valued
<1>3. Present(k)'
  BY DEF Present
<1>4. Current(k)'
  <2>1. \A n, f : LastOf(n, k, f) => Hits(log[n], k)
    BY DEF LastOf, Says
  <2> QED
    BY <1>1, <2>1 DEF Current
<1> QED
  BY <1>2, <1>3, <1>4

LEMMA AddsFinite ==
  ASSUME TypeOK, LogShape, NEW t \in Token, NEW n \in 1..Len(log)
  PROVE  /\ IsFiniteSet(Adds(n, t)) /\ Adds(n, t) \subseteq 1..Len(log)
         /\ \A m \in Adds(n, t) : Hits(log[m], Lock(t)) /\ n < m
<1>1. Len(log) \in Nat
  BY EventsOfLog
<1>2. Adds(n, t) \subseteq 1..Len(log)
  BY <1>1 DEF Adds
<1>3. IsFiniteSet(Adds(n, t))
  <2>1. IsFiniteSet(1..Len(log))
    BY <1>1, FS_Interval
  <2> QED
    BY <1>2, <2>1, FS_Subset
<1>4. ASSUME NEW m \in Adds(n, t) PROVE Hits(log[m], Lock(t)) /\ n < m
  <2>1. Shape(log[m]) /\ log[m].type = "increase" /\ log[m].token = t
    BY <1>2, Shaped DEF LogShape, Adds
  <2> QED
    BY <1>1, <2>1 DEF Shape, Adds
<1> QED
  BY <1>2, <1>3, <1>4

LEMMA AmountValue ==
  ASSUME TypeOK, LogShape, NEW t \in Token, NEW n \in 1..Len(log), LastOf(n, Lock(t), "amount")
  PROVE  Value(n, Lock(t), "amount") \in Nat
  BY GivenAmount DEF LastOf, Says, Value, LogShape

LEMMA AmountKept ==
  ASSUME TypeOK, LogShape, NEW t \in Token, NEW k \in Key, k = Lock(t), log' = log, db'[k] = db[k],
         Clean(k)' => Clean(k), added \subseteq added', twice \subseteq twice',
         Clean(k)' => \A n \in 1..Len(log) : Hits(log[n], k) /\ Done(n, k)' => Done(n, k),
         AtLeast(t), AtMost(t)
  PROVE  AtLeast(t)' /\ AtMost(t)'
<1>1. \A n : /\ Value(n, k, "amount")' = Value(n, k, "amount")
             /\ LastOf(n, k, "amount")' <=> LastOf(n, k, "amount")
             /\ First(n, k)' <=> First(n, k)
             /\ Adds(n, t)' = Adds(n, t)
             /\ LastOf(n, k, "amount") => Hits(log[n], k)
  BY DEF Says, Value, LastOf, First, Adds
<1>2. ASSUME Clean(k)', NEW n \in 1..Len(log), LastOf(n, k, "amount"), db[k] # NoRow
      PROVE  /\ db[k].amount \in Nat /\ Value(n, k, "amount") \in Nat
             /\ Cardinality(Added(n, t)') \in Nat /\ Cardinality(Added(n, t)) \in Nat
             /\ Cardinality(Added(n, t)') <= Cardinality(Added(n, t))
             /\ Cardinality(Adds(n, t) \cap added) \in Nat
             /\ Cardinality(Adds(n, t) \cap added') \in Nat
             /\ Cardinality(Adds(n, t) \cap added) <= Cardinality(Adds(n, t) \cap added')
  <2>1. Value(n, k, "amount") \in Nat
    BY <1>2, AmountValue
  <2>2. db[k].amount \in Nat
    BY <1>2, Placed DEF TypeOK, LockRow
  <2>3. IsFiniteSet(Adds(n, t)) /\ \A m \in Adds(n, t) : m \in 1..Len(log) /\ Hits(log[m], k)
    BY AddsFinite
  <2>4. Added(n, t)' = {m \in Adds(n, t) : Done(m, k)'}
    BY <1>1 DEF Added, Lock
  <2>5. Added(n, t)' \subseteq Added(n, t) /\ Added(n, t) \subseteq Adds(n, t)
    BY <1>2, <2>3, <2>4 DEF Added
  <2>6. PICK A, B : A = Added(n, t)' /\ B = Added(n, t)
    OBVIOUS
  <2>7. PICK C, D : C = Adds(n, t) \cap added /\ D = Adds(n, t) \cap added'
    OBVIOUS
  <2>8. /\ IsFiniteSet(A) /\ IsFiniteSet(B) /\ A \subseteq B
        /\ IsFiniteSet(C) /\ IsFiniteSet(D) /\ C \subseteq D
    BY <2>3, <2>5, <2>6, <2>7, FS_Subset
  <2>9. /\ Cardinality(A) <= Cardinality(B) /\ Cardinality(C) <= Cardinality(D)
        /\ Cardinality(A) \in Nat /\ Cardinality(B) \in Nat
        /\ Cardinality(C) \in Nat /\ Cardinality(D) \in Nat
    BY <2>8, FS_Subset, FS_CardinalityType
  <2> QED
    BY <2>1, <2>2, <2>6, <2>7, <2>9
<1>3. AtLeast(t)'
  <2>1. ASSUME Clean(k)', db'[k] # NoRow, NEW n \in 1..Len(log), LastOf(n, k, "amount")'
        PROVE  /\ Done(n, k)' => db'[k].amount >= Value(n, k, "amount")' + Cardinality(Added(n, t)')
               /\ First(n, k)' => db'[k].amount >= Value(n, k, "amount")'
    <3>1. /\ Done(n, k) => db[k].amount >= Value(n, k, "amount") + Cardinality(Added(n, t))
          /\ First(n, k) => db[k].amount >= Value(n, k, "amount")
      BY <1>1, <2>1 DEF AtLeast
    <3>2. Done(n, k)' => Done(n, k)
      BY <1>1, <2>1
    <3>3. LastOf(n, k, "amount") /\ db[k] # NoRow
      BY <1>1, <2>1
    <3>4. PICK v \in Nat, a \in Nat, b \in Nat, d \in Nat :
            /\ v = Value(n, k, "amount") /\ a = Cardinality(Added(n, t)')
            /\ b = Cardinality(Added(n, t)) /\ d = db[k].amount /\ a <= b
      BY <1>2, <2>1, <3>3
    <3>5. Done(n, k)' => d >= v + a
      BY <3>1, <3>2, <3>4
    <3>6. First(n, k)' => d >= v
      BY <1>1, <3>1, <3>4
    <3>7. db'[k].amount = d /\ Value(n, k, "amount")' = v
      BY <1>1, <3>4
    <3> QED
      BY <3>4, <3>5, <3>6, <3>7
  <2> QED
    BY <2>1 DEF AtLeast, Lock
<1>4. AtMost(t)'
  <2>1. ASSUME Clean(k)', db'[k] # NoRow, \A m \in twice' : log[m].token # t,
               NEW n \in 1..Len(log), LastOf(n, k, "amount")', Done(n, k)' \/ First(n, k)'
        PROVE  db'[k].amount <= Value(n, k, "amount")' + Cardinality(Adds(n, t)' \cap added')
    <3>1. LastOf(n, k, "amount") /\ db[k] # NoRow /\ (Done(n, k) \/ First(n, k))
      BY <1>1, <2>1
    <3>2. db[k].amount <= Value(n, k, "amount") + Cardinality(Adds(n, t) \cap added)
      BY <2>1, <3>1 DEF AtMost
    <3>3. PICK v \in Nat, a \in Nat, b \in Nat, d \in Nat :
            /\ v = Value(n, k, "amount") /\ a = Cardinality(Adds(n, t) \cap added)
            /\ b = Cardinality(Adds(n, t) \cap added') /\ d = db[k].amount /\ a <= b
      BY <1>2, <2>1, <3>1
    <3>4. d <= v + b
      BY <3>2, <3>3
    <3>5. /\ db'[k].amount = d /\ Value(n, k, "amount")' = v
          /\ Cardinality(Adds(n, t)' \cap added') = b
      BY <1>1, <3>3
    <3> QED
      BY <3>4, <3>5
  <2> QED
    BY <2>1 DEF AtMost, Lock
<1> QED
  BY <1>3, <1>4

-----------------------------------------------------------------------------
(* The statement that is handled, and the row it writes.                   *)

\* Before it runs, what is done of k is what came before the message in hand.
LEMMA RowHandled ==
  ASSUME TypeOK, LogShape, Origin, NEW k \in Key, log' = log, next' = next, step' = step + 1,
         next \in 1..Len(log), step \in Nat, Clean(k)' => Clean(k),
         Hits(log[next], k), On(log[next], k) = step,
         db'[k] = Effect(For(log[next], k), db[k]),
         Valued(k), Present(k), Current(k)
  PROVE  Valued(k)' /\ Present(k)' /\ Current(k)'
<1>1. PICK s : s = For(log[next], k)
  OBVIOUS
<1>2. Proper(s) /\ k = s.key /\ next \in Nat /\ Len(log) \in Nat
  BY <1>1, Found, EventsOfLog DEF LogShape
<1>3. db'[k] = Effect(s, db[k]) /\ db[k] \in RowOf(k) \cup {NoRow} /\ NoRow \notin RowOf(k)
  BY <1>1, RowsTyped, RowColumns DEF TypeOK
<1>4. /\ db[k] = NoRow => db'[k] = IF Opens(s) THEN s.row ELSE NoRow
      /\ Opens(s) => s.row # NoRow
      /\ db[k] # NoRow =>
           /\ db'[k] \in RowOf(k)
           /\ \A f \in Columns(k) : Assigns(s, f) => db'[k][f] = Given(s, f)
           /\ \A f \in Set(k) : ~Assigns(s, f) => db'[k][f] = db[k][f]
  <2>1. db[k] = NoRow => db'[k] = IF Opens(s) THEN s.row ELSE NoRow
    BY <1>2, <1>3, EffectColumns
  <2>2. Opens(s) => s.row # NoRow
    BY <1>2, EffectColumns
  <2>3. ASSUME db[k] # NoRow
        PROVE  /\ db'[k] \in RowOf(k)
               /\ \A f \in Columns(k) : Assigns(s, f) => db'[k][f] = Given(s, f)
               /\ \A f \in Set(k) : ~Assigns(s, f) => db'[k][f] = db[k][f]
    <3>1. PICK r \in RowOf(k) : r = db[k]
      BY <1>3, <2>3
    <3>2. /\ Effect(s, r) \in RowOf(k)
          /\ \A f \in Columns(k) : Assigns(s, f) => Effect(s, r)[f] = Given(s, f)
          /\ \A f \in Columns(k) : ~Assigns(s, f) /\ s.op # "add" => Effect(s, r)[f] = r[f]
          /\ s.op = "add" => \A f \in Set(k) : Effect(s, r)[f] = r[f]
      BY <1>2, EffectColumns
    <3> QED
      BY <1>3, <3>1, <3>2 DEF Set
  <2> QED
    BY <2>1, <2>2, <2>3
<1>5. \A n \in 1..Len(log) : /\ n < next => Done(n, k)
                             /\ Done(n, k) => n < next
                             /\ Done(n, k)' <=> n <= next
  <2>1. \A n \in 1..Len(log) : Done(n, k)' <=> n < next \/ (n = next /\ On(log[n], k) < step + 1)
    BY DEF Done
  <2> QED
    BY <1>2, <2>1 DEF Done
<1>6. \A n, f : /\ Says(n, k, f)' <=> Says(n, k, f)
                /\ Value(n, k, f)' = Value(n, k, f)
                /\ LastOf(n, k, f)' <=> LastOf(n, k, f)
  BY DEF Says, Value, LastOf
<1>7. First(next, k) => Opens(s)
  BY <1>1 DEF Origin
<1>8. ASSUME Clean(k)' PROVE db'[k] # NoRow
  <2>1. CASE First(next, k)
    BY <1>3, <1>4, <1>7, <2>1
  <2>2. CASE ~First(next, k)
    <3>1. PICK m \in 1..(next - 1) : Hits(log[m], k)
      BY <2>2 DEF First
    <3>2. m \in 1..Len(log) /\ m < next
      BY <1>2
    <3>3. db[k] # NoRow
      BY <1>5, <1>8, <3>1, <3>2 DEF Present
    <3> QED
      BY <1>3, <1>4, <3>3
  <2> QED
    BY <2>1, <2>2
<1>9. Present(k)'
  BY <1>8 DEF Present
<1>10. ASSUME Clean(k)', NEW f \in Columns(k), Gives(s, f), db[k] = NoRow \/ Assigns(s, f)
       PROVE  db'[k][f] = Given(s, f)
  <2>1. CASE db[k] = NoRow
    BY <1>4, <1>8, <1>10, <2>1 DEF Given
  <2>2. CASE db[k] # NoRow
    BY <1>4, <1>10, <2>2
  <2> QED
    BY <2>1, <2>2
<1>11. \A f : Says(next, k, f) <=> Gives(s, f)
  BY <1>1 DEF Says
<1>12. \A f : Value(next, k, f) = Given(s, f)
  BY <1>1 DEF Value
<1>13. Valued(k)'
  <2>1. ASSUME Clean(k)', NEW f \in Set(k)
        PROVE  \E n \in 1..Len(log) : Says(n, k, f) /\ Value(n, k, f) = db'[k][f]
    <3>1. CASE Gives(s, f) /\ (db[k] = NoRow \/ Assigns(s, f))
      <4>1. db'[k][f] = Given(s, f)
        BY <1>10, <2>1, <3>1 DEF Set
      <4> QED
        BY <1>11, <1>12, <3>1, <4>1
    <3>2. CASE ~(Gives(s, f) /\ (db[k] = NoRow \/ Assigns(s, f)))
      <4>1. db[k] # NoRow /\ ~Assigns(s, f)
        BY <1>4, <1>8, <2>1, <3>2 DEF Gives
      <4>2. db'[k][f] = db[k][f]
        BY <1>4, <4>1
      <4> QED
        BY <2>1, <4>1, <4>2 DEF Valued
    <3> QED
      BY <3>1, <3>2
  <2> QED
    BY <1>6, <2>1 DEF Valued
<1>14. Current(k)'
  <2>1. ASSUME Clean(k)', NEW f \in Set(k), NEW n \in 1..Len(log), LastOf(n, k, f), n <= next
        PROVE  db'[k][f] = Value(n, k, f)
    <3>1. CASE n < next
      <4>1. db[k][f] = Value(n, k, f) /\ db[k] # NoRow
        BY <1>5, <2>1, <3>1 DEF Current, Present, LastOf, Says
      <4>2. ~Says(next, k, f)
        BY <1>2, <2>1, <3>1 DEF LastOf
      <4> QED
        BY <1>4, <1>11, <4>1, <4>2 DEF Gives
    <3>2. CASE n = next /\ (db[k] = NoRow \/ Assigns(s, f))
      <4>1. Gives(s, f)
        BY <1>11, <2>1, <3>2 DEF LastOf
      <4> QED
        BY <1>10, <1>12, <2>1, <3>2, <4>1 DEF Set
    <3>3. CASE n = next /\ db[k] # NoRow /\ ~Assigns(s, f)
      <4>1. Gives(s, f)
        BY <1>11, <2>1, <3>3 DEF LastOf
      <4>2. First(next, k)
        BY <1>1, <3>3, <4>1 DEF Origin, Set
      <4>3. PICK m \in 1..Len(log) : Says(m, k, f) /\ Value(m, k, f) = db[k][f]
        BY <2>1, <3>3 DEF Valued
      <4>4. m = next
        <5>1. ~(m < next)
          BY <1>2, <4>2, <4>3 DEF First, Says
        <5>2. ~(m > next)
          BY <1>2, <2>1, <3>3, <4>3 DEF LastOf
        <5> QED
          BY <1>2, <5>1, <5>2
      <4> QED
        BY <1>4, <3>3, <4>3, <4>4
    <3> QED
      BY <1>2, <2>1, <3>1, <3>2, <3>3
  <2> QED
    BY <1>5, <1>6, <2>1 DEF Current
<1> QED
  BY <1>9, <1>13, <1>14

\* What the statement makes of an amount: it gives it, adds one, or leaves it.
LEMMA AmountWritten ==
  ASSUME TypeOK, LogShape, Origin, NEW t \in Token, NEW k \in Key, k = Lock(t),
         next \in 1..Len(log), Hits(log[next], k), NEW s, s = For(log[next], k),
         db'[k] = Effect(s, db[k]), db'[k] # NoRow
  PROVE  /\ s.op = "add" => /\ log[next].type = "increase" /\ log[next].token = t
                            /\ db[k] # NoRow /\ db'[k].amount = db[k].amount + 1
                            /\ ~Says(next, k, "amount")
         /\ s.op # "add" => log[next].type # "increase" \/ log[next].token # t
         /\ Says(next, k, "amount") =>
              \/ db'[k].amount = Value(next, k, "amount")
              \/ First(next, k) /\ db[k] # NoRow /\ db'[k].amount = db[k].amount
         /\ s.op # "add" /\ ~Says(next, k, "amount") =>
              db[k] # NoRow /\ db'[k].amount = db[k].amount
<1>1. /\ Proper(s) /\ k = s.key /\ WellFormed(log[next])
      /\ s.op = "add" <=> log[next].type = "increase" /\ k = Lock(log[next].token)
  BY Found DEF LogShape
<1>2. db[k] \in RowOf(k) \cup {NoRow} /\ "amount" \in Columns(k)
  BY RowsTyped, Keys DEF TypeOK, Columns
<1>3. /\ db[k] = NoRow => db'[k] = s.row /\ Opens(s)
      /\ db[k] # NoRow =>
           /\ Assigns(s, "amount") => db'[k].amount = Given(s, "amount")
           /\ ~Assigns(s, "amount") /\ s.op # "add" => db'[k].amount = db[k].amount
           /\ s.op = "add" => db'[k].amount = db[k].amount + 1
  <2>1. db[k] = NoRow => db'[k] = s.row /\ Opens(s)
    BY <1>1, EffectColumns
  <2>2. ASSUME db[k] # NoRow
        PROVE  /\ Assigns(s, "amount") => db'[k].amount = Given(s, "amount")
               /\ ~Assigns(s, "amount") /\ s.op # "add" => db'[k].amount = db[k].amount
               /\ s.op = "add" => db'[k].amount = db[k].amount + 1
    <3>1. PICK r \in RowOf(k) : r = db[k]
      BY <1>2, <2>2
    <3>2. /\ Assigns(s, "amount") => Effect(s, r)["amount"] = Given(s, "amount")
          /\ ~Assigns(s, "amount") /\ s.op # "add" => Effect(s, r)["amount"] = r["amount"]
          /\ s.op = "add" => Effect(s, r).amount = r.amount + 1
      BY <1>1, <1>2, EffectColumns
    <3> QED
      BY <3>1, <3>2
  <2> QED
    BY <2>1, <2>2
<1>4. /\ Says(next, k, "amount") <=> Gives(s, "amount")
      /\ Value(next, k, "amount") = Given(s, "amount")
  BY DEF Says, Value
<1>5. s.op = "add" => ~Opens(s) /\ ~Gives(s, "amount")
  BY DEF Opens, Gives, Assigns
<1>6. s.op = "add" <=> log[next].type = "increase" /\ log[next].token = t
  <2>1. PICK u : u = log[next].token
    OBVIOUS
  <2>2. Lock(t) = Lock(u) <=> u = t
    BY Keys
  <2> QED
    BY <1>1, <2>1, <2>2
<1>7. ASSUME Gives(s, "amount")
      PROVE  \/ db'[k].amount = Given(s, "amount")
             \/ First(next, k) /\ db[k] # NoRow /\ db'[k].amount = db[k].amount
  <2>1. CASE db[k] = NoRow
    BY <1>3, <2>1 DEF Given
  <2>2. CASE db[k] # NoRow /\ Assigns(s, "amount")
    BY <1>3, <2>2
  <2>3. CASE db[k] # NoRow /\ ~Assigns(s, "amount")
    <3>1. First(next, k)
      BY <1>2, <1>7, <2>3 DEF Origin
    <3> QED
      BY <1>3, <1>5, <1>7, <2>3, <3>1
  <2> QED
    BY <2>1, <2>2, <2>3
<1>8. ASSUME s.op # "add", ~Gives(s, "amount")
      PROVE  db[k] # NoRow /\ db'[k].amount = db[k].amount
  BY <1>3, <1>8 DEF Gives
<1> QED
  BY <1>3, <1>4, <1>5, <1>6, <1>7, <1>8

\* A deposit that is handled is one more of those that are done.
LEMMA OneMore ==
  ASSUME TypeOK, LogShape, NEW t \in Token, NEW k \in Key, k = Lock(t), log' = log, next' = next,
         step' = step + 1, next \in 1..Len(log), step \in Nat, Hits(log[next], k),
         On(log[next], k) = step, NEW n \in 1..Len(log)
  PROVE  /\ n < next => Done(n, k)
         /\ Done(n, k) => n < next
         /\ Done(n, k)' <=> n <= next
         /\ Cardinality(Added(n, t)) \in Nat /\ Cardinality(Added(n, t)') \in Nat
         /\ Cardinality(Added(n, t)') <= Cardinality(Added(n, t)) + 1
         /\ log[next].type # "increase" \/ log[next].token # t =>
              Cardinality(Added(n, t)') <= Cardinality(Added(n, t))
         /\ n >= next => Cardinality(Added(n, t)') = 0
<1>1. next \in Nat /\ Len(log) \in Nat
  BY EventsOfLog
<1>2. \A m \in 1..Len(log) : /\ m < next => Done(m, k)
                             /\ Done(m, k) => m < next
                             /\ Done(m, k)' <=> m <= next
  <2>1. \A m \in 1..Len(log) : Done(m, k)' <=> m < next \/ (m = next /\ On(log[m], k) < step + 1)
    BY DEF Done
  <2> QED
    BY <1>1, <2>1 DEF Done
<1>3. /\ IsFiniteSet(Adds(n, t)) /\ Adds(n, t)' = Adds(n, t)
      /\ \A m \in Adds(n, t) : m \in 1..Len(log) /\ n < m
      /\ log[next].type # "increase" \/ log[next].token # t => next \notin Adds(n, t)
  BY AddsFinite DEF Adds
<1>4. PICK A, B : A = Added(n, t) /\ B = Added(n, t)'
  OBVIOUS
<1>5. B = {m \in Adds(n, t) : Done(m, k)'}
  BY <1>3, <1>4 DEF Added, Lock
<1>6. /\ \A m \in A : m \in Adds(n, t) /\ m < next
      /\ \A m \in Adds(n, t) : m < next => m \in A
      /\ \A m \in B : m \in Adds(n, t) /\ m <= next
  BY <1>2, <1>3, <1>4, <1>5 DEF Added
<1>7. /\ A \subseteq Adds(n, t) /\ B \subseteq A \cup {next} /\ next \notin A
      /\ next \notin Adds(n, t) => B \subseteq A
      /\ n >= next => B = {}
  BY <1>1, <1>3, <1>6
<1>8. IsFiniteSet(A) /\ Cardinality(A) \in Nat
  BY <1>3, <1>7, FS_Subset, FS_CardinalityType
<1>9. IsFiniteSet(A \cup {next}) /\ Cardinality(A \cup {next}) = Cardinality(A) + 1
  BY <1>7, <1>8, FS_AddElement
<1>10. IsFiniteSet(B) /\ Cardinality(B) \in Nat /\ Cardinality(B) <= Cardinality(A) + 1
  BY <1>7, <1>9, FS_Subset, FS_CardinalityType
<1>11. next \notin Adds(n, t) => Cardinality(B) <= Cardinality(A)
  BY <1>7, <1>8, FS_Subset
<1>12. n >= next => Cardinality(B) = 0
  BY <1>7, FS_EmptySet
<1> QED
  BY <1>2, <1>3, <1>4, <1>8, <1>10, <1>11, <1>12

LEMMA AtLeastHandled ==
  ASSUME TypeOK, LogShape, Origin, NEW t \in Token, NEW k \in Key, k = Lock(t), log' = log,
         next' = next, step' = step + 1, next \in 1..Len(log), step \in Nat, Clean(k)' => Clean(k),
         Hits(log[next], k), On(log[next], k) = step,
         db'[k] = Effect(For(log[next], k), db[k]), db' \in Positions,
         AtLeast(t)
  PROVE  AtLeast(t)'
<1>1. PICK s : s = For(log[next], k)
  OBVIOUS
<1>2. next \in Nat /\ Len(log) \in Nat
  BY EventsOfLog
<1>3. \A n : /\ Value(n, k, "amount")' = Value(n, k, "amount")
             /\ LastOf(n, k, "amount")' <=> LastOf(n, k, "amount")
             /\ First(n, k)' <=> First(n, k)
  BY DEF Says, Value, LastOf, First
<1>4. ASSUME Clean(k)', db'[k] # NoRow, NEW n \in 1..Len(log), LastOf(n, k, "amount")
      PROVE  /\ n <= next => db'[k].amount >= Value(n, k, "amount") + Cardinality(Added(n, t)')
             /\ First(n, k) => db'[k].amount >= Value(n, k, "amount")
  <2>1. PICK v \in Nat : v = Value(n, k, "amount")
    BY <1>4, AmountValue
  <2>2. PICK a \in Nat, b \in Nat :
          /\ a = Cardinality(Added(n, t)) /\ b = Cardinality(Added(n, t)') /\ b <= a + 1
          /\ log[next].type # "increase" \/ log[next].token # t => b <= a
          /\ n >= next => b = 0
    BY OneMore
  <2>3. /\ db'[k].amount \in Nat
        /\ db[k] # NoRow => db[k].amount \in Nat
    BY <1>4, Placed DEF TypeOK, LockRow
  <2>4. db[k] # NoRow => /\ n < next => db[k].amount >= v + a
                         /\ First(n, k) => db[k].amount >= v
    <3>1. n < next => Done(n, k)
      BY OneMore
    <3> QED
      BY <1>4, <2>1, <2>2, <3>1 DEF AtLeast
  <2>5. First(n, k) => n <= next
    BY <1>2 DEF First
  <2>6. Says(next, k, "amount") => n >= next
    BY <1>2, <1>4 DEF LastOf
  <2>7. n = next => Says(next, k, "amount")
    BY <1>4 DEF LastOf
  <2>8. CASE s.op = "add"
    <3>1. db[k] # NoRow /\ db'[k].amount = db[k].amount + 1 /\ ~Says(next, k, "amount")
      BY <1>1, <1>4, <2>8, AmountWritten
    <3> QED
      BY <1>2, <2>1, <2>2, <2>3, <2>4, <2>7, <3>1
  <2>9. CASE Says(next, k, "amount")
    <3>1. CASE n = next
      <4>1. \/ db'[k].amount = v
            \/ First(n, k) /\ db[k] # NoRow /\ db'[k].amount = db[k].amount
        BY <1>1, <1>4, <2>1, <2>9, <3>1, AmountWritten
      <4>2. db'[k].amount >= v
        BY <2>1, <2>3, <2>4, <4>1
      <4> QED
        BY <1>2, <2>1, <2>2, <2>3, <3>1, <4>2
    <3>2. CASE n # next
      <4>1. ~(n <= next)
        BY <1>2, <2>6, <2>9, <3>2
      <4> QED
        BY <2>5, <4>1
    <3> QED
      BY <3>1, <3>2
  <2>10. CASE s.op # "add" /\ ~Says(next, k, "amount")
    <3>1. /\ db[k] # NoRow /\ db'[k].amount = db[k].amount
          /\ log[next].type # "increase" \/ log[next].token # t
      BY <1>1, <1>4, <2>10, AmountWritten
    <3>2. b <= a
      BY <2>2, <3>1
    <3>3. n <= next => n < next
      BY <1>2, <2>7, <2>10
    <3>4. n <= next => db'[k].amount >= v + b
      BY <2>1, <2>2, <2>3, <2>4, <3>1, <3>2, <3>3
    <3> QED
      BY <2>1, <2>2, <2>4, <3>1, <3>4
  <2> QED
    BY <2>8, <2>9, <2>10
<1>5. \A n \in 1..Len(log) : Done(n, k)' <=> n <= next
  BY OneMore
<1> QED
  BY <1>3, <1>4, <1>5 DEF AtLeast, Lock

LEMMA AtMostHandled ==
  ASSUME TypeOK, LogShape, Origin, NEW t \in Token, NEW k \in Key, k = Lock(t), log' = log,
         next' = next, step' = step + 1, next \in 1..Len(log), step \in Nat, Clean(k)' => Clean(k),
         Hits(log[next], k), On(log[next], k) = step,
         db'[k] = Effect(For(log[next], k), db[k]), db' \in Positions,
         NEW s, s = For(log[next], k),
         added' = IF s.op = "add" THEN added \cup {next} ELSE added,
         twice' = IF s.op = "add" /\ next \in added THEN twice \cup {next} ELSE twice,
         AtMost(t)
  PROVE  AtMost(t)'
<1>2. next \in Nat /\ Len(log) \in Nat
  BY EventsOfLog
<1>3. \A n : /\ Value(n, k, "amount")' = Value(n, k, "amount")
             /\ LastOf(n, k, "amount")' <=> LastOf(n, k, "amount")
             /\ First(n, k)' <=> First(n, k)
             /\ Adds(n, t)' = Adds(n, t)
  BY DEF Says, Value, LastOf, First, Adds
<1>4. ASSUME Clean(k)', db'[k] # NoRow, \A m \in twice' : log[m].token # t,
             NEW n \in 1..Len(log), LastOf(n, k, "amount"), n <= next \/ First(n, k)
      PROVE  db'[k].amount <= Value(n, k, "amount") + Cardinality(Adds(n, t) \cap added')
  <2>1. PICK v \in Nat : v = Value(n, k, "amount")
    BY <1>4, AmountValue
  <2>2. PICK A : A = Adds(n, t) \cap added
    OBVIOUS
  <2>3. PICK B : B = Adds(n, t) \cap added'
    OBVIOUS
  <2>4. IsFiniteSet(A) /\ IsFiniteSet(B) /\ A \subseteq B
    <3>1. IsFiniteSet(Adds(n, t)) /\ A \subseteq Adds(n, t) /\ B \subseteq Adds(n, t)
      BY <2>2, <2>3, AddsFinite
    <3> QED
      BY <2>2, <2>3, <3>1, FS_Subset
  <2>5. PICK a \in Nat, b \in Nat : a = Cardinality(A) /\ b = Cardinality(B) /\ a <= b
    BY <2>4, FS_CardinalityType, FS_Subset
  <2>6. /\ db'[k].amount \in Nat
        /\ db[k] # NoRow => db[k].amount \in Nat
    BY <1>4, Placed DEF TypeOK, LockRow
  <2>7. db[k] # NoRow /\ (n < next \/ First(n, k)) => db[k].amount <= v + a
    <3>1. n < next => Done(n, k)
      BY OneMore
    <3>2. \A m \in twice : log[m].token # t
      BY <1>4
    <3> QED
      BY <1>4, <2>1, <2>2, <2>5, <3>1, <3>2 DEF AtMost
  <2>8. First(n, k) => n <= next
    BY <1>2 DEF First
  <2>9. n = next => Says(next, k, "amount")
    BY <1>4 DEF LastOf
  <2>10. CASE s.op = "add"
    <3>1. /\ db[k] # NoRow /\ db'[k].amount = db[k].amount + 1 /\ ~Says(next, k, "amount")
          /\ log[next].type = "increase" /\ log[next].token = t
      BY <1>4, <2>10, AmountWritten
    <3>2. n < next
      BY <1>2, <1>4, <2>8, <2>9, <3>1
    <3>3. next \in Adds(n, t) /\ next \notin added
      BY <1>2, <1>4, <2>10, <3>1, <3>2 DEF Adds
    <3>4. B = A \cup {next} /\ next \notin A
      BY <2>2, <2>3, <2>10, <3>3
    <3>5. b = a + 1
      BY <2>4, <2>5, <3>4, FS_AddElement
    <3>6. PICK d \in Nat : d = db[k].amount /\ d <= v + a
      BY <2>6, <2>7, <3>1, <3>2
    <3>7. db'[k].amount = d + 1
      BY <3>1, <3>6
    <3>8. db'[k].amount <= v + b
      BY <3>5, <3>6, <3>7
    <3> QED
      BY <2>1, <2>3, <2>5, <3>8
  <2>11. CASE Says(next, k, "amount")
    <3>1. n = next
      <4>1. n >= next
        BY <1>2, <1>4, <2>11 DEF LastOf
      <4> QED
        BY <1>2, <1>4, <2>8, <4>1
    <3>2. \/ db'[k].amount = v
          \/ First(n, k) /\ db[k] # NoRow /\ db'[k].amount = db[k].amount
      BY <1>4, <2>1, <2>11, <3>1, AmountWritten
    <3>3. db'[k].amount <= v + b
      BY <2>1, <2>5, <2>6, <2>7, <3>2
    <3> QED
      BY <2>1, <2>3, <2>5, <3>3
  <2>12. CASE s.op # "add" /\ ~Says(next, k, "amount")
    <3>1. db[k] # NoRow /\ db'[k].amount = db[k].amount
      BY <1>4, <2>12, AmountWritten
    <3>2. n < next
      BY <1>2, <1>4, <2>8, <2>9, <2>12
    <3>3. db'[k].amount <= v + b
      BY <2>1, <2>5, <2>6, <2>7, <3>1, <3>2
    <3> QED
      BY <2>1, <2>3, <2>5, <3>3
  <2> QED
    BY <2>10, <2>11, <2>12
<1>5. \A n \in 1..Len(log) : Done(n, k)' <=> n <= next
  BY OneMore
<1> QED
  BY <1>3, <1>4, <1>5 DEF AtMost, Lock

-----------------------------------------------------------------------------
(* The steps of the consumer.                                              *)

\* What a statement of event n leaves alone: every row but the one it writes.
LEMMA OthersKept ==
  ASSUME TypeOK, LogShape, Rows, Amounts, log' = log, NEW K, failed' = failed, orphaned' = orphaned,
         \A k \in Key : k \notin K => db'[k] = db[k],
         added \subseteq added', twice \subseteq twice',
         \A k \in Key : k \notin K =>
           \A n \in 1..Len(log) : Hits(log[n], k) /\ Done(n, k)' => Done(n, k)
  PROVE  /\ \A k \in Key : k \notin K => Valued(k)' /\ Present(k)' /\ Current(k)'
         /\ \A t \in Token : Lock(t) \notin K => AtLeast(t)' /\ AtMost(t)'
<1>1. \A k : Clean(k)' => Clean(k)
  BY DEF Clean, Sound, KeysOf
<1>2. ASSUME NEW k \in Key, k \notin K PROVE Valued(k)' /\ Present(k)' /\ Current(k)'
  BY <1>1, <1>2, RowKept DEF Rows
<1>3. ASSUME NEW t \in Token, Lock(t) \notin K PROVE AtLeast(t)' /\ AtMost(t)'
  <2>1. PICK k \in Key : k = Lock(t)
    BY Keys
  <2>2. AtLeast(t) /\ AtMost(t)
    BY DEF Amounts
  <2> QED
    BY <1>1, <1>3, <2>1, <2>2, AmountKept
<1> QED
  BY <1>2, <1>3

LEMMA LedgerKept ==
  ASSUME LogShape, Origin, InLedger, AmountInLedger, UNCHANGED chainVars
  PROVE  LogShape' /\ Origin' /\ InLedger' /\ AmountInLedger'
<1>1. log' = log /\ ledger' = ledger
  BY DEF chainVars
<1>2. \A n, k, f : /\ LastOf(n, k, f)' <=> LastOf(n, k, f)
                   /\ Value(n, k, f)' = Value(n, k, f)
                   /\ First(n, k)' <=> First(n, k)
  BY <1>1 DEF Says, Value, LastOf, First
<1>3. \A n, t : Adds(n, t)' = Adds(n, t)
  BY <1>1 DEF Adds
<1>4. LogShape'
  BY <1>1 DEF LogShape
<1>5. Origin'
  BY <1>1, <1>2 DEF Origin
<1>6. InLedger'
  BY <1>1, <1>2 DEF InLedger
<1>7. AmountInLedger'
  BY <1>1, <1>2, <1>3 DEF AmountInLedger
<1> QED
  BY <1>4, <1>5, <1>6, <1>7

\* Statement i of event n writes the rows of K: one, or none.
Writes(n, i, K) ==
  /\ \A k \in Key : k \notin K => db'[k] = db[k]
  /\ \A k \in K :
       LET s == For(log[n], k) IN
       /\ Hits(log[n], k) /\ On(log[n], k) = i /\ db'[k] = Effect(s, db[k])
       /\ added' = IF s.op = "add" THEN added \cup {n} ELSE added
       /\ twice' = IF s.op = "add" /\ n \in added THEN twice \cup {n} ELSE twice
  /\ added \subseteq added' /\ twice \subseteq twice' /\ history \subseteq history'
  /\ Statements(log[n])[i].op = "record" => n \in history'
  /\ \A k : Hits(log[n], k) /\ On(log[n], k) = i => k \in K

LEMMA WritesOne ==
  ASSUME TypeOK, LogShape, NEW n \in 1..Len(log), NEW i \in 1..Last(n), Execute(n, i)
  PROVE  \E K \in SUBSET Key : Writes(n, i, K)
<1>1. WellFormed(log[n])
  BY DEF LogShape
<1>2. CASE /\ Statements(log[n])[i].op = "record"
           /\ db' = db /\ history' = history \cup {n} /\ added' = added /\ twice' = twice
  <2>1. ASSUME NEW k, Hits(log[n], k), On(log[n], k) = i PROVE FALSE
    <3>1. HitsAt(log[n], On(log[n], k), k)
      BY <1>1, <2>1, Found
    <3> QED
      BY <1>2, <2>1, <3>1 DEF HitsAt
  <2>2. Writes(n, i, {})
    BY <1>2, <2>1 DEF Writes
  <2> QED
    BY <2>2
<1>3. ASSUME NEW k \in Key,
             LET s == For(log[n], k) IN
             /\ Hits(log[n], k) /\ On(log[n], k) = i /\ Statements(log[n])[i].op # "record"
             /\ db'[k] = Effect(s, db[k]) /\ \A j \in Key : j # k => db'[j] = db[j]
             /\ history' = history
             /\ added' = IF s.op = "add" THEN added \cup {n} ELSE added
             /\ twice' = IF s.op = "add" /\ n \in added THEN twice \cup {n} ELSE twice
      PROVE  \E K \in SUBSET Key : Writes(n, i, K)
  <2>1. ASSUME NEW j, Hits(log[n], j), On(log[n], j) = i PROVE j = k
    <3>1. HitsAt(log[n], i, j) /\ HitsAt(log[n], i, k)
      BY <1>1, <1>3, <2>1, Found
    <3> QED
      BY <3>1 DEF HitsAt
  <2>2. Writes(n, i, {k})
    BY <1>3, <2>1 DEF Writes
  <2> QED
    BY <2>2
<1>4. \/ /\ Statements(log[n])[i].op = "record"
         /\ db' = db /\ history' = history \cup {n} /\ added' = added /\ twice' = twice
      \/ \E k \in Key :
           LET s == For(log[n], k) IN
           /\ Hits(log[n], k) /\ On(log[n], k) = i /\ Statements(log[n])[i].op # "record"
           /\ db'[k] = Effect(s, db[k]) /\ \A j \in Key : j # k => db'[j] = db[j]
           /\ history' = history
           /\ added' = IF s.op = "add" THEN added \cup {n} ELSE added
           /\ twice' = IF s.op = "add" /\ n \in added THEN twice \cup {n} ELSE twice
  BY Stated
<1> QED
  BY <1>2, <1>3, <1>4

LEMMA HandleConverges ==
  ASSUME IInv, IInv', CInv, Handle
  PROVE  CInv'
<1>1. /\ LogShape /\ Origin /\ InLedger /\ AmountInLedger
      /\ Rows /\ Amounts /\ Recorded /\ OrphansKnown
  BY DEF CInv
<1>2. TypeOK /\ AtRest /\ db' \in Positions
  BY DEF IInv, TypeOK
<1>3. /\ next \in 1..Len(log) /\ step \in 1..Last(next) /\ Execute(next, step) /\ step' = step + 1
      /\ log' = log /\ ledger' = ledger /\ next' = next /\ orphan' = orphan /\ failed' = failed
      /\ orphaned' = orphaned /\ step \in Nat
  BY <1>2, EventsOfLog DEF Handle, Awaits, TypeOK, AtRest, chainVars
<1>4. LogShape' /\ Origin' /\ InLedger' /\ AmountInLedger'
  BY <1>1, <1>3, LedgerKept DEF chainVars
<1>5. PICK K \in SUBSET Key : Writes(next, step, K)
  BY <1>1, <1>2, <1>3, WritesOne
<1>6. \A k : Clean(k)' => Clean(k)
  BY <1>3 DEF Clean, Sound, KeysOf
<1>7. ASSUME NEW k \in Key, k \notin K, NEW n \in 1..Len(log), Hits(log[n], k), Done(n, k)'
      PROVE  Done(n, k)
  <2>1. n < next \/ (n = next /\ On(log[n], k) < step + 1)
    BY <1>3, <1>7 DEF Done
  <2>2. On(log[n], k) \in Nat
    BY <1>1, <1>7, Found DEF LogShape
  <2>3. n = next => On(log[n], k) # step
    BY <1>5, <1>7 DEF Writes
  <2> QED
    BY <1>3, <2>1, <2>2, <2>3 DEF Done
<1>8. /\ \A k \in Key : k \notin K => Valued(k)' /\ Present(k)' /\ Current(k)'
      /\ \A t \in Token : Lock(t) \notin K => AtLeast(t)' /\ AtMost(t)'
  BY <1>1, <1>2, <1>3, <1>5, <1>7, OthersKept DEF Writes
<1>9. ASSUME NEW k \in K PROVE Valued(k)' /\ Present(k)' /\ Current(k)'
  <2>1. k \in Key /\ Valued(k) /\ Present(k) /\ Current(k)
    BY <1>1, <1>5 DEF Rows
  <2> QED
    BY <1>1, <1>2, <1>3, <1>5, <1>6, <2>1, RowHandled DEF Writes
<1>10. ASSUME NEW t \in Token, Lock(t) \in K PROVE AtLeast(t)' /\ AtMost(t)'
  <2>1. PICK k \in Key : k = Lock(t) /\ k \in K
    BY <1>10, Keys
  <2>2. AtLeast(t) /\ AtMost(t)
    BY <1>1 DEF Amounts
  <2>3. AtLeast(t)'
    BY <1>1, <1>2, <1>3, <1>5, <1>6, <2>1, <2>2, AtLeastHandled DEF Writes
  <2>4. AtMost(t)'
    BY <1>1, <1>2, <1>3, <1>5, <1>6, <2>1, <2>2, AtMostHandled DEF Writes
  <2> QED
    BY <2>3, <2>4
<1>11. Rows' /\ Amounts'
  BY <1>8, <1>9, <1>10 DEF Rows, Amounts
<1>12. Recorded'
  <2>1. ASSUME failed = {}, NEW i \in 1..step, Statements(log[next])[i].op = "record"
        PROVE  next \in history'
    <3>1. CASE i = step
      BY <1>5, <2>1, <3>1 DEF Writes
    <3>2. CASE i # step
      <4>1. i \in 1..(step - 1) /\ next <= Len(log)
        BY <1>3, <2>1, <3>2
      <4> QED
        BY <1>1, <1>5, <2>1, <4>1 DEF Recorded, Writes
    <3> QED
      BY <3>1, <3>2
  <2>2. 1..(step' - 1) = 1..step
    BY <1>3
  <2>3. failed = {} => 1..(next - 1) \subseteq history'
    BY <1>1, <1>5 DEF Recorded, Writes
  <2> QED
    BY <1>3, <2>1, <2>2, <2>3 DEF Recorded
<1>13. OrphansKnown'
  BY <1>1, <1>3 DEF OrphansKnown
<1> QED
  BY <1>4, <1>11, <1>12, <1>13 DEF CInv

\* A step that leaves log, ledger and rows alone and does not make more done.
LEMMA QuietConverges ==
  ASSUME TypeOK, CInv, UNCHANGED <<chainVars, tableVars>>, Recorded', OrphansKnown',
         \A k : Clean(k)' => Clean(k),
         \A k \in Key : Clean(k)' =>
           \A n \in 1..Len(log) : Hits(log[n], k) /\ Done(n, k)' => Done(n, k)
  PROVE  CInv'
<1>1. /\ LogShape /\ Origin /\ InLedger /\ AmountInLedger /\ Rows /\ Amounts
  BY DEF CInv
<1>2. log' = log /\ db' = db /\ added' = added /\ twice' = twice /\ UNCHANGED chainVars
  BY DEF chainVars, tableVars
<1>3. LogShape' /\ Origin' /\ InLedger' /\ AmountInLedger'
  BY <1>1, <1>2, LedgerKept
<1>4. ASSUME NEW k \in Key PROVE Valued(k)' /\ Present(k)' /\ Current(k)'
  BY <1>1, <1>2, RowKept DEF Rows
<1>5. ASSUME NEW t \in Token PROVE AtLeast(t)' /\ AtMost(t)'
  <2>1. PICK k \in Key : k = Lock(t)
    BY Keys
  <2>2. AtLeast(t) /\ AtMost(t)
    BY <1>1 DEF Amounts
  <2> QED
    BY <1>1, <1>2, <2>1, <2>2, AmountKept
<1> QED
  BY <1>3, <1>4, <1>5 DEF CInv, Rows, Amounts

LEMMA FailConverges ==
  ASSUME IInv, IInv', CInv, Fail
  PROVE  CInv'
<1>1. /\ failed' # {} /\ UNCHANGED <<chainVars, tableVars>> /\ orphan' = orphan
      /\ orphaned' = orphaned
  BY DEF Fail
<1>2. \A k : ~Clean(k)'
  BY <1>1 DEF Clean
<1>3. Recorded'
  BY <1>1 DEF Recorded
<1>4. OrphansKnown'
  BY <1>1 DEF CInv, OrphansKnown, chainVars
<1> QED
  BY <1>1, <1>2, <1>3, <1>4, QuietConverges DEF IInv

LEMMA Shorter ==
  ASSUME NEW a \in Nat, NEW b \in Nat, a <= b
  PROVE  1..(a - 1) \subseteq 1..(b - 1)
  OBVIOUS

\* A message handed out from its start: nothing of it is done.
LEMMA AgainConverges ==
  ASSUME TypeOK, CInv, UNCHANGED <<chainVars, tableVars>>, failed' = failed, step' = 1,
         next' \in 1..next, orphaned \subseteq orphaned', OrphansKnown'
  PROVE  CInv'
<1>1. log' = log /\ history' = history /\ LogShape
  BY DEF chainVars, tableVars, CInv
<1>2. \A k : Clean(k)' => Clean(k)
  BY <1>1 DEF Clean, Sound, KeysOf
<1>3. ASSUME NEW k \in Key, NEW n \in 1..Len(log), Hits(log[n], k), Done(n, k)'
      PROVE  Done(n, k)
  <2>1. On(log[n], k) \in Nat \ {0}
    BY <1>1, <1>3, Found DEF LogShape
  <2>2. n < next'
    BY <1>1, <1>3, <2>1 DEF Done
  <2>3. n < next
    BY <2>2 DEF TypeOK
  <2> QED
    BY <2>3 DEF Done
<1>4. Recorded'
  <2>1. PICK a, b : a = next' /\ b = next /\ a \in Nat /\ b \in Nat /\ a <= b
    BY EventsOfLog DEF TypeOK
  <2>2. 1..(a - 1) \subseteq 1..(b - 1)
    BY <2>1, Shorter
  <2>3. 1..(step' - 1) = {}
    OBVIOUS
  <2> QED
    BY <1>1, <2>1, <2>2, <2>3 DEF CInv, Recorded
<1> QED
  BY <1>2, <1>3, <1>4, QuietConverges

LEMMA RedeliverConverges ==
  ASSUME IInv, CInv, Redeliver \/ Rewind \/ Reconnect
  PROVE  CInv'
<1>1. TypeOK /\ OrphansKnown /\ Len(log) \in Nat
  BY EventsOfLog DEF IInv, CInv
<1>2. next \in 1..next /\ (Rewind => 1..(next - 1) \subseteq 1..next)
  BY <1>1 DEF TypeOK
<1>3. /\ UNCHANGED <<chainVars, tableVars>> /\ failed' = failed /\ step' = 1
      /\ next' \in 1..next /\ orphaned \subseteq orphaned'
  BY <1>2 DEF Redeliver, Rewind, Reconnect
<1>4. OrphansKnown'
  <2>1. log' = log
    BY <1>3 DEF chainVars
  <2>2. CASE Redeliver \/ Rewind
    BY <1>1, <2>1, <2>2 DEF OrphansKnown, Redeliver, Rewind
  <2>3. CASE Reconnect
    <3>1. next \in 1..Len(log) /\ orphan'.n = next /\ orphaned' = orphaned \cup {next}
      BY <1>1, <2>3 DEF Reconnect, TypeOK
    <3> QED
      BY <1>1, <2>1, <3>1 DEF OrphansKnown
  <2> QED
    BY <2>2, <2>3
<1> QED
  BY <1>1, <1>3, <1>4, AgainConverges

LEMMA AckConverges ==
  ASSUME IInv, CInv, Ack
  PROVE  CInv'
<1>1. /\ next \in 1..Len(log) /\ step > Last(next) /\ step \in Nat /\ Last(next) \in Nat
      /\ next' = next + 1 /\ step' = 1 /\ UNCHANGED <<chainVars, tableVars>>
      /\ failed' = failed /\ orphan' = orphan /\ orphaned' = orphaned
      /\ TypeOK /\ LogShape /\ Recorded
  BY EventsOfLog DEF IInv, TypeOK, AtRest, Ack, CInv
<1>2. log' = log /\ history' = history
  BY <1>1 DEF chainVars, tableVars
<1>3. \A k : Clean(k)' => Clean(k)
  BY <1>1, <1>2 DEF Clean, Sound, KeysOf
<1>4. ASSUME NEW k \in Key, NEW n \in 1..Len(log), Hits(log[n], k), Done(n, k)'
      PROVE  Done(n, k)
  <2>1. On(log[n], k) \in 1..Last(n) /\ On(log[n], k) \in Nat \ {0}
    BY <1>1, <1>4, Found DEF LogShape, Last
  <2>2. n < next + 1
    BY <1>1, <1>2, <1>4, <2>1 DEF Done
  <2>3. n = next => On(log[n], k) < step
    BY <1>1, <2>1
  <2> QED
    BY <1>1, <2>2, <2>3 DEF Done
<1>5. Recorded'
  <2>1. ASSUME failed = {} PROVE next \in history
    <3>1. PICK i \in 1..Last(next) : Statements(log[next])[i].op = "record"
      BY <1>1, Shaped DEF LogShape, Shape, Last
    <3>2. i \in 1..(step - 1) /\ next <= Len(log)
      BY <1>1
    <3> QED
      BY <1>1, <2>1, <3>1, <3>2 DEF Recorded
  <2>2. 1..(next' - 1) = 1..(next - 1) \cup {next} /\ 1..(step' - 1) = {}
    BY <1>1
  <2> QED
    BY <1>1, <1>2, <2>1, <2>2 DEF Recorded
<1>6. OrphansKnown'
  BY <1>1, <1>2 DEF CInv, OrphansKnown
<1> QED
  BY <1>1, <1>3, <1>4, <1>5, <1>6, QuietConverges

\* What an orphaned call writes is not clean.
LEMMA OrphanConverges ==
  ASSUME IInv, IInv', CInv, OrphanStep
  PROVE  CInv'
<1>1. /\ LogShape /\ Origin /\ InLedger /\ AmountInLedger
      /\ Rows /\ Amounts /\ Recorded /\ OrphansKnown
  BY DEF CInv
<1>2. TypeOK /\ AtRest
  BY DEF IInv
<1>3. /\ orphan.n \in 1..Len(log) /\ orphan.n \in orphaned /\ orphan.step \in Nat \ {0}
      /\ log' = log /\ ledger' = ledger /\ next' = next /\ failed' = failed /\ orphaned' = orphaned
  BY <1>1, <1>2 DEF OrphanStep, AtRest, OrphansKnown, chainVars
<1>4. \A k : Clean(k)' <=> Clean(k)
  BY <1>3 DEF Clean, Sound, KeysOf
<1>5. CASE Awaits(orphan.n, orphan.step)
  <2>1. PICK n \in 1..Len(log), i \in 1..Last(orphan.n) : n = orphan.n /\ i = orphan.step
    BY <1>2, <1>3, <1>5, EventsOfLog DEF Awaits
  <2>2. Execute(n, i) /\ step' = step /\ orphan'.n = n
    BY <1>2, <1>3, <1>5, <2>1 DEF OrphanStep, AtRest
  <2>3. PICK K \in SUBSET Key : Writes(n, i, K)
    BY <1>1, <1>2, <2>1, <2>2, WritesOne
  <2>4. /\ \A k \in Key : k \notin K => Valued(k)' /\ Present(k)' /\ Current(k)'
        /\ \A t \in Token : Lock(t) \notin K => AtLeast(t)' /\ AtMost(t)'
    <3>1. \A m, k : Done(m, k)' <=> Done(m, k)
      BY <1>3, <2>2 DEF Done
    <3> QED
      BY <1>1, <1>2, <1>3, <2>3, <3>1, OthersKept DEF Writes
  <2>5. ASSUME NEW k \in K PROVE ~Clean(k)'
    <3>1. Hits(log[n], k)
      BY <2>3, <2>5 DEF Writes
    <3>2. PICK j \in 1..Len(Statements(log[n])) :
            Statements(log[n])[j].op # "record" /\ Statements(log[n])[j].key = k
      BY <3>1 DEF Hits, HitsAt
    <3>3. j \in DOMAIN Statements(log[n])
      BY <1>1, <3>2, Shaped DEF LogShape, Shape
    <3>4. k \in KeysOf(n)
      BY <3>2, <3>3 DEF KeysOf
    <3> QED
      BY <1>3, <1>4, <2>1, <3>4 DEF Clean, Sound
  <2>6. Rows'
    BY <2>4, <2>5 DEF Rows, Valued, Present, Current
  <2>7. ASSUME NEW t \in Token PROVE AtLeast(t)' /\ AtMost(t)'
    <3>1. CASE Lock(t) \in K
      <4>1. PICK k : k = Lock(t)
        OBVIOUS
      <4>2. ~Clean(k)'
        BY <2>5, <3>1, <4>1
      <4>3. ~Clean(Lock(t))'
        BY <4>1, <4>2 DEF Lock
      <4> QED
        BY <4>3 DEF AtLeast, AtMost
    <3>2. CASE Lock(t) \notin K
      BY <2>4, <3>2
    <3> QED
      BY <3>1, <3>2
  <2>8. Recorded'
    BY <1>1, <1>3, <2>2, <2>3 DEF Recorded, Writes
  <2>9. OrphansKnown'
    BY <1>1, <1>3, <2>1, <2>2 DEF OrphansKnown
  <2>10. LogShape' /\ Origin' /\ InLedger' /\ AmountInLedger'
    BY <1>1, <1>3, LedgerKept DEF chainVars
  <2> QED
    BY <2>6, <2>7, <2>8, <2>9, <2>10 DEF CInv, Amounts
<1>6. CASE ~Awaits(orphan.n, orphan.step)
  <2>1. orphan' = NoOrphan /\ step' = 1 /\ UNCHANGED <<chainVars, tableVars>>
    BY <1>6 DEF OrphanStep
  <2>2. OrphansKnown'
    BY <1>1, <1>3, <2>1 DEF OrphansKnown
  <2>3. next' \in 1..next
    BY <1>2, <1>3 DEF TypeOK
  <2> QED
    BY <1>2, <1>3, <2>1, <2>2, <2>3, AgainConverges
<1> QED
  BY <1>5, <1>6

-----------------------------------------------------------------------------
(* Convergence.                                                            *)

LEMMA CInit == Init => CInv
<1> SUFFICES ASSUME Init PROVE CInv
  OBVIOUS
<1>1. /\ Len(log) = 0 /\ 1..Len(log) = {} /\ next = 1 /\ step = 1 /\ orphaned = {}
      /\ orphan = NoOrphan
  BY DEF Init
<1>2. \A k \in Key : ledger[k] = NoRow /\ db[k] = NoRow
  BY DEF Init
<1>3. \A t \in Token : Lock(t) \in Key
  BY Keys
<1>4. LogShape /\ Origin
  BY <1>1 DEF LogShape, Origin
<1>5. InLedger /\ AmountInLedger
  BY <1>2, <1>3 DEF InLedger, AmountInLedger
<1>6. Rows /\ Amounts
  BY <1>1, <1>2, <1>3 DEF Rows, Valued, Present, Current, Amounts, AtLeast, AtMost
<1>7. Recorded /\ OrphansKnown
  BY <1>1 DEF Recorded, OrphansKnown
<1> QED
  BY <1>4, <1>5, <1>6, <1>7 DEF CInv

LEMMA CStutter ==
  ASSUME IInv, CInv, UNCHANGED vars
  PROVE  CInv'
<1>1. /\ UNCHANGED <<chainVars, tableVars>> /\ log' = log /\ history' = history /\ next' = next
      /\ step' = step /\ failed' = failed /\ orphan' = orphan /\ orphaned' = orphaned
  BY DEF vars, chainVars, tableVars
<1>2. \A k : Clean(k)' => Clean(k)
  BY <1>1 DEF Clean, Sound, KeysOf
<1>3. \A n, k : Done(n, k)' => Done(n, k)
  BY <1>1 DEF Done
<1>4. Recorded' /\ OrphansKnown'
  BY <1>1 DEF CInv, Recorded, OrphansKnown
<1> QED
  BY <1>1, <1>2, <1>3, <1>4, QuietConverges DEF IInv

LEMMA CStep == IInv /\ CInv /\ [Next]_vars => CInv'
<1> SUFFICES ASSUME IInv, CInv, [Next]_vars PROVE CInv'
  OBVIOUS
<1>1. IInv'
  BY StepInv
<1>2. CASE Next
  BY <1>1, <1>2, ChainConverges, HandleConverges, AckConverges, RedeliverConverges,
     FailConverges, OrphanConverges DEF Next
<1>3. CASE UNCHANGED vars
  BY <1>3, CStutter
<1> QED
  BY <1>2, <1>3

\* Once everything is handled, the rows no orphaned call wrote are the ledger's.
LEMMA RowsConverge ==
  ASSUME IInv, CInv, Settled, failed = {}, NEW k \in Key, Sound(k)
  PROVE  SameButAmount(db[k], ledger[k]) /\ (ledger[k] # NoRow => db[k] # NoRow)
<1>1. /\ TypeOK /\ InLedger /\ Origin /\ LogShape /\ Valued(k) /\ Present(k) /\ Current(k)
      /\ Clean(k)
  BY DEF IInv, CInv, Rows, Clean
<1>2. \A n \in 1..Len(log) : Done(n, k)
  BY EventsOfLog, <1>1 DEF Settled, Done, TypeOK
<1>3. CASE ledger[k] = NoRow
  <2>1. db[k] = NoRow
    BY <1>1, <1>3, ValuedOnce DEF Origin
  <2> QED
    BY <1>3, <2>1 DEF SameButAmount
<1>4. CASE ledger[k] # NoRow
  <2>1. db[k] # NoRow
    BY <1>1, <1>2, <1>4, SaidOnce DEF Present
  <2>2. DOMAIN ledger[k] = Columns(k)
    BY <1>1, <1>4, RowsTyped, RowColumns DEF TypeOK
  <2>3. ASSUME NEW f \in DOMAIN ledger[k] \ {"amount"} PROVE db[k][f] = ledger[k][f]
    <3>1. f \in Set(k)
      BY <2>2 DEF Set
    <3>2. PICK n \in 1..Len(log) : LastOf(n, k, f) /\ Value(n, k, f) = ledger[k][f]
      BY <1>1, <1>4, <3>1 DEF InLedger
    <3> QED
      BY <1>1, <1>2, <3>1, <3>2 DEF Current
  <2> QED
    BY <1>4, <2>1, <2>3 DEF SameButAmount
<1> QED
  BY <1>3, <1>4

LEMMA AmountsConverge ==
  ASSUME IInv, CInv, Settled, failed = {}, NEW t \in Token, Sound(Lock(t))
  PROVE  OnlyOver(t)
<1>1. PICK k \in Key : k = Lock(t)
  BY Keys
<1>2. /\ TypeOK /\ AmountInLedger /\ LogShape /\ AtLeast(t) /\ AtMost(t) /\ Clean(k)
  BY <1>1 DEF IInv, CInv, Amounts, Clean
<1>3. \A n \in 1..Len(log) : Done(n, k)
  BY EventsOfLog, <1>2 DEF Settled, Done, TypeOK
<1> SUFFICES ASSUME ledger[k] # NoRow
             PROVE  /\ db[k].amount >= ledger[k].amount
                    /\ (\A n \in twice : log[n].token # t) => db[k].amount = ledger[k].amount
  BY <1>1 DEF OnlyOver
<1>4. db[k] # NoRow
  BY <1>1, RowsConverge
<1>5. PICK n \in 1..Len(log) :
        LastOf(n, k, "amount") /\ ledger[k].amount = Value(n, k, "amount") + Cardinality(Adds(n, t))
  BY <1>1, <1>2 DEF AmountInLedger
<1>6. Added(n, t) = Adds(n, t)
  <2>1. \A m \in Adds(n, t) : m \in 1..Len(log)
    BY <1>2, AddsFinite
  <2> QED
    BY <1>1, <1>3, <2>1 DEF Added
<1>7. PICK v \in Nat, c \in Nat, b \in Nat, d \in Nat :
        /\ v = Value(n, k, "amount") /\ c = Cardinality(Adds(n, t)) /\ d = db[k].amount
        /\ b = Cardinality(Adds(n, t) \cap added) /\ b <= c
  <2>1. Value(n, k, "amount") \in Nat
    BY <1>1, <1>2, <1>5, AmountValue
  <2>2. db[k].amount \in Nat
    BY <1>1, <1>2, <1>4, Placed DEF TypeOK, LockRow
  <2>3. PICK A, B : A = Adds(n, t) /\ B = Adds(n, t) \cap added
    OBVIOUS
  <2>4. IsFiniteSet(A) /\ B \subseteq A
    BY <1>2, <2>3, AddsFinite
  <2>5. Cardinality(A) \in Nat /\ Cardinality(B) \in Nat /\ Cardinality(B) <= Cardinality(A)
    BY <2>4, FS_Subset, FS_CardinalityType
  <2> QED
    BY <2>1, <2>2, <2>3, <2>5
<1>8. d >= v + c
  BY <1>1, <1>2, <1>3, <1>4, <1>5, <1>6, <1>7 DEF AtLeast
<1>9. ASSUME \A m \in twice : log[m].token # t PROVE d <= v + b
  BY <1>1, <1>2, <1>3, <1>4, <1>5, <1>7, <1>9 DEF AtMost
<1> QED
  BY <1>5, <1>7, <1>8, <1>9

\* In every reachable state in which the consumer has handled the whole log and
\* no statement has failed: each row no orphaned call wrote is what the contracts
\* hold, but for an amount that a deposit handled twice made too high; and no
\* event is missing from the history.
THEOREM ConvergesHolds == Spec => []Converges
<1>1. ASSUME IInv, CInv PROVE Converges
  <2>1. ASSUME Settled, failed = {}
        PROVE  history = 1..Len(log)
    <3>1. Len(log) \in Nat /\ next \in 1..(Len(log) + 1) /\ history \subseteq 1..Len(log)
      BY EventsOfLog, <1>1 DEF IInv, TypeOK
    <3>2. next - 1 = Len(log)
      BY <2>1, <3>1 DEF Settled
    <3>3. 1..(next - 1) \subseteq history
      BY <1>1, <2>1 DEF CInv, Recorded
    <3> QED
      BY <3>1, <3>2, <3>3
  <2>2. ASSUME Settled, failed = {}, NEW k \in Key, Sound(k)
        PROVE  SameButAmount(db[k], ledger[k])
    BY <1>1, <2>2, RowsConverge
  <2>3. ASSUME Settled, failed = {}, NEW t \in Token, Sound(Lock(t))
        PROVE  OnlyOver(t)
    BY <1>1, <2>3, AmountsConverge
  <2> QED
    BY <2>1, <2>2, <2>3 DEF Converges
<1>2. IInv /\ CInv => Converges
  BY <1>1
<1> QED
  BY InitInv, StepInv, CInit, CStep, <1>2, PTL DEF Spec

-----------------------------------------------------------------------------
(* The total of the active positions.  While nothing is disturbed but by   *)
(* redeliveries, the table is the ledger as it was before the event in     *)
(* hand, with the first statements of its handler applied; and every one   *)
(* of those ledgers is covered by the deposits made before it.             *)

\* What lock t counts for in positions p, and what all of them do.
Counts(p, t) == IF p[Lock(t)] # NoRow /\ p[Lock(t)].active THEN p[Lock(t)].amount ELSE 0
CountAll(p) == Total([t \in Token |-> Counts(p, t)], Token)

Worth(e) == IF e.type \in {"create", "increase"} THEN e.value ELSE 0
WorthOf(l, S) == Total([n \in S |-> Worth(l[n])], S)

\* p holds the ledger after each number of events.
Past(p) ==
  /\ DOMAIN p = 0..Len(log) /\ \A n \in 0..Len(log) : p[n] \in Positions
  /\ p[Len(log)] = ledger
  /\ \A n \in 1..Len(log) :
       /\ \A k \in Key : p[n][k] = IF Hits(log[n], k) THEN Effect(For(log[n], k), p[n - 1][k])
                                   ELSE p[n - 1][k]
       /\ \A t \in Token : t # log[n].token => Counts(p[n - 1], t) <= Counts(p[n], t)
  /\ \A n \in 0..Len(log) : CountAll(p[n]) <= WorthOf(log, 1..n)

\* The first s statements of the event in hand have run, maybe before the
\* message was delivered again.
Ran(s, k) == next <= Len(log) /\ Hits(log[next], k) /\ On(log[next], k) <= s

Applied(p, s) ==
  /\ s \in Nat /\ step - 1 <= s
  /\ next = Len(log) + 1 => s = 0
  /\ \A k \in Key : db[k] = IF Ran(s, k) THEN p[next][k] ELSE p[next - 1][k]
  /\ next <= Len(log) => \A i \in 1..Last(next) : i <= s =>
       /\ Statements(log[next])[i].op = "record" => next \in history
       /\ Statements(log[next])[i].op = "add" => next \in added

Undisturbed == failed = {} /\ twice = {} /\ orphaned = {} /\ ~rewound

PInv == \E p : Past(p) /\ (Undisturbed => \E s : Applied(p, s))

\* The lock an event names is the first it writes, and a deposit is recorded
\* before that.
LockFirst(e) ==
  \A t \in Token : Hits(e, Lock(t)) =>
    /\ Hits(e, Lock(e.token)) /\ On(e, Lock(e.token)) <= On(e, Lock(t))
    /\ e.type \in {"create", "increase"} =>
         \E i \in 1..Len(Statements(e)) :
           i < On(e, Lock(t)) /\ Statements(e)[i].op = "record"

LEMMA FirstOfTwo ==
  ASSUME NEW e \in Event, NEW s, s.op # "record", s.key = Lock(e.token),
         Statements(e) = << Record, s >>
  PROVE  LockFirst(e)
<1>1. /\ Len(Statements(e)) = 2 /\ Statements(e)[1].op = "record" /\ Statements(e)[2] = s
      /\ \A i \in 1..2 : \A k : HitsAt(e, i, k) <=> i = 2 /\ k = s.key
  BY RecordStatement DEF HitsAt
<1>2. On(e, Lock(e.token)) = 2
  BY <1>1 DEF On
<1>3. \A t \in Token : Hits(e, Lock(t)) => Lock(t) = Lock(e.token)
  BY <1>1 DEF Hits
<1>4. Hits(e, Lock(e.token))
  BY <1>1 DEF Hits
<1> QED
  BY <1>1, <1>2, <1>3, <1>4 DEF LockFirst

LEMMA VotesHitNoLock ==
  ASSUME NEW e, NEW s, s.op # "record", NEW u, s.key = Vote(u),
         Statements(e) = << s, Record >>
  PROVE  LockFirst(e)
<1>1. /\ Len(Statements(e)) = 2
      /\ \A i \in 1..2 : \A k : HitsAt(e, i, k) <=> i = 1 /\ k = s.key
  BY RecordStatement DEF HitsAt
<1>2. \A t \in Token : ~Hits(e, Lock(t))
  BY <1>1, Keys DEF Hits
<1> QED
  BY <1>2 DEF LockFirst

LEMMA LockIsFirst ==
  ASSUME NEW e, WellFormed(e)
  PROVE  LockFirst(e)
<1>0. e \in Event /\ e.token \in Token
  BY EventFields DEF WellFormed
<1>1. CASE e.type = "create"
  <2>1. Statements(e) = << Record, Insert(Lock(e.token), NewLock(e.value, e.end)) >>
    BY <1>1 DEF Statements, DepositStatements
  <2> QED
    BY <1>0, <1>1, <2>1, EventFields, ProperInsert, FirstOfTwo
<1>2. CASE e.type = "increase"
  <2>1. Statements(e) = << Record, Add(Lock(e.token), 1) >>
    BY <1>2 DEF Statements, DepositStatements, WellFormed
  <2> QED
    BY <1>0, <2>1, ProperAdd, FirstOfTwo
<1>3. CASE e.type = "extend"
  <2>1. Statements(e) = << Record, Update(Lock(e.token), [end |-> e.end]) >>
    BY <1>3 DEF Statements, DepositStatements
  <2> QED
    BY <1>0, <2>1, ProperLockUpdate, FirstOfTwo
<1>4. CASE e.type = "withdraw"
  <2>1. Statements(e) = << Record, Update(Lock(e.token), Closed) >>
    BY <1>4 DEF Statements, WithdrawStatements
  <2> QED
    BY <1>0, <2>1, ProperLockUpdate, FirstOfTwo
<1>5. CASE e.type = "lockPermanent"
  <2>1. Statements(e) =
          << Record, Update(Lock(e.token), [permanent |-> TRUE, end |-> 0]) >>
    BY <1>5 DEF Statements, LockPermanentStatements
  <2> QED
    BY <1>0, <2>1, ProperLockUpdate, FirstOfTwo
<1>6. CASE e.type = "unlockPermanent"
  <2>1. Statements(e) = << Record, Update(Lock(e.token), [permanent |-> FALSE]) >>
    BY <1>6 DEF Statements, UnlockPermanentStatements
  <2> QED
    BY <1>0, <2>1, ProperLockUpdate, FirstOfTwo
<1>7. CASE e.type = "merge"
  <2>1. PICK a : a = Update(Lock(e.token), Closed)
    OBVIOUS
  <2>2. PICK b : b = Update(Lock(e.to), [amount |-> e.amount, end |-> e.end])
    OBVIOUS
  <2>3. Statements(e) = << Record, a, b >>
    <3>1. Statements(e) = << Record >> \o ClosesThenRaises(e)
      BY <1>7 DEF Statements, MergeStatements
    <3> QED
      BY <2>1, <2>2, <3>1, OneThenTwo DEF ClosesThenRaises
  <2>4. a.op = "update" /\ a.key = Lock(e.token) /\ b.op = "update"
    BY <1>0, <1>7, <2>1, <2>2, EventFields, ProperLockUpdate
  <2>5. HitsAt(e, 2, Lock(e.token)) /\ \A k : ~HitsAt(e, 1, k)
    BY <2>3, <2>4, RecordStatement DEF HitsAt
  <2>6. Len(Statements(e)) = 3
    BY <2>3
  <2>7. Hits(e, Lock(e.token))
    BY <2>5, <2>6 DEF Hits
  <2>8. On(e, Lock(e.token)) = 2
    BY <2>5, <2>6, <2>7, Found
  <2>9. \A k : Hits(e, k) => On(e, k) >= 2
    BY <2>5, <2>6, Found
  <2> QED
    BY <1>7, <2>7, <2>8, <2>9 DEF LockFirst
<1>8. CASE e.type = "split"
  <2>1. PICK a : a = Update(Lock(e.token), Closed)
    OBVIOUS
  <2>2. PICK b : b = UpsertLock(e.parts[1], e.amounts[1], e.end)
    OBVIOUS
  <2>3. PICK c : c = UpsertLock(e.parts[2], e.amounts[2], e.end)
    OBVIOUS
  <2>4. Statements(e) = << Record, a, b, c >>
    BY <1>8, <2>1, <2>2, <2>3 DEF Statements, SplitStatements
  <2>5. a.op = "update" /\ a.key = Lock(e.token)
    BY <1>0, <2>1, ProperLockUpdate
  <2>6. HitsAt(e, 2, Lock(e.token)) /\ \A k : ~HitsAt(e, 1, k)
    BY <2>4, <2>5, RecordStatement DEF HitsAt
  <2>7. Len(Statements(e)) = 4
    BY <2>4
  <2>8. Hits(e, Lock(e.token))
    BY <2>6, <2>7 DEF Hits
  <2>9. On(e, Lock(e.token)) = 2
    BY <2>6, <2>7, <2>8, Found
  <2>10. \A k : Hits(e, k) => On(e, k) >= 2
    BY <2>6, <2>7, Found
  <2> QED
    BY <1>8, <2>8, <2>9, <2>10 DEF LockFirst
<1>9. CASE e.type = "voted"
  <2>1. PICK r : r = [weight |-> e.weight, active |-> TRUE]
    OBVIOUS
  <2>2. Statements(e) = << Upsert(Vote(e.token), r, r), Record >>
    BY <1>9, <2>1 DEF Statements, VotedStatements
  <2>3. r \in VoteRow
    BY <1>0, <1>9, <2>1, EventFields DEF VoteRow
  <2> QED
    BY <1>0, <2>2, <2>3, ProperVote, VotesHitNoLock
<1>10. CASE e.type = "abstained"
  <2>1. PICK r : r = [weight |-> 0, active |-> FALSE]
    OBVIOUS
  <2>2. Statements(e) = << Update(Vote(e.token), r), Record >>
    BY <1>10, <2>1 DEF Statements, AbstainedStatements
  <2>3. r \in VoteRow
    BY <2>1 DEF VoteRow
  <2> QED
    BY <1>0, <2>2, <2>3, ProperVote, VotesHitNoLock
<1> QED
  BY <1>0, <1>1, <1>2, <1>3, <1>4, <1>5, <1>6, <1>7, <1>8, <1>9, <1>10, EventFields

\* A statement that sets may run twice.
LEMMA EffectTwice ==
  ASSUME NEW s, Proper(s), s.op # "add", NEW r \in RowOf(s.key) \cup {NoRow}
  PROVE  Effect(s, Effect(s, r)) = Effect(s, r)
<1> DEFINE k == s.key
<1>1. k \in Key /\ NoRow \notin RowOf(k) /\ \A q \in RowOf(k) : DOMAIN q = Columns(k)
  BY RowColumns DEF Proper
<1>2. CASE s.op = "insert"
  BY <1>1, <1>2 DEF Effect, Opens, Proper
<1>3. CASE s.op = "update"
  <2>1. CASE r = NoRow
    BY <1>3, <2>1 DEF Effect
  <2>2. CASE r # NoRow
    <3>1. r \in RowOf(k) /\ With(s.change, r) \in RowOf(k)
      BY <1>3, <2>2 DEF Proper
    <3>2. Effect(s, r) = With(s.change, r) /\ Effect(s, With(s.change, r)) = With(s.change, With(s.change, r))
      BY <1>1, <1>3, <2>2, <3>1 DEF Effect
    <3>3. With(s.change, With(s.change, r)) = With(s.change, r)
      BY DEF With
    <3> QED
      BY <3>2, <3>3
  <2> QED
    BY <2>1, <2>2
<1>4. CASE s.op = "upsert"
  <2>1. s.row \in RowOf(k) /\ \A f \in DOMAIN s.change : s.change[f] = s.row[f]
    BY <1>4 DEF Proper, Opens
  <2>2. CASE r = NoRow
    <3>1. Effect(s, r) = s.row /\ Effect(s, s.row) = With(s.change, s.row)
      BY <1>1, <1>4, <2>1, <2>2 DEF Effect
    <3>2. s.row = [f \in DOMAIN s.row |-> s.row[f]]
      <4>1. CASE k[1] = "lock"
        BY <2>1, <4>1 DEF RowOf, LockRow
      <4>2. CASE k[1] # "lock"
        BY <2>1, <4>2 DEF RowOf, VoteRow
      <4> QED
        BY <4>1, <4>2
    <3>3. With(s.change, s.row) = s.row
      BY <2>1, <3>2 DEF With
    <3> QED
      BY <3>1, <3>3
  <2>3. CASE r # NoRow
    <3>1. r \in RowOf(k) /\ With(s.change, r) \in RowOf(k)
      BY <1>4, <2>3 DEF Proper
    <3>2. Effect(s, r) = With(s.change, r) /\ Effect(s, With(s.change, r)) = With(s.change, With(s.change, r))
      BY <1>1, <1>4, <2>3, <3>1 DEF Effect
    <3>3. With(s.change, With(s.change, r)) = With(s.change, r)
      BY DEF With
    <3> QED
      BY <3>2, <3>3
  <2> QED
    BY <2>2, <2>3
<1> QED
  BY <1>2, <1>3, <1>4 DEF Proper

-----------------------------------------------------------------------------
(* What an event adds to the total.                                        *)

LEMMA CountsTyped ==
  ASSUME NEW p \in Positions
  PROVE  IsFiniteSet(Token) /\ \A t \in Token : Counts(p, t) \in Nat
<1>1. IsFiniteSet(Token)
  BY FS_Interval, VeLocksAssumption DEF Token
<1>2. \A t \in Token : p[Lock(t)] \in LockRow \cup {NoRow}
  BY Placed
<1> QED
  BY <1>1, <1>2 DEF Counts, LockRow

LEMMA CountAllType ==
  ASSUME NEW p \in Positions
  PROVE  CountAll(p) \in Nat
<1> DEFINE f == [t \in Token |-> Counts(p, t)]
<1>1. IsFiniteSet(Token) /\ \A t \in Token : f[t] \in Nat
  BY CountsTyped
<1>2. Total(f, Token) \in Nat
  <2> HIDE DEF f
  <2> QED
    BY <1>1, TotalType
<1> QED
  BY <1>2 DEF CountAll

LEMMA CountsLess ==
  ASSUME NEW p \in Positions, NEW q \in Positions, \A t \in Token : Counts(p, t) <= Counts(q, t)
  PROVE  CountAll(p) <= CountAll(q)
<1> DEFINE f == [t \in Token |-> Counts(p, t)]
           g == [t \in Token |-> Counts(q, t)]
<1>1. IsFiniteSet(Token) /\ \A t \in Token : f[t] \in Nat /\ g[t] \in Nat /\ f[t] <= g[t]
  BY CountsTyped
<1>2. Total(f, Token) <= Total(g, Token)
  <2> HIDE DEF f, g
  <2> QED
    BY <1>1, TotalMonotonic
<1> QED
  BY <1>2 DEF CountAll

LEMMA OneCountChanges ==
  ASSUME NEW p \in Positions, NEW q \in Positions, NEW t \in Token,
         \A u \in Token : u # t => Counts(q, u) = Counts(p, u)
  PROVE  CountAll(q) + Counts(p, t) = CountAll(p) + Counts(q, t)
<1> DEFINE f == [u \in Token |-> Counts(p, u)]
           g == [u \in Token |-> Counts(q, u)]
<1>1. IsFiniteSet(Token) /\ \A u \in Token : f[u] \in Nat /\ g[u] \in Nat
  BY CountsTyped
<1>2. \A u \in Token \ {t} : f[u] = g[u]
  OBVIOUS
<1>3. f[t] = Counts(p, t) /\ g[t] = Counts(q, t)
  OBVIOUS
<1>4. Total(g, Token) + f[t] = Total(f, Token) + g[t]
  <2> HIDE DEF f, g
  <2> QED
    BY <1>1, <1>2, TotalChanges
<1> QED
  BY <1>3, <1>4 DEF CountAll

\* The event e has been emitted, and adds no more than it is worth.
Moves(e) ==
  /\ log' = Append(log, e) /\ Worth(e) \in Nat
  /\ \A t \in Token : t # e.token => Counts(ledger, t) <= Counts(ledger', t)
  /\ CountAll(ledger') <= CountAll(ledger) + Worth(e)

LEMMA OneLockMoves ==
  ASSUME ledger \in Positions, NEW t \in Token, NEW r \in LockRow, NEW e, e.token = t,
         Emit(e, [ledger EXCEPT ![Lock(t)] = r]), Worth(e) \in Nat,
         r.active => r.amount <= Counts(ledger, t) + Worth(e)
  PROVE  Moves(e)
<1> DEFINE q == [ledger EXCEPT ![Lock(t)] = r]
<1>1. /\ q \in Positions /\ q[Lock(t)] = r
      /\ \A u \in Token : u # t => q[Lock(u)] = ledger[Lock(u)]
  BY Placed
<1>2. log' = Append(log, e) /\ ledger' = q
  BY DEF Emit
<1> HIDE DEF q
<1>3. \A u \in Token : u # t => Counts(q, u) = Counts(ledger, u)
  BY <1>1 DEF Counts
<1>4. Counts(q, t) \in Nat /\ Counts(ledger, t) \in Nat /\ \A u \in Token : Counts(ledger, u) \in Nat
  BY <1>1, CountsTyped
<1>5. Counts(q, t) <= Counts(ledger, t) + Worth(e)
  BY <1>1, <1>4, NoRowAssumption DEF Counts
<1>6. CountAll(q) + Counts(ledger, t) = CountAll(ledger) + Counts(q, t)
  BY <1>1, <1>3, OneCountChanges
<1>7. CountAll(q) \in Nat /\ CountAll(ledger) \in Nat
  BY <1>1, CountAllType
<1>8. CountAll(q) <= CountAll(ledger) + Worth(e)
  BY <1>4, <1>5, <1>6, <1>7
<1>9. \A u \in Token : u # t => Counts(ledger, u) <= Counts(q, u)
  BY <1>3, <1>4
<1> QED
  BY <1>2, <1>8, <1>9 DEF Moves

LEMMA VoteMoves ==
  ASSUME ledger \in Positions, NEW t \in Token, NEW r \in VoteRow, NEW e, Worth(e) = 0,
         Emit(e, [ledger EXCEPT ![Vote(t)] = r])
  PROVE  Moves(e)
<1> DEFINE q == [ledger EXCEPT ![Vote(t)] = r]
<1>1. q \in Positions /\ \A u \in Token : q[Lock(u)] = ledger[Lock(u)]
  BY Placed
<1>2. log' = Append(log, e) /\ ledger' = q
  BY DEF Emit
<1> HIDE DEF q
<1>3. \A u \in Token : Counts(q, u) = Counts(ledger, u) /\ Counts(q, u) \in Nat
  BY <1>1, CountsTyped DEF Counts
<1>4. \A u \in Token : Counts(q, u) <= Counts(ledger, u) /\ Counts(ledger, u) <= Counts(q, u)
  BY <1>3
<1>5. CountAll(q) <= CountAll(ledger) /\ CountAll(q) \in Nat /\ CountAll(ledger) \in Nat
  BY <1>1, <1>4, CountsLess, CountAllType
<1> QED
  BY <1>2, <1>4, <1>5 DEF Moves

LEMMA CreateMoves == ASSUME IInv, Create PROVE \E e : Moves(e)
<1> DEFINE e == [type |-> "create", token |-> Fresh, value |-> 2, end |-> 1]
<1>1. NewLock(2, 1) \in LockRow /\ NewLock(2, 1).amount = 2
  BY DEF NewLock, LockRow
<1>2. Worth(e) = 2 /\ e.token = Fresh /\ Fresh \in Token /\ ledger \in Positions
  BY DEF Worth, Create, IInv, TypeOK
<1>3. Emit(e, [ledger EXCEPT ![Lock(Fresh)] = NewLock(2, 1)])
  BY DEF Create
<1>4. Counts(ledger, Fresh) \in Nat
  BY <1>2, CountsTyped
<1> HIDE DEF e
<1>5. 2 <= Counts(ledger, Fresh) + Worth(e) /\ Worth(e) \in Nat
  BY <1>2, <1>4
<1> QED
  BY <1>1, <1>2, <1>3, <1>5, OneLockMoves

LEMMA IncreaseMoves == ASSUME IInv, NEW t \in Token, Increase(t) PROVE \E e : Moves(e)
<1> DEFINE e == [type |-> "increase", token |-> t, value |-> 1]
           o == ledger[Lock(t)]
           r == [o EXCEPT !.amount = @ + 1]
<1>1. o \in LockRow /\ ledger \in Positions /\ o.active /\ o # NoRow
  BY LedgerRows DEF Increase, IInv, TypeOK, Active
<1>2. r \in LockRow /\ r.amount = o.amount + 1 /\ Counts(ledger, t) = o.amount
  BY <1>1 DEF LockRow, Counts
<1>3. Worth(e) = 1 /\ e.token = t
  BY DEF Worth
<1>4. Emit(e, [ledger EXCEPT ![Lock(t)] = r])
  BY DEF Increase
<1>5. o.amount \in Nat
  BY <1>1 DEF LockRow
<1> HIDE DEF e, r, o
<1>6. r.amount <= Counts(ledger, t) + Worth(e) /\ Worth(e) \in Nat
  BY <1>2, <1>3, <1>5
<1> QED
  BY <1>1, <1>2, <1>3, <1>4, <1>6, OneLockMoves

\* A change of the other columns of a lock.
LEMMA SameAmountMoves ==
  ASSUME IInv, NEW t \in Token, Active(t), NEW e, e.token = t, Worth(e) = 0,
         NEW r \in LockRow, r.active => r.amount = ledger[Lock(t)].amount,
         Emit(e, [ledger EXCEPT ![Lock(t)] = r])
  PROVE  Moves(e)
<1>1. /\ ledger \in Positions /\ ledger[Lock(t)] \in LockRow
      /\ ledger[Lock(t)] # NoRow /\ ledger[Lock(t)].active
  BY LedgerRows DEF IInv, TypeOK, Active
<1>2. Counts(ledger, t) = ledger[Lock(t)].amount /\ Counts(ledger, t) \in Nat
  BY <1>1, CountsTyped DEF Counts
<1>3. r.active => r.amount <= Counts(ledger, t) + Worth(e)
  BY <1>2
<1> QED
  BY <1>1, <1>3, OneLockMoves

LEMMA ExtendMoves == ASSUME IInv, NEW t \in Token, Extend(t) PROVE \E e : Moves(e)
<1> DEFINE e == [type |-> "extend", token |-> t, end |-> 2]
           r == [ledger[Lock(t)] EXCEPT !.end = 2]
<1>1. Active(t) /\ ledger[Lock(t)] \in LockRow
  BY LedgerRows DEF Extend, IInv
<1>2. r \in LockRow /\ r.amount = ledger[Lock(t)].amount
  BY <1>1 DEF LockRow
<1>3. Worth(e) = 0 /\ e.token = t /\ Emit(e, [ledger EXCEPT ![Lock(t)] = r])
  BY DEF Worth, Extend
<1> HIDE DEF e, r
<1> QED
  BY <1>1, <1>2, <1>3, SameAmountMoves

LEMMA WithdrawMoves == ASSUME IInv, NEW t \in Token, Withdraw(t) PROVE \E e : Moves(e)
<1> DEFINE e == [type |-> "withdraw", token |-> t]
           r == With(Closed, ledger[Lock(t)])
<1>1. Active(t) /\ ledger[Lock(t)] \in LockRow
  BY LedgerRows DEF Withdraw, IInv
<1>2. r \in LockRow /\ r.active = FALSE
  BY <1>1, Changes DEF Sets
<1>3. Worth(e) = 0 /\ e.token = t /\ Emit(e, [ledger EXCEPT ![Lock(t)] = r])
  BY DEF Worth, Withdraw
<1> HIDE DEF e, r
<1> QED
  BY <1>1, <1>2, <1>3, SameAmountMoves

LEMMA LockPermanentMoves == ASSUME IInv, NEW t \in Token, LockPermanent(t) PROVE \E e : Moves(e)
<1> DEFINE e == [type |-> "lockPermanent", token |-> t]
           r == With([permanent |-> TRUE, end |-> 0], ledger[Lock(t)])
<1>1. Active(t) /\ ledger[Lock(t)] \in LockRow
  BY LedgerRows DEF LockPermanent, IInv
<1>2. r \in LockRow /\ r.amount = ledger[Lock(t)].amount
  BY <1>1, Changes DEF Keeps, With, LockRow
<1>3. Worth(e) = 0 /\ e.token = t /\ Emit(e, [ledger EXCEPT ![Lock(t)] = r])
  BY DEF Worth, LockPermanent
<1> HIDE DEF e, r
<1> QED
  BY <1>1, <1>2, <1>3, SameAmountMoves

LEMMA UnlockPermanentMoves ==
  ASSUME IInv, NEW t \in Token, UnlockPermanent(t)
  PROVE  \E e : Moves(e)
<1> DEFINE e == [type |-> "unlockPermanent", token |-> t]
           r == [ledger[Lock(t)] EXCEPT !.permanent = FALSE]
<1>1. Active(t) /\ ledger[Lock(t)] \in LockRow
  BY LedgerRows DEF UnlockPermanent, IInv
<1>2. r \in LockRow /\ r.amount = ledger[Lock(t)].amount
  BY <1>1 DEF LockRow
<1>3. Worth(e) = 0 /\ e.token = t /\ Emit(e, [ledger EXCEPT ![Lock(t)] = r])
  BY DEF Worth, UnlockPermanent
<1> HIDE DEF e, r
<1> QED
  BY <1>1, <1>2, <1>3, SameAmountMoves

LEMMA CastVoteMoves == ASSUME IInv, NEW t \in Token, CastVote(t) PROVE \E e : Moves(e)
<1> DEFINE w == ledger[Lock(t)].amount
           e == [type |-> "voted", token |-> t, weight |-> w]
           r == [weight |-> w, active |-> TRUE]
<1>1. ledger[Lock(t)] \in LockRow /\ ledger \in Positions
  BY LedgerRows DEF CastVote, IInv, TypeOK
<1>2. r \in VoteRow
  BY <1>1 DEF LockRow, VoteRow
<1>3. Worth(e) = 0 /\ Emit(e, [ledger EXCEPT ![Vote(t)] = r])
  BY DEF Worth, CastVote
<1> HIDE DEF e, r
<1> QED
  BY <1>1, <1>2, <1>3, VoteMoves

LEMMA AbstainMoves == ASSUME IInv, NEW t \in Token, Abstain(t) PROVE \E e : Moves(e)
<1> DEFINE e == [type |-> "abstained", token |-> t]
           r == [weight |-> 0, active |-> FALSE]
<1>1. r \in VoteRow /\ ledger \in Positions
  BY DEF VoteRow, IInv, TypeOK
<1>2. Worth(e) = 0 /\ Emit(e, [ledger EXCEPT ![Vote(t)] = r])
  BY DEF Worth, Abstain
<1> HIDE DEF e, r
<1> QED
  BY <1>1, <1>2, VoteMoves

\* The amount of the lock that is closed appears in the one that absorbs it.
LEMMA MergeMoves ==
  ASSUME IInv, NEW from \in Token, NEW to \in Token, Merge(from, to)
  PROVE  \E e : Moves(e)
<1> DEFINE a == ledger[Lock(from)].amount + ledger[Lock(to)].amount
           n == IF Permanent(to) THEN 0
                ELSE Larger(ledger[Lock(from)].end, ledger[Lock(to)].end)
           e == [type |-> "merge", token |-> from, to |-> to, amount |-> a, end |-> n]
           x == With(Closed, ledger[Lock(from)])
           y == With([amount |-> a, end |-> n], ledger[Lock(to)])
           l1 == [ledger EXCEPT ![Lock(from)] = x]
           l == [l1 EXCEPT ![Lock(to)] = y]
<1>1. /\ from # to /\ ledger \in Positions
      /\ ledger[Lock(from)] \in LockRow /\ ledger[Lock(to)] \in LockRow
      /\ ledger[Lock(from)].active /\ ledger[Lock(to)].active
      /\ ledger[Lock(from)] # NoRow /\ ledger[Lock(to)] # NoRow
  BY LedgerRows DEF Merge, Active, IInv, TypeOK
<1>2. a \in Nat /\ n \in Nat /\ ledger[Lock(from)].amount \in Nat /\ ledger[Lock(to)].amount \in Nat
  BY <1>1 DEF LockRow, Larger
<1>3. /\ x \in LockRow /\ ~x.active
      /\ y \in LockRow /\ y.active /\ y.amount = a
  BY <1>1, <1>2, Changes DEF Sets, Keeps, With, LockRow
<1>4. e.token = from /\ Worth(e) = 0
  BY DEF Worth
<1> HIDE DEF x, y
<1>5. /\ l1 \in Positions /\ l1[Lock(from)] = x
      /\ \A u \in Token : u # from => l1[Lock(u)] = ledger[Lock(u)]
  BY <1>1, <1>3, Placed
<1>6. Emit(e, l)
  <2>1. l1[Lock(to)] = ledger[Lock(to)]
    BY <1>1, <1>5
  <2>2. Emit(e, [ledger EXCEPT ![Lock(from)] = With(Closed, @),
                               ![Lock(to)] = With([amount |-> a, end |-> n], @)])
    BY DEF Merge
  <2> QED
    BY <2>1, <2>2 DEF x, y
<1> HIDE DEF l1
<1>7. /\ l \in Positions /\ l[Lock(to)] = y
      /\ \A u \in Token : u # to => l[Lock(u)] = l1[Lock(u)]
  BY <1>3, <1>5, Placed
<1>8. log' = Append(log, e) /\ ledger' = l
  BY <1>6 DEF Emit
<1>9. Counts(ledger, from) + Counts(ledger, to) = a
  BY <1>1 DEF Counts
<1> HIDE DEF l, e, a, n
<1>10. /\ Counts(ledger, to) = ledger[Lock(to)].amount
       /\ Counts(ledger, from) = ledger[Lock(from)].amount
       /\ Counts(l1, from) = 0 /\ Counts(l1, to) = Counts(ledger, to) /\ Counts(l, to) = a
       /\ \A u \in Token : u # from => Counts(l1, u) = Counts(ledger, u)
       /\ \A u \in Token : u # to => Counts(l, u) = Counts(l1, u)
  BY <1>1, <1>3, <1>5, <1>7, NoRowAssumption DEF Counts
<1>11. /\ CountAll(l1) + Counts(ledger, from) = CountAll(ledger) + Counts(l1, from)
       /\ CountAll(l) + Counts(l1, to) = CountAll(l1) + Counts(l, to)
  BY <1>1, <1>5, <1>7, <1>10, OneCountChanges
<1>12. CountAll(l1) \in Nat /\ CountAll(l) \in Nat /\ CountAll(ledger) \in Nat
  BY <1>1, <1>5, <1>7, CountAllType
<1>13. CountAll(l) <= CountAll(ledger) + Worth(e)
  BY <1>2, <1>4, <1>9, <1>10, <1>11, <1>12
<1>14. ASSUME NEW u \in Token, u # e.token PROVE Counts(ledger, u) <= Counts(l, u)
  <2>1. Counts(ledger, u) \in Nat /\ Counts(ledger, from) \in Nat
    BY <1>1, CountsTyped
  <2>2. CASE u = to
    BY <1>2, <1>9, <1>10, <2>1, <2>2
  <2>3. CASE u # to
    BY <1>4, <1>10, <1>14, <2>1, <2>3
  <2> QED
    BY <2>2, <2>3
<1> QED
  BY <1>4, <1>8, <1>13, <1>14 DEF Moves

\* So does that of a lock that is split, in its parts.
LEMMA SplitMoves ==
  ASSUME IInv, NEW t \in Token, Split(t)
  PROVE  \E e : Moves(e)
<1> DEFINE o == ledger[Lock(t)]
           v == Fresh + 1
           e == [type |-> "split", token |-> t, parts |-> <<Fresh, Fresh + 1>>,
                 amounts |-> <<1, o.amount - 1>>, end |-> o.end]
           x == With(Closed, o)
           y == NewLock(1, o.end)
           z == NewLock(o.amount - 1, o.end)
           l1 == [ledger EXCEPT ![Lock(t)] = x]
           l2 == [l1 EXCEPT ![Lock(Fresh)] = y]
           l == [l2 EXCEPT ![Lock(Fresh + 1)] = z]
<1>1. /\ Active(t) /\ o.amount > 1 /\ Fresh + 1 \in Token
      /\ Cardinality(Minted) \in Nat /\ Fresh = 1 + Cardinality(Minted)
      /\ Minted = 1..Cardinality(Minted)
      /\ t \in Minted /\ o \in LockRow /\ ledger \in Positions
  BY LedgerRows DEF Split, IInv, TypeOK
<1>2. /\ Fresh \in Token /\ v \in Token /\ Fresh # v /\ t # Fresh /\ t # v
      /\ Fresh \notin Minted /\ v \notin Minted /\ Fresh \in Nat
  BY <1>1, VeLocksAssumption DEF Token
<1>3. o.amount \in Nat /\ o.amount - 1 \in Nat /\ o.end \in Nat /\ o.active /\ o # NoRow
  BY <1>1 DEF LockRow, Active
<1>4. /\ x \in LockRow /\ y \in LockRow /\ z \in LockRow
      /\ ~x.active /\ y.amount = 1 /\ y.active /\ z.amount = o.amount - 1 /\ z.active
  BY <1>1, <1>3, Changes DEF NewLock, LockRow, Sets
<1>5. e.token = t /\ Worth(e) = 0
  BY DEF Worth
<1>6. Emit(e, l)
  BY DEF Split
<1>7. log' = Append(log, e) /\ ledger' = l
  BY <1>6 DEF Emit
<1>8. Counts(ledger, Fresh) = 0 /\ Counts(ledger, v) = 0 /\ Counts(ledger, t) = o.amount
  <2>1. ledger[Lock(Fresh)] = NoRow /\ ledger[Lock(v)] = NoRow
    BY <1>2 DEF Minted
  <2> QED
    BY <1>3, <2>1 DEF Counts
<1> HIDE DEF o, x, y, z
<1>9. /\ l1 \in Positions /\ l1[Lock(t)] = x
      /\ \A u \in Token : u # t => l1[Lock(u)] = ledger[Lock(u)]
  BY <1>1, <1>4, Placed
<1> HIDE DEF l1
<1>10. /\ l2 \in Positions /\ l2[Lock(Fresh)] = y
       /\ \A u \in Token : u # Fresh => l2[Lock(u)] = l1[Lock(u)]
  BY <1>2, <1>4, <1>9, Placed
<1> HIDE DEF l2
<1>11. /\ l \in Positions /\ l[Lock(v)] = z
       /\ \A u \in Token : u # v => l[Lock(u)] = l2[Lock(u)]
  BY <1>1, <1>4, <1>10, Placed
<1> HIDE DEF l, e, v
<1>12. /\ Counts(l1, t) = 0 /\ \A u \in Token : u # t => Counts(l1, u) = Counts(ledger, u)
       /\ Counts(l2, Fresh) = 1 /\ \A u \in Token : u # Fresh => Counts(l2, u) = Counts(l1, u)
       /\ Counts(l, v) = o.amount - 1 /\ \A u \in Token : u # v => Counts(l, u) = Counts(l2, u)
  BY <1>4, <1>9, <1>10, <1>11, NoRowAssumption DEF Counts
<1>13. Counts(l1, Fresh) = 0 /\ Counts(l2, v) = 0
  BY <1>2, <1>8, <1>12
<1>14. /\ CountAll(l1) + Counts(ledger, t) = CountAll(ledger) + Counts(l1, t)
       /\ CountAll(l2) + Counts(l1, Fresh) = CountAll(l1) + Counts(l2, Fresh)
       /\ CountAll(l) + Counts(l2, v) = CountAll(l2) + Counts(l, v)
  <2>1. CountAll(l1) + Counts(ledger, t) = CountAll(ledger) + Counts(l1, t)
    BY <1>1, <1>9, <1>12, OneCountChanges
  <2>2. CountAll(l2) + Counts(l1, Fresh) = CountAll(l1) + Counts(l2, Fresh)
    BY <1>2, <1>9, <1>10, <1>12, OneCountChanges
  <2>3. CountAll(l) + Counts(l2, v) = CountAll(l2) + Counts(l, v)
    BY <1>2, <1>10, <1>11, <1>12, OneCountChanges
  <2> QED
    BY <2>1, <2>2, <2>3
<1>15. CountAll(l1) \in Nat /\ CountAll(l2) \in Nat /\ CountAll(l) \in Nat /\ CountAll(ledger) \in Nat
  BY <1>1, <1>9, <1>10, <1>11, CountAllType
<1>16. CountAll(l) <= CountAll(ledger) + Worth(e)
  BY <1>3, <1>5, <1>8, <1>12, <1>13, <1>14, <1>15
<1>17. ASSUME NEW u \in Token, u # e.token PROVE Counts(ledger, u) <= Counts(l, u)
  <2>1. Counts(ledger, u) \in Nat
    BY <1>1, CountsTyped
  <2>2. CASE u = v
    BY <1>3, <1>8, <1>12, <2>2
  <2>3. CASE u # v /\ u = Fresh
    BY <1>8, <1>12, <2>3
  <2>4. CASE u # v /\ u # Fresh
    BY <1>5, <1>12, <1>17, <2>1, <2>4
  <2> QED
    BY <2>2, <2>3, <2>4
<1> QED
  BY <1>5, <1>7, <1>16, <1>17 DEF Moves

LEMMA ChainMoves ==
  ASSUME IInv, Chain
  PROVE  \E e : Moves(e)
  BY CreateMoves, IncreaseMoves, ExtendMoves, WithdrawMoves, LockPermanentMoves,
     UnlockPermanentMoves, SplitMoves, CastVoteMoves, AbstainMoves, MergeMoves DEF Chain

-----------------------------------------------------------------------------
(* Deposits.                                                               *)

LEMMA WorthType ==
  ASSUME NEW l \in Seq(Event)
  PROVE  Len(l) \in Nat /\ \A n \in 1..Len(l) : Worth(l[n]) \in Nat
<1>1. Len(l) \in Nat /\ \A n \in 1..Len(l) : l[n] \in Event
  OBVIOUS
<1> QED
  BY <1>1, EventFields DEF Worth

LEMMA WorthSame ==
  ASSUME NEW l \in Seq(Event), NEW m, NEW S \in SUBSET (1..Len(l)), \A n \in S : m[n] = l[n]
  PROVE  WorthOf(m, S) = WorthOf(l, S)
<1>1. [n \in S |-> Worth(l[n])] = [n \in S |-> Worth(m[n])]
  OBVIOUS
<1> QED
  BY <1>1 DEF WorthOf

LEMMA WorthOfPart ==
  ASSUME NEW l \in Seq(Event), NEW S \in SUBSET (1..Len(l)), NEW T \in SUBSET S
  PROVE  WorthOf(l, T) <= WorthOf(l, S) /\ WorthOf(l, T) \in Nat /\ WorthOf(l, S) \in Nat
<1> DEFINE f == [n \in S |-> Worth(l[n])]
           g == [n \in T |-> Worth(l[n])]
<1>1. IsFiniteSet(S) /\ IsFiniteSet(T) /\ \A n \in S : f[n] \in Nat
  <2>1. IsFiniteSet(1..Len(l))
    BY WorthType, FS_Interval
  <2> QED
    BY <2>1, WorthType, FS_Subset
<1>2. \A n \in T : g[n] \in Nat /\ g[n] = f[n]
  BY <1>1
<1> HIDE DEF f, g
<1>3. Total(g, T) = Total(f, T) /\ Total(f, T) <= Total(f, S)
  BY <1>1, <1>2, TotalSame, TotalOfPart
<1>4. Total(g, T) \in Nat /\ Total(f, S) \in Nat
  BY <1>1, <1>2, TotalType
<1> QED
  BY <1>3, <1>4 DEF WorthOf, f, g

LEMMA WorthOfOneMore ==
  ASSUME NEW l \in Seq(Event), NEW n \in Nat, n + 1 <= Len(l)
  PROVE  WorthOf(l, 1..(n + 1)) = WorthOf(l, 1..n) + Worth(l[n + 1])
<1> DEFINE S == 1..n
           T == 1..(n + 1)
           f == [i \in T |-> Worth(l[i])]
           g == [i \in S |-> Worth(l[i])]
<1>1. /\ T = S \cup {n + 1} /\ n + 1 \notin S /\ S \subseteq T /\ T \subseteq 1..Len(l)
      /\ n + 1 \in T
  BY WorthType
<1>2. IsFiniteSet(S)
  BY FS_Interval
<1>3. \A i \in T : f[i] \in Nat
  BY <1>1, WorthType
<1>4. \A i \in S : g[i] \in Nat /\ g[i] = f[i]
  BY <1>1, <1>3
<1>5. f[n + 1] = Worth(l[n + 1])
  BY <1>1
<1> HIDE DEF S, T, f, g
<1>6. Total(f, S \cup {n + 1}) = f[n + 1] + Total(f, S) /\ Total(f, S) \in Nat
  BY <1>1, <1>2, <1>3, TotalMore, TotalType
<1>7. Total(g, S) = Total(f, S)
  BY <1>2, <1>4, TotalSame
<1>8. Total(f, T) = Total(g, S) + Worth(l[n + 1])
  BY <1>1, <1>3, <1>5, <1>6, <1>7
<1> QED
  BY <1>8 DEF WorthOf, S, T, f, g

LEMMA TotalsMean ==
  ASSUME TypeOK
  PROVE  ActiveTotal = CountAll(db) /\ Deposited = WorthOf(log, history)
<1>1. db \in Positions /\ log \in Seq(Event) /\ history \subseteq 1..Len(log)
  BY DEF TypeOK
<1>2. ActiveTotal = CountAll(db)
  <2> DEFINE f == [t \in ActiveLocks |-> db[Lock(t)].amount]
             g == [t \in Token |-> Counts(db, t)]
  <2>1. IsFiniteSet(Token) /\ ActiveLocks \subseteq Token
    BY <1>1, CountsTyped DEF ActiveLocks
  <2>2. \A t \in ActiveLocks : f[t] \in Nat /\ g[t] = f[t]
    BY <1>1, <2>1, CountsTyped DEF ActiveLocks, Counts
  <2>3. \A t \in Token \ ActiveLocks : g[t] = 0
    BY DEF ActiveLocks, Counts
  <2>4. ActiveTotal = Total(f, ActiveLocks)
    BY DEF ActiveTotal, SumFunction, Total
  <2> HIDE DEF f, g
  <2>5. Total(f, ActiveLocks) = Total(g, Token)
    BY <2>1, <2>2, <2>3, TotalWhere
  <2> QED
    BY <2>4, <2>5 DEF CountAll, g
<1>3. Deposited = WorthOf(log, history)
  <2> DEFINE T == Deposits(history)
             f == [n \in T |-> log[n].value]
             g == [n \in history |-> Worth(log[n])]
  <2>1. IsFiniteSet(history) /\ T \subseteq history
    <3>1. IsFiniteSet(1..Len(log))
      BY <1>1, WorthType, FS_Interval
    <3> QED
      BY <1>1, <3>1, FS_Subset DEF Deposits
  <2>2. \A n \in T : g[n] \in Nat /\ f[n] = g[n]
    BY <1>1, <2>1, WorthType DEF Deposits, Worth
  <2>3. \A n \in history \ T : g[n] = 0
    BY DEF Deposits, Worth
  <2>4. Deposited = Total(f, T)
    BY DEF Deposited, SumFunction, Total
  <2> HIDE DEF f, g, T
  <2>5. Total(f, T) = Total(g, history)
    BY <2>1, <2>2, <2>3, TotalWhere
  <2> QED
    BY <2>4, <2>5 DEF WorthOf, g
<1> QED
  BY <1>2, <1>3

-----------------------------------------------------------------------------
(* The past, and what of it the table holds, over every step.              *)

LEMMA PastGrows ==
  ASSUME IInv, LogShape, NEW p, Past(p), Chain
  PROVE  \E q : /\ Past(q)' /\ \A n \in 0..Len(log) : q[n] = p[n]
                /\ WellFormed(log'[Len(log) + 1])
                /\ UNCHANGED <<tableVars, next, step, orphan, failed, orphaned, rewound, faults>>
<1>1. PICK e : Foretold(e)
  BY ChainForetold
<1>2. PICK d : Moves(d)
  BY ChainMoves
<1> DEFINE N == Len(log) + 1
<1>0. PICK q : q = [n \in 0..N |-> IF n = N THEN ledger' ELSE p[n]]
  OBVIOUS
<1>3. /\ log \in Seq(Event) /\ TypeOK /\ TypeOK' /\ Len(log) \in Nat
      /\ ledger' \in Positions /\ log' \in Seq(Event)
  BY ChainStep DEF IInv, TypeOK
<1>4. /\ Len(log') = N /\ log'[N] = e /\ \A n \in 1..Len(log) : log'[n] = log[n]
      /\ 1..N = 1..Len(log) \cup {N} /\ 0..N = 0..Len(log) \cup {N} /\ N \in Nat
      /\ N - 1 = Len(log) /\ N \notin 0..Len(log)
      /\ \A n \in 1..Len(log) : n - 1 \in 0..Len(log)
  BY <1>1, <1>3 DEF Foretold
<1>5. d = e
  <2>1. log' = Append(log, d) /\ log' = Append(log, e)
    BY <1>1, <1>2 DEF Foretold, Moves
  <2>2. Append(log, d)[N] = d
    BY <1>3
  <2> QED
    BY <1>4, <2>1, <2>2
<1>6. /\ DOMAIN q = 0..N /\ q[N] = ledger' /\ \A n \in 0..Len(log) : q[n] = p[n]
      /\ p[Len(log)] = ledger /\ q[Len(log)] = ledger
  <2>1. N \in 0..N /\ Len(log) \in 0..Len(log) /\ 0..Len(log) \subseteq 0..N
    BY <1>3, <1>4
  <2>2. q[N] = ledger' /\ \A n \in 0..Len(log) : q[n] = p[n]
    BY <1>0, <1>4, <2>1
  <2>3. p[Len(log)] = ledger
    BY DEF Past
  <2> QED
    BY <1>0, <2>1, <2>2, <2>3
<1>7. \A n \in 0..N : q[n] \in Positions
  BY <1>3, <1>4, <1>6 DEF Past
<1>8. ASSUME NEW n \in 1..N
      PROVE  /\ \A k \in Key : q[n][k] = IF Hits(log'[n], k)
                                           THEN Effect(For(log'[n], k), q[n - 1][k])
                                           ELSE q[n - 1][k]
             /\ \A t \in Token : t # log'[n].token => Counts(q[n - 1], t) <= Counts(q[n], t)
  <2>1. CASE n = N
    <3>1. log'[n] = e /\ q[n] = ledger' /\ q[n - 1] = ledger
      BY <1>4, <1>6, <2>1
    <3>2. \A k \in Key : ledger'[k] = IF Hits(e, k) THEN Effect(For(e, k), ledger[k]) ELSE ledger[k]
      BY <1>1 DEF Foretold
    <3>3. \A t \in Token : t # e.token => Counts(ledger, t) <= Counts(ledger', t)
      BY <1>2, <1>5 DEF Moves
    <3> QED
      BY <3>1, <3>2, <3>3
  <2>2. CASE n \in 1..Len(log)
    <3>1. log'[n] = log[n] /\ q[n] = p[n] /\ q[n - 1] = p[n - 1]
      BY <1>3, <1>4, <1>6, <2>2
    <3> QED
      BY <2>2, <3>1 DEF Past
  <2> QED
    BY <1>4, <2>1, <2>2
<1>9. ASSUME NEW n \in 0..N PROVE CountAll(q[n]) <= WorthOf(log', 1..n)
  <2>1. ASSUME NEW m \in 0..Len(log)
        PROVE  CountAll(p[m]) <= WorthOf(log', 1..m)
    <3>1. 1..m \in SUBSET (1..Len(log)) /\ \A i \in 1..m : log'[i] = log[i]
      BY <1>3, <1>4
    <3>2. WorthOf(log', 1..m) = WorthOf(log, 1..m)
      BY <1>3, <3>1, WorthSame
    <3> QED
      BY <3>2 DEF Past
  <2>2. CASE n \in 0..Len(log)
    BY <1>6, <2>1, <2>2
  <2>3. CASE n = N
    <3>1. CountAll(ledger) <= WorthOf(log', 1..Len(log))
      BY <1>3, <1>6, <2>1
    <3>2. WorthOf(log', 1..N) = WorthOf(log', 1..Len(log)) + Worth(e)
      BY <1>3, <1>4, WorthOfOneMore
    <3>3. CountAll(ledger') <= CountAll(ledger) + Worth(e) /\ Worth(e) \in Nat
      BY <1>2, <1>5 DEF Moves
    <3>4. CountAll(ledger) \in Nat /\ CountAll(ledger') \in Nat
      BY <1>3, CountAllType DEF TypeOK
    <3>5. WorthOf(log', 1..Len(log)) \in Nat
      <4>1. 1..Len(log) \in SUBSET (1..Len(log'))
        BY <1>4
      <4> QED
        BY <1>3, <4>1, WorthOfPart
    <3>6. CountAll(ledger') <= WorthOf(log', 1..N)
      BY <3>1, <3>2, <3>3, <3>4, <3>5
    <3> QED
      BY <1>6, <2>3, <3>6
  <2> QED
    BY <1>4, <2>2, <2>3
<1>10. Past(q)'
  <2> HIDE DEF N
  <2>1. DOMAIN q = 0..Len(log') /\ \A n \in 0..Len(log') : q[n] \in Positions
    BY <1>4, <1>6, <1>7
  <2>2. q[Len(log')] = ledger'
    BY <1>4, <1>6
  <2>3. \A n \in 0..Len(log') : CountAll(q[n]) <= WorthOf(log', 1..n)
    BY <1>4, <1>9
  <2> QED
    BY <1>4, <1>8, <2>1, <2>2, <2>3 DEF Past
<1> QED
  BY <1>1, <1>4, <1>6, <1>10 DEF Foretold

LEMMA NotBegun ==
  ASSUME LogShape, NEW n \in 1..Len(log), NEW k, Hits(log[n], k)
  PROVE  /\ WellFormed(log[n]) /\ On(log[n], k) \in 1..Last(n) /\ ~(On(log[n], k) <= 0)
         /\ HitsAt(log[n], On(log[n], k), k)
<1>1. WellFormed(log[n])
  BY DEF LogShape
<1> QED
  BY <1>1, Found DEF Last

LEMMA ChainApplied ==
  ASSUME IInv, LogShape, NEW p, Past(p), NEW s, Applied(p, s), NEW q,
         \A n \in 0..Len(log) : q[n] = p[n], WellFormed(log'[Len(log) + 1]),
         NEW e, log' = Append(log, e),
         UNCHANGED <<tableVars, next, step, orphan, failed, orphaned, rewound, faults>>
  PROVE  Applied(q, s)'
<1>1. /\ log \in Seq(Event) /\ Len(log) \in Nat /\ next \in 1..(Len(log) + 1)
      /\ step \in Nat /\ step \in Nat \ {0} /\ (next = Len(log) + 1 => step = 1)
  BY DEF IInv, TypeOK, AtRest
<1>2. Len(log') = Len(log) + 1 /\ \A n \in 1..Len(log) : log'[n] = log[n]
  BY <1>1
<1>3. /\ db' = db /\ history' = history /\ added' = added /\ next' = next /\ step' = step
      /\ next' # Len(log') + 1 /\ next' <= Len(log')
  BY <1>1, <1>2 DEF tableVars
<1>4. CASE next <= Len(log)
  <2>1. log'[next'] = log[next] /\ q[next] = p[next] /\ q[next - 1] = p[next - 1]
    BY <1>1, <1>2, <1>3, <1>4
  <2>2. Last(next)' = Last(next)
    BY <2>1 DEF Last
  <2>3. \A k \in Key : Ran(s, k)' <=> Ran(s, k)
    BY <1>3, <1>4, <2>1 DEF Ran
  <2> QED
    BY <1>3, <1>4, <2>1, <2>2, <2>3 DEF Applied
<1>5. CASE next = Len(log) + 1
  <2>1. s = 0 /\ q[next - 1] = p[next - 1] /\ WellFormed(log'[next'])
    BY <1>1, <1>3, <1>5 DEF Applied
  <2>2. \A k \in Key : ~Ran(s, k)
    BY <1>1, <1>5 DEF Ran
  <2>3. \A k \in Key : ~Ran(s, k)'
    <3>1. PICK d : d = log'[next']
      OBVIOUS
    <3>2. \A k : Hits(d, k) => On(d, k) \in Nat \ {0}
      BY <2>1, <3>1, Found
    <3>3. \A k : Ran(s, k)' => Hits(d, k) /\ On(d, k) <= 0
      BY <2>1, <3>1 DEF Ran
    <3> QED
      BY <3>2, <3>3
  <2>4. \A k \in Key : db'[k] = q[next' - 1][k]
    BY <1>3, <2>1, <2>2 DEF Applied
  <2>5. ~\E i \in 1..Last(next)' : i <= s
    BY <2>1
  <2> QED
    BY <1>1, <1>3, <1>5, <2>1, <2>3, <2>4, <2>5 DEF Applied
<1> QED
  BY <1>1, <1>4, <1>5

LEMMA AckApplied ==
  ASSUME IInv, LogShape, NEW p, Past(p), NEW s, Applied(p, s), Ack
  PROVE  Applied(p, 0)'
<1>1. /\ next \in 1..Len(log) /\ Len(log) \in Nat /\ step > Last(next) /\ Last(next) \in Nat
      /\ next' = next + 1 /\ step' = 1 /\ step \in Nat
      /\ log' = log /\ UNCHANGED tableVars /\ next' - 1 = next /\ s \in Nat /\ step - 1 <= s
  BY EventsOfLog DEF IInv, TypeOK, AtRest, Ack, chainVars, Applied
<1>2. ASSUME NEW k \in Key PROVE db[k] = p[next][k]
  <2>1. CASE Hits(log[next], k)
    <3>1. Ran(s, k)
      BY <1>1, <2>1, NotBegun DEF Ran
    <3> QED
      BY <3>1 DEF Applied
  <2>2. CASE ~Hits(log[next], k)
    BY <1>1, <2>2 DEF Applied, Ran, Past
  <2> QED
    BY <2>1, <2>2
<1>3. ASSUME NEW k \in Key PROVE ~Ran(0, k)'
  <2>1. SUFFICES ASSUME next + 1 <= Len(log), Hits(log[next + 1], k), On(log[next + 1], k) <= 0
                 PROVE FALSE
    BY <1>1 DEF Ran
  <2>2. next + 1 \in 1..Len(log)
    BY <1>1, <2>1
  <2> QED
    BY <2>1, <2>2, NotBegun
<1>4. \A k \in Key : db'[k] = p[next' - 1][k]
  BY <1>1, <1>2 DEF tableVars
<1>5. step' - 1 <= 0 /\ ~\E i \in 1..Last(next)' : i <= 0
  BY <1>1
<1> QED
  BY <1>3, <1>4, <1>5 DEF Applied

LEMMA HandleApplied ==
  ASSUME IInv, LogShape, NEW p, Past(p), NEW s, Applied(p, s), Handle, Undisturbed'
  PROVE  \E r : Applied(p, r)'
<1>0. PICK n, e, r : n = next /\ e = log[next] /\ r = IF s >= step THEN s ELSE step
  OBVIOUS
<1>1. /\ n \in 1..Len(log) /\ Len(log) \in Nat /\ step \in 1..Last(n) /\ Last(n) \in Nat
      /\ log' = log /\ next' = next /\ step' = step + 1 /\ step \in Nat
      /\ s \in Nat /\ step - 1 <= s /\ Execute(n, step)
      /\ n # Len(log) + 1 /\ n <= Len(log) /\ TypeOK
  BY <1>0, EventsOfLog DEF IInv, TypeOK, AtRest, Handle, Awaits, chainVars, Applied
<1>2. r \in Nat /\ s <= r /\ step <= r /\ step' - 1 <= r /\ \A i \in Nat : i <= r => i <= s \/ i = step
  BY <1>0, <1>1
<1>3. WellFormed(e)
  BY <1>0, <1>1 DEF LogShape
<1>4. /\ Last(n)' = Last(n) /\ log'[next'] = e
      /\ \A k \in Key : Ran(r, k)' <=> Hits(e, k) /\ On(e, k) <= r
      /\ \A k \in Key : Ran(s, k) <=> Hits(e, k) /\ On(e, k) <= s
  BY <1>0, <1>1 DEF Ran, Last
<1>5. \A k : Hits(e, k) => /\ On(e, k) \in 1..Last(n)
                           /\ Statements(e)[On(e, k)].op # "record"
                           /\ Statements(e)[On(e, k)].key = k
  BY <1>0, <1>1, NotBegun DEF HitsAt
<1>6. /\ \A k \in Key : db[k] = IF Hits(e, k) /\ On(e, k) <= s THEN p[n][k] ELSE p[n - 1][k]
      /\ \A i \in 1..Last(n) : i <= s =>
           /\ Statements(e)[i].op = "record" => n \in history
           /\ Statements(e)[i].op = "add" => n \in added
  BY <1>0, <1>1, <1>4 DEF Applied
<1>7. \A k \in Key : p[n][k] = IF Hits(e, k) THEN Effect(For(e, k), p[n - 1][k]) ELSE p[n - 1][k]
  BY <1>0, <1>1 DEF Past
<1>8. SUFFICES
        /\ \A k \in Key : db'[k] = IF Hits(e, k) /\ On(e, k) <= r THEN p[n][k] ELSE p[n - 1][k]
        /\ \A i \in 1..Last(n) : i <= r =>
             /\ Statements(e)[i].op = "record" => n \in history'
             /\ Statements(e)[i].op = "add" => n \in added'
  <2>1. /\ next' = n /\ log'[next'] = e /\ step' - 1 <= r /\ r \in Nat /\ Last(next)' = Last(n)
        /\ next' # Len(log') + 1
    BY <1>0, <1>1, <1>2, <1>4
  <2> QED
    BY <1>4, <2>1 DEF Applied
<1>9. CASE /\ Statements(e)[step].op = "record"
           /\ db' = db /\ history' = history \cup {n} /\ added' = added /\ twice' = twice
  <2>1. ASSUME NEW k \in Key, Hits(e, k) PROVE On(e, k) <= r <=> On(e, k) <= s
    <3>1. On(e, k) # step /\ On(e, k) \in Nat
      BY <1>5, <1>9, <2>1
    <3> QED
      BY <1>1, <1>2, <3>1
  <2>2. \A i \in 1..Last(n) : i <= r => i <= s \/ i = step
    BY <1>2
  <2> QED
    BY <1>6, <1>9, <2>1, <2>2
<1>10. ASSUME NEW k \in Key, Hits(e, k), On(e, k) = step, Statements(e)[step].op # "record",
              LET x == For(e, k) IN
              /\ db'[k] = Effect(x, db[k]) /\ \A j \in Key : j # k => db'[j] = db[j]
              /\ history' = history
              /\ added' = IF x.op = "add" THEN added \cup {n} ELSE added
              /\ twice' = IF x.op = "add" /\ n \in added THEN twice \cup {n} ELSE twice
       PROVE  /\ \A j \in Key : db'[j] = IF Hits(e, j) /\ On(e, j) <= r THEN p[n][j] ELSE p[n - 1][j]
              /\ \A i \in 1..Last(n) : i <= r =>
                   /\ Statements(e)[i].op = "record" => n \in history'
                   /\ Statements(e)[i].op = "add" => n \in added'
  <2> DEFINE x == For(e, k)
  <2>1. x = Statements(e)[step] /\ Proper(x) /\ x.key = k
    BY <1>3, <1>10, Found DEF For
  <2>2. db'[k] = p[n][k]
    <3>1. CASE s >= step
      <4>1. db[k] = p[n][k] /\ p[n][k] = Effect(x, p[n - 1][k])
        BY <1>1, <1>6, <1>7, <1>10, <3>1
      <4>2. x.op # "add"
        <5>1. SUFFICES ASSUME x.op = "add" PROVE FALSE
          OBVIOUS
        <5>2. n \in added
          BY <1>1, <1>6, <2>1, <3>1, <5>1
        <5>3. n \in twice'
          BY <1>10, <5>1, <5>2
        <5> QED
          BY <5>3 DEF Undisturbed
      <4>3. p[n - 1][k] \in RowOf(k) \cup {NoRow}
        <5>1. p[n - 1] \in Positions
          BY <1>0, <1>1 DEF Past
        <5> QED
          BY <5>1, RowsTyped
      <4> QED
        BY <1>10, <2>1, <4>1, <4>2, <4>3, EffectTwice
    <3>2. CASE ~(s >= step)
      <4>1. ~(On(e, k) <= s)
        BY <1>1, <1>10, <3>2
      <4> QED
        BY <1>6, <1>7, <1>10, <4>1
    <3> QED
      BY <3>1, <3>2
  <2>3. ASSUME NEW j \in Key, j # k, Hits(e, j) PROVE On(e, j) <= r <=> On(e, j) <= s
    <3>1. On(e, j) # step /\ On(e, j) \in Nat
      BY <1>5, <1>10, <2>3
    <3> QED
      BY <1>1, <1>2, <3>1
  <2>4. \A j \in Key : db'[j] = IF Hits(e, j) /\ On(e, j) <= r THEN p[n][j] ELSE p[n - 1][j]
    BY <1>2, <1>6, <1>10, <2>2, <2>3
  <2>5. \A i \in 1..Last(n) : i <= r => i <= s \/ i = step
    BY <1>2
  <2> QED
    BY <1>6, <1>10, <2>1, <2>4, <2>5
<1> QED
  <2>1. \/ /\ Statements(e)[step].op = "record"
           /\ db' = db /\ history' = history \cup {n} /\ added' = added /\ twice' = twice
        \/ \E k \in Key :
             LET x == For(e, k) IN
             /\ Hits(e, k) /\ On(e, k) = step /\ Statements(e)[step].op # "record"
             /\ db'[k] = Effect(x, db[k]) /\ \A j \in Key : j # k => db'[j] = db[j]
             /\ history' = history
             /\ added' = IF x.op = "add" THEN added \cup {n} ELSE added
             /\ twice' = IF x.op = "add" /\ n \in added THEN twice \cup {n} ELSE twice
    BY <1>0, <1>1, Stated
  <2> QED
    BY <1>9, <1>10, <2>1

LEMMA RedeliverApplied ==
  ASSUME IInv, NEW p, NEW s, Applied(p, s), Redeliver
  PROVE  Applied(p, s)'
<1>1. /\ log' = log /\ next' = next /\ step' = 1 /\ UNCHANGED tableVars
      /\ db' = db /\ history' = history /\ added' = added
  BY DEF Redeliver, chainVars, tableVars
<1>2. Last(next)' = Last(next) /\ \A k \in Key : Ran(s, k)' <=> Ran(s, k)
  BY <1>1 DEF Last, Ran
<1>3. step' - 1 <= s
  BY <1>1 DEF Applied
<1> QED
  BY <1>1, <1>2, <1>3 DEF Applied

LEMMA PInit == Init => PInv
<1> SUFFICES ASSUME Init PROVE PInv
  OBVIOUS
<1> DEFINE z == [k \in Key |-> NoRow]
           p == [n \in {0} |-> z]
<1>1. log = << >> /\ Len(log) = 0 /\ ledger = z /\ db = z /\ next = 1 /\ step = 1
  BY DEF Init
<1>2. z \in Positions /\ \A t \in Token : z[Lock(t)] = NoRow
  BY DEF Positions, Key, Lock, Vote
<1>3. 0..0 = {0} /\ p[0] = z /\ DOMAIN p = {0}
  OBVIOUS
<1> HIDE DEF z, p
<1>4. CountAll(z) <= WorthOf(log, 1..0)
  <2>1. \A t \in Token : Counts(z, t) = 0
    BY <1>2 DEF Counts
  <2> DEFINE f == [t \in Token |-> Counts(z, t)]
             g == [t \in {} |-> 0]
  <2>2. IsFiniteSet(Token) /\ \A t \in Token \ {} : f[t] = 0
    BY <1>2, <2>1, CountsTyped
  <2> HIDE DEF f, g
  <2>3. Total(g, {}) = Total(f, Token)
    <3>1. PICK T : T = {}
      OBVIOUS
    <3>2. /\ T \subseteq Token /\ \A x \in T : g[x] \in Nat /\ f[x] = g[x]
          /\ \A x \in Token \ T : f[x] = 0
      BY <2>2, <3>1
    <3>3. Total(g, T) = Total(f, Token)
      BY <2>2, <3>2, TotalWhere
    <3> QED
      BY <3>1, <3>3
  <2>4. 1..0 = {}
    OBVIOUS
  <2> QED
    BY <2>3, <2>4, TotalOfNone DEF CountAll, WorthOf, f
<1>5. Past(p)
  BY <1>1, <1>2, <1>3, <1>4 DEF Past
<1>6. Applied(p, 0)
  BY <1>1, <1>3 DEF Applied, Ran
<1> QED
  BY <1>5, <1>6 DEF PInv

LEMMA PStep ==
  ASSUME IInv, CInv, PInv, [Next]_vars
  PROVE  PInv'
<1>1. PICK p : Past(p) /\ (Undisturbed => \E s : Applied(p, s))
  BY DEF PInv
<1>2. LogShape /\ OrphansKnown
  BY DEF CInv
<1>3. CASE Chain
  <2>1. PICK q : /\ Past(q)' /\ \A n \in 0..Len(log) : q[n] = p[n]
                 /\ WellFormed(log'[Len(log) + 1])
                 /\ UNCHANGED <<tableVars, next, step, orphan, failed, orphaned, rewound, faults>>
    BY <1>1, <1>2, <1>3, PastGrows
  <2>2. PICK e : log' = Append(log, e)
    BY <1>3, ChainMoves DEF Moves
  <2>3. Undisturbed' => Undisturbed
    BY <2>1 DEF Undisturbed, tableVars
  <2>4. ASSUME NEW s, Applied(p, s) PROVE Applied(q, s)'
    BY <1>1, <1>2, <2>1, <2>2, <2>4, ChainApplied
  <2> QED
    BY <1>1, <2>1, <2>3, <2>4 DEF PInv
<1>4. CASE UNCHANGED chainVars /\ (Undisturbed' => \E s : Applied(p, s)')
  <2>1. Past(p)'
    BY <1>1, <1>4 DEF Past, chainVars
  <2> QED
    BY <1>4, <2>1 DEF PInv
<1>5. CASE Handle
  <2>1. UNCHANGED <<chainVars, failed, orphaned, rewound>>
    BY <1>5 DEF Handle
  <2>2. Undisturbed' => Undisturbed
    <3>1. twice \subseteq twice'
      BY <1>5 DEF Handle, Execute
    <3> QED
      BY <2>1, <3>1 DEF Undisturbed
  <2>3. Undisturbed' => \E s : Applied(p, s)'
    BY <1>1, <1>2, <1>5, <2>2, HandleApplied
  <2> QED
    BY <1>4, <2>1, <2>3
<1>6. CASE Ack
  <2>1. UNCHANGED <<chainVars, tableVars, failed, orphaned, rewound>>
    BY <1>6 DEF Ack
  <2>2. Undisturbed' => Undisturbed
    BY <2>1 DEF Undisturbed, tableVars
  <2>3. Undisturbed' => \E s : Applied(p, s)'
    BY <1>1, <1>2, <1>6, <2>2, AckApplied
  <2> QED
    BY <1>4, <2>1, <2>3
<1>7. CASE Redeliver
  <2>1. UNCHANGED <<chainVars, tableVars, failed, orphaned, rewound>>
    BY <1>7 DEF Redeliver
  <2>2. Undisturbed' => Undisturbed
    BY <2>1 DEF Undisturbed, tableVars
  <2>3. Undisturbed' => \E s : Applied(p, s)'
    BY <1>1, <1>7, <2>2, RedeliverApplied
  <2> QED
    BY <1>4, <2>1, <2>3
<1>8. CASE Rewind \/ Fail \/ Reconnect
  <2>1. UNCHANGED chainVars /\ ~Undisturbed'
    BY <1>8 DEF Rewind, Fail, Reconnect, Undisturbed
  <2> QED
    BY <1>4, <2>1
<1>9. CASE OrphanStep
  <2>1. UNCHANGED chainVars /\ orphaned' = orphaned /\ orphaned # {}
    BY <1>2, <1>9 DEF OrphanStep, OrphansKnown
  <2> QED
    BY <1>4, <2>1 DEF Undisturbed
<1>10. CASE UNCHANGED vars
  <2>1. /\ UNCHANGED <<chainVars, tableVars, failed, orphaned, rewound>>
        /\ log' = log /\ next' = next /\ step' = step /\ db' = db /\ history' = history
        /\ added' = added
    BY <1>10 DEF vars, chainVars, tableVars
  <2>2. Undisturbed' => Undisturbed
    BY <2>1 DEF Undisturbed, tableVars
  <2>3. ASSUME NEW s, Applied(p, s) PROVE Applied(p, s)'
    <3>1. Last(next)' = Last(next) /\ \A k \in Key : Ran(s, k)' <=> Ran(s, k)
      BY <2>1 DEF Last, Ran
    <3> QED
      BY <2>1, <2>3, <3>1 DEF Applied
  <2>4. Undisturbed' => \E s : Applied(p, s)'
    BY <1>1, <2>2, <2>3
  <2> QED
    BY <1>4, <2>1, <2>4
<1> QED
  BY <1>3, <1>5, <1>6, <1>7, <1>8, <1>9, <1>10 DEF Next

\* The table between two statements is the ledger before the event, or no more
\* than the ledger after it.
LEMMA TotalCovered ==
  ASSUME IInv, CInv, PInv
  PROVE  NeverOverstated
<1>1. SUFFICES ASSUME Undisturbed PROVE ActiveTotal <= Deposited
  BY DEF NeverOverstated, Undisturbed
<1>2. PICK p, s : Past(p) /\ Applied(p, s)
  BY <1>1 DEF PInv
<1>3. /\ TypeOK /\ LogShape /\ log \in Seq(Event) /\ Len(log) \in Nat /\ db \in Positions
      /\ next \in 1..(Len(log) + 1) /\ history \subseteq 1..Len(log)
      /\ next - 1 \in 0..Len(log) /\ (next - 1) + 1 = next
      /\ 1..(next - 1) \subseteq history
  BY <1>1 DEF IInv, CInv, TypeOK, Recorded, Undisturbed
<1>4. CountAll(p[next - 1]) <= WorthOf(log, 1..(next - 1)) /\ p[next - 1] \in Positions
  BY <1>2, <1>3 DEF Past
<1>5. /\ WorthOf(log, 1..(next - 1)) <= WorthOf(log, history)
      /\ WorthOf(log, 1..(next - 1)) \in Nat /\ WorthOf(log, history) \in Nat
  BY <1>3, WorthOfPart
<1>6. CountAll(db) \in Nat /\ CountAll(p[next - 1]) \in Nat
  BY <1>3, <1>4, CountAllType
<1>7. ASSUME \A t \in Token : ~Ran(s, Lock(t)) PROVE CountAll(db) <= WorthOf(log, history)
  <2>1. \A t \in Token : db[Lock(t)] = p[next - 1][Lock(t)]
    BY <1>2, <1>7, Keys DEF Applied
  <2>2. \A t \in Token : Counts(db, t) <= Counts(p[next - 1], t)
    BY <1>3, <2>1, CountsTyped DEF Counts
  <2>3. CountAll(db) <= CountAll(p[next - 1])
    BY <1>3, <1>4, <2>2, CountsLess
  <2> QED
    BY <1>4, <1>5, <1>6, <2>3
<1>8. ASSUME NEW t \in Token, Ran(s, Lock(t)) PROVE CountAll(db) <= WorthOf(log, history)
  <2> DEFINE e == log[next]
  <2>1. next \in 1..Len(log) /\ Hits(e, Lock(t)) /\ On(e, Lock(t)) <= s /\ next \in 0..Len(log)
    BY <1>3, <1>8 DEF Ran
  <2>2. WellFormed(e) /\ e \in Event /\ e.token \in Token
    BY <1>3, <2>1, EventFields DEF LogShape, WellFormed
  <2>3. LockFirst(e)
    BY <2>2, LockIsFirst
  <2>4. Hits(e, Lock(e.token)) /\ On(e, Lock(e.token)) <= On(e, Lock(t))
    BY <2>1, <2>3 DEF LockFirst
  <2>5. On(e, Lock(e.token)) \in Nat /\ On(e, Lock(t)) \in Nat /\ s \in Nat
    BY <1>2, <2>1, <2>2, <2>4, Found DEF Applied
  <2>6. Ran(s, Lock(e.token))
    BY <2>1, <2>4, <2>5 DEF Ran
  <2>7. p[next] \in Positions /\ CountAll(p[next]) <= WorthOf(log, 1..next)
    BY <1>2, <2>1 DEF Past
  <2>8. ASSUME NEW u \in Token PROVE Counts(db, u) <= Counts(p[next], u)
    <3>1. Counts(p[next], u) \in Nat /\ Counts(p[next - 1], u) \in Nat
      BY <1>4, <2>7, CountsTyped
    <3>2. Lock(u) \in Key
      BY Keys
    <3>3. CASE Ran(s, Lock(u))
      <4>1. db[Lock(u)] = p[next][Lock(u)]
        BY <1>2, <3>2, <3>3 DEF Applied
      <4> QED
        BY <3>1, <4>1 DEF Counts
    <3>4. CASE ~Ran(s, Lock(u))
      <4>1. db[Lock(u)] = p[next - 1][Lock(u)]
        BY <1>2, <3>2, <3>4 DEF Applied
      <4>2. u # e.token
        BY <2>6, <3>4
      <4>3. Counts(p[next - 1], u) <= Counts(p[next], u)
        BY <1>2, <2>1, <4>2 DEF Past
      <4>4. Counts(db, u) = Counts(p[next - 1], u)
        BY <4>1 DEF Counts
      <4> QED
        BY <4>3, <4>4
    <3> QED
      BY <3>3, <3>4
  <2>9. CountAll(db) <= CountAll(p[next])
    BY <1>3, <2>7, <2>8, CountsLess
  <2>10. WorthOf(log, 1..next) = WorthOf(log, 1..(next - 1)) + Worth(e)
    <3>1. next - 1 \in Nat /\ (next - 1) + 1 <= Len(log)
      BY <2>1
    <3>2. WorthOf(log, 1..((next - 1) + 1)) = WorthOf(log, 1..(next - 1)) + Worth(log[(next - 1) + 1])
      BY <1>3, <3>1, WorthOfOneMore
    <3> QED
      BY <1>3, <3>2
  <2>11. WorthOf(log, 1..next) <= WorthOf(log, history)
    <3>1. CASE next \in history
      <4>1. 1..next \subseteq history
        BY <1>3, <3>1
      <4> QED
        BY <1>3, <4>1, WorthOfPart
    <3>2. CASE next \notin history
      <4>1. e.type \notin {"create", "increase"}
        <5>1. SUFFICES ASSUME e.type \in {"create", "increase"} PROVE FALSE
          OBVIOUS
        <5>2. PICK i \in 1..Len(Statements(e)) :
                i < On(e, Lock(t)) /\ Statements(e)[i].op = "record"
          BY <2>1, <2>3, <5>1 DEF LockFirst
        <5>3. i <= s /\ i \in 1..Last(next)
          BY <2>1, <2>5, <5>2 DEF Last
        <5> QED
          BY <1>2, <2>1, <3>2, <5>2, <5>3 DEF Applied
      <4>2. Worth(e) = 0
        BY <4>1 DEF Worth
      <4> QED
        BY <1>5, <2>10, <4>2
    <3> QED
      BY <3>1, <3>2
  <2>12. CountAll(p[next]) \in Nat /\ WorthOf(log, 1..next) \in Nat
    <3>1. 1..next \in SUBSET (1..Len(log))
      BY <2>1
    <3> QED
      BY <1>3, <2>7, <3>1, CountAllType, WorthOfPart
  <2> QED
    BY <1>5, <1>6, <2>7, <2>9, <2>11, <2>12
<1> QED
  BY <1>3, <1>7, <1>8, TotalsMean

\* The active positions add up to no more than the recorded deposits, between
\* any two statements and through any number of redeliveries and crashes, as
\* long as no deposit is added twice and nothing fails, is orphaned or is
\* published again.
THEOREM TotalNeverOverstated == Spec => []NeverOverstated
<1>1. IInv /\ CInv /\ PInv => NeverOverstated
  BY TotalCovered
<1>2. IInv /\ CInv /\ PInv /\ [Next]_vars => IInv' /\ CInv' /\ PInv'
  BY StepInv, CStep, PStep
<1>3. Init => IInv /\ CInv /\ PInv
  BY InitInv, CInit, PInit
<1> QED
  BY <1>1, <1>2, <1>3, PTL DEF Spec
=============================================================================
