---------------------------- MODULE OhlcvBuckets ----------------------------
(***************************************************************************)
(* One stream of candles: the buckets of a pair, or of a token, in one     *)
(* resolution, and the cursor row that swaps and the wall-clock cron share.*)
(*                                                                         *)
(* A transaction that finds the cursor locks it and is one step here; the  *)
(* transactions that find none have nothing to lock and interleave at each *)
(* query.  Time is counted in the finest unit; payloads are a price.       *)
(***************************************************************************)
EXTENDS Integers, FiniteSets, FiniteSetsExt

CONSTANTS
  Consumers,      \* callers of onSwap: the consumer, an orphan, the replay tool
  Cron,           \* the caller of ensureWallClockBuckets
  Price,          \* prices of swaps
  Periods,        \* SWAP_BUCKET_FINEST_PERIOD_SEC before and after a restart
  MAX_GAP_STEPS,
  Retention,      \* TIME_BUCKET_RETENTION_DAYS
  MaxTime,        \* bound: last instant
  MaxSwaps        \* bound: swaps applied

ASSUME OhlcvAssumption ==
  /\ Cron \notin Consumers /\ IsFiniteSet(Consumers)
  /\ Price \subseteq Nat \ {0}
  /\ Periods \subseteq Nat \ {0}
  /\ MAX_GAP_STEPS \in Nat \ {0}
  /\ {Retention, MaxTime, MaxSwaps} \subseteq Nat

Actor == Consumers \cup {Cron}
Time == 0..MaxTime
NoSwap == 0                        \* the cron brings none

VARIABLES
  now,        \* wall clock
  period,     \* length of a bucket
  rows,       \* bucket rows by bucketStartTs
  cursor,     \* the row of swap_bucket_state; index 0: there is none
  tx,         \* transactions that found no cursor
  counted,    \* history: swaps whose transaction committed, by window
  late,       \* history: windows that took a swap when a later one existed
  unlocked,   \* history: windows changed by a transaction without a lock
  holes,      \* history: windows the cursor has passed without handling them
  pruned,     \* history: the latest cutoff
  changed     \* history: when the period last changed

history == <<counted, late, unlocked, holes, pruned, changed>>
vars == <<now, period, rows, cursor, tx, history>>

None == [index |-> 0, start |-> 0]
Idle == [pc |-> "idle"]

Init ==
  /\ now = 0 /\ period \in Periods
  /\ rows = << >> /\ cursor = None
  /\ tx = [a \in Actor |-> Idle]
  /\ counted = [w \in Time |-> 0]
  /\ late = {} /\ unlocked = {} /\ holes = {} /\ pruned = 0 /\ changed = 0

alignBucketStart(t) == t - (t % period)

Starts == DOMAIN rows

\* The rows R and the row r at s.
With(R, s, r) == [u \in DOMAIN R \cup {s} |-> IF u = s THEN r ELSE R[u]]

HasIndex(i) == \E s \in Starts : rows[s].index = i

\* Variant for checking: the rows are sorted the other way.
TailFirst ==
  IF Starts = {} THEN [close |-> 0, total |-> 0]
  ELSE LET s == CHOOSE x \in Starts : \A y \in Starts : rows[y].index >= rows[x].index
       IN [close |-> rows[s].close, total |-> rows[s].total]

\* previousPairBucketTail: the row with the greatest index, or zeros.
Tail ==
  IF Starts = {} THEN [close |-> 0, total |-> 0]
  ELSE LET s == CHOOSE x \in Starts : \A y \in Starts : rows[y].index <= rows[x].index
       IN [close |-> rows[s].close, total |-> rows[s].total]

\* Variant for checking: buckets are numbered from 0.
NewRowFromZero(i, swap, tail) ==
  LET p == IF swap = NoSwap THEN tail.close ELSE swap
  IN [index |-> i - 1, open |-> p, high |-> p, low |-> p, close |-> p,
      count |-> 0, total |-> tail.total]

\* A row that opens with a swap takes its price throughout, an empty one is flat.
NewRow(i, swap, tail) ==
  LET p == IF swap = NoSwap THEN tail.close ELSE swap
      n == IF swap = NoSwap THEN 0 ELSE 1
  IN [index |-> i, open |-> p, high |-> p, low |-> p, close |-> p,
      count |-> n, total |-> tail.total + n]

Larger(a, b) == IF a > b THEN a ELSE b
Smaller(a, b) == IF a < b THEN a ELSE b

Merged(r, swap) ==
  IF swap = NoSwap THEN r
  ELSE [r EXCEPT !.high = Larger(@, swap),
                 !.low = IF @ = 0 THEN swap ELSE Smaller(@, swap),
                 !.close = swap, !.count = @ + 1, !.total = @ + 1]

-----------------------------------------------------------------------------
(* Filling up to window w: the indices of the buckets on the way.          *)

\* Variant for checking: the bucket of the swap itself is one too many.
StepsShort(w) == Smaller(MAX_GAP_STEPS, (w - cursor.start - 1) \div period)

Steps(w) == Smaller(MAX_GAP_STEPS, (w - cursor.start) \div period)

Bucket(i) == cursor.start + i * period

GapFill(w) == {Bucket(i) : i \in 1..Steps(w)}

\* The index after i steps: that of the last row on the way, and one more for each
\* bucket that had none.
IndexAfter(i) ==
  LET j == Max({k \in 0..i : k = 0 \/ Bucket(k) \in Starts})
  IN (IF j = 0 THEN cursor.index ELSE rows[Bucket(j)].index) + (i - j)

Filled(w, swap) ==
  [s \in Starts \cup GapFill(w) |->
     IF s \in Starts
       THEN IF s \in GapFill(w) /\ s = w THEN Merged(rows[s], swap) ELSE rows[s]
     ELSE NewRow(IndexAfter((s - cursor.start) \div period),
                 IF s = w THEN swap ELSE NoSwap, Tail)]

LastOfGap(w) == IndexAfter(Steps(w))

\* Nothing was filled: the bucket of w itself is merged or inserted.
Misaligned(w) == LastOfGap(w) = cursor.index

\* An INSERT meets a row with its index: the transaction cannot go on.
Distinct(R) == \A s, t \in DOMAIN R : R[s].index = R[t].index => s = t

Ahead(w, swap) ==
  LET filled == Filled(w, swap)
      i == cursor.index + 1
  IN IF ~Misaligned(w)
       THEN [rows |-> filled, cursor |-> [index |-> LastOfGap(w), start |-> w]]
     ELSE IF w \in DOMAIN filled
       THEN [rows |-> [filled EXCEPT ![w] = Merged(@, swap)],
             cursor |-> [index |-> filled[w].index, start |-> w]]
     ELSE [rows |-> With(filled, w, NewRow(i, swap, Tail)),
           cursor |-> [index |-> i, start |-> w]]

\* Variant for checking: a late swap goes to the latest bucket.
BehindAtCursor(w, swap) ==
  [rows |-> IF cursor.start \in Starts
              THEN [rows EXCEPT ![cursor.start] = Merged(@, swap)] ELSE rows,
   cursor |-> cursor]

\* The row of w takes the swap, if there is one.
Behind(w, swap) ==
  [rows |-> IF w \in Starts THEN [rows EXCEPT ![w] = Merged(@, swap)] ELSE rows,
   cursor |-> cursor]

\* The bucket of the cursor has no row: the cron leaves it so.
AtCursor(w, swap) ==
  IF w \in Starts \/ swap = NoSwap THEN Behind(w, swap)
  ELSE [rows |-> With(rows, w, NewRow(cursor.index, swap, Tail)), cursor |-> cursor]

Advanced(w, swap) ==
  CASE w < cursor.start -> Behind(w, swap)
    [] w = cursor.start -> AtCursor(w, swap)
    [] w > cursor.start -> Ahead(w, swap)

\* History: what the cursor passes without having handled it.
Skipped(w) ==
  IF w \in GapFill(w) \/ Misaligned(w) THEN {}
  ELSE ((cursor.start + 1)..w) \ GapFill(w)

-----------------------------------------------------------------------------
(* Transactions.                                                           *)

Swaps == MapThenSumSet(LAMBDA w : counted[w], Time)
            + Cardinality({a \in Consumers : tx[a] # Idle})

\* What a brings: the cron the time, a consumer a swap of a past block.
Brings(a, t, swap) ==
  IF a = Cron THEN t = now /\ swap = NoSwap
  ELSE swap \in Price /\ Swaps < MaxSwaps

Count(w, swap) ==
  counted' = IF swap = NoSwap THEN counted ELSE [counted EXCEPT ![w] = @ + 1]

Late(w, swap) ==
  late' = IF swap # NoSwap /\ \E s \in Starts : s > w THEN late \cup {w} ELSE late

Refuse == UNCHANGED <<rows, cursor, history>>

\* The cursor is there and locked.
Advance(a, t, swap) ==
  LET w == alignBucketStart(t)
      r == Advanced(w, swap)
  IN /\ tx[a] = Idle /\ cursor # None /\ Brings(a, t, swap)
     /\ IF ~Distinct(r.rows) THEN Refuse
        ELSE /\ rows' = r.rows /\ cursor' = r.cursor
             /\ Count(w, swap) /\ Late(w, swap)
             /\ holes' = IF w > cursor.start THEN holes \cup Skipped(w) ELSE holes
             /\ UNCHANGED <<unlocked, pruned, changed>>
     /\ UNCHANGED <<now, period, tx>>

Begin(a, t, swap) ==
  /\ tx[a] = Idle /\ cursor = None /\ Brings(a, t, swap)
  /\ tx' = [tx EXCEPT ![a] = [pc |-> "find", w |-> alignBucketStart(t), swap |-> swap]]
  /\ UNCHANGED <<now, period, rows, cursor, history>>

FindWindow(a) ==
  LET x == tx[a] IN
  /\ x.pc = "find"
  /\ tx' = [tx EXCEPT ![a] =
       IF x.w \in Starts
         THEN [pc |-> "merge", w |-> x.w, swap |-> x.swap, index |-> rows[x.w].index]
       ELSE [x EXCEPT !.pc = "insert"]]
  /\ UNCHANGED <<now, period, rows, cursor, history>>

\* The INSERT waits for one of the same index, and fails if that is committed; if
\* not, the table is as empty as when the tail was read.
InsertFirst(a) ==
  LET x == tx[a] IN
  /\ x.pc = "insert"
  /\ tx' = [tx EXCEPT ![a] = Idle]
  /\ IF HasIndex(1) \/ x.w \in Starts THEN Refuse
     ELSE /\ rows' = With(rows, x.w, NewRow(1, x.swap, Tail))
          /\ cursor' = [index |-> 1, start |-> x.w]
          /\ Count(x.w, x.swap) /\ Late(x.w, x.swap)
          /\ UNCHANGED <<unlocked, holes, pruned, changed>>
  /\ UNCHANGED <<now, period>>

ReadRow(a) ==
  LET x == tx[a] IN
  /\ x.pc = "merge"
  /\ tx' = [tx EXCEPT ![a] =
       [pc |-> "write", w |-> x.w, swap |-> x.swap, index |-> x.index,
        found |-> {rows[s] : s \in {s \in Starts : rows[s].index = x.index}}]]
  /\ UNCHANGED <<now, period, rows, cursor, history>>

\* The row is set to what was read and the swap; the cursor is set to this window.
WriteRow(a) ==
  LET x == tx[a] IN
  /\ x.pc = "write"
  /\ tx' = [tx EXCEPT ![a] = Idle]
  /\ rows' = [s \in Starts |->
       IF rows[s].index = x.index /\ x.found # {} /\ x.swap # NoSwap
         THEN Merged(CHOOSE r \in x.found : TRUE, x.swap) ELSE rows[s]]
  /\ cursor' = [index |-> x.index, start |-> x.w]
  /\ Count(x.w, x.swap) /\ Late(x.w, x.swap)
  /\ unlocked' = unlocked \cup {x.w}
  /\ UNCHANGED <<now, period, holes, pruned, changed>>

-----------------------------------------------------------------------------
(* Surroundings.                                                           *)

\* A transaction ends within the shortest bucket.
Tick ==
  /\ now < MaxTime /\ now' = now + 1
  /\ \A a \in Actor : tx[a] = Idle
  /\ UNCHANGED <<period, rows, cursor, tx, history>>

\* A new process rolls back what was open and may have another period (bound: one
\* change after the first instant).
Restart ==
  /\ period' \in IF changed = 0 THEN Periods ELSE {period}
  /\ changed' = IF period' = period THEN changed ELSE now
  /\ tx' = [a \in Actor |-> Idle]
  /\ UNCHANGED <<now, rows, cursor, counted, late, unlocked, holes, pruned>>

\* Only the rows go, the cursor stays.  Rows are kept for a day at least, and a
\* transaction lasts seconds: none that found no cursor is open.
pruneExpiredBuckets ==
  LET cutoff == now - Retention IN
  /\ cutoff > pruned /\ \A a \in Actor : tx[a] = Idle
  /\ rows' = [s \in {s \in Starts : s >= cutoff} |-> rows[s]]
  /\ pruned' = cutoff
  /\ UNCHANGED <<now, period, cursor, tx, counted, late, unlocked, holes,
                 changed>>

Next ==
  \/ Tick \/ Restart \/ pruneExpiredBuckets
  \/ \E a \in Actor :
       \/ FindWindow(a) \/ InsertFirst(a) \/ ReadRow(a) \/ WriteRow(a)
       \/ \E t \in 0..now, swap \in Price \cup {NoSwap} :
            Advance(a, t, swap) \/ Begin(a, t, swap)

Spec == Init /\ [][Next]_vars

-----------------------------------------------------------------------------
(* Properties.                                                             *)

Row == [index : Nat \ {0}, open : Nat, high : Nat, low : Nat, close : Nat,
        count : Nat, total : Nat]

Tx == {Idle} \cup [pc : {"find", "insert"}, w : Time, swap : Nat]
      \cup [pc : {"merge"}, w : Time, swap : Nat, index : Nat]
      \cup [pc : {"write"}, w : Time, swap : Nat, index : Nat, found : SUBSET Row]

TypeOK ==
  /\ now \in Time /\ period \in Periods
  /\ Starts \subseteq Time /\ \A s \in Starts : rows[s] \in Row
  /\ cursor \in [index : Nat, start : Time]
  /\ tx \in [Actor -> Tx]
  /\ counted \in [Time -> Nat]
  /\ late \cup unlocked \cup holes \subseteq Time /\ {pruned, changed} \subseteq Time

Adjacent(s, t) == pruned <= s /\ s < t /\ ~\E u \in Starts : s < u /\ u < t

(***************************************************************************)
(* Every swap whose transaction committed is in the bucket of its window,  *)
(* once.  Exempt are windows before the first bucket, pruned ones, holes,  *)
(* and windows a transaction changed without holding the cursor's lock.    *)
(***************************************************************************)
CountedOnce ==
  \A w \in Time : \A s \in Starts :
    counted[w] > 0 /\ w >= s /\ w >= pruned /\ w >= changed
      /\ w \notin holes \cup unlocked =>
      w \in Starts /\ rows[w].count = counted[w]

\* A transaction without a lock has put the cursor back, and it has left rows behind
\* or the length of the buckets has changed: a later row may get a smaller index.
Disturbed == unlocked # {} /\ (holes # {} \/ changed # 0)

\* Indices grow with time, and without a hole no bucket is missing.
Contiguous ==
  \A s, t \in Starts :
    /\ s < t => rows[s].index < rows[t].index
    /\ Adjacent(s, t) /\ holes = {} =>
         /\ \E p \in Periods : t <= s + p
         /\ rows[t].index = rows[s].index + 1

\* A low of 0 is that of a row opened before there was a price.
Candle(r) ==
  /\ r.low <= r.close /\ r.close <= r.high
  /\ r.open # 0 => r.low <= r.open /\ r.open <= r.high

\* Row t goes on where row s stood.
GoesOn(s, t) ==
  /\ t.total = s.total + t.count
  /\ t.count = 0 => t.close = s.close

(***************************************************************************)
(* Each bucket is a candle that goes on where the one before it stood: its *)
(* low and high enclose its close, and its open unless it was opened       *)
(* before the stream had a price; the running total goes on from the       *)
(* bucket before, and so does the close if it is empty, except when a swap *)
(* came late, when the next bucket was there already.  Indices grow with   *)
(* time, and without a hole no bucket is missing.  All this whatever was   *)
(* restarted, pruned or late, but for streams that are Disturbed.          *)
(***************************************************************************)
CarriedForward ==
  /\ \A s \in Starts : Candle(rows[s])
  /\ ~Disturbed =>
       /\ Contiguous
       /\ \A s, t \in Starts :
            Adjacent(s, t) /\ s \notin late \cup unlocked => GoesOn(rows[s], rows[t])

(***************************************************************************)
(* The cursor leaves the rows behind only when more than MAX_GAP_STEPS     *)
(* buckets are missing or the length of the buckets has changed.           *)
(***************************************************************************)
HolesAfterGaps ==
  [][holes' # holes =>
       \/ now - cursor.start > MAX_GAP_STEPS * period
       \/ cursor.start % period # 0]_vars

(***************************************************************************)
(* The swap path "gap-fill[s] empty buckets until the bucket that contains *)
(* eventTs, then appl[ies] the swap to the current bucket": no window of a *)
(* swap that was taken, from the first bucket on, is without its row.      *)
(***************************************************************************)
SwapInItsBucket ==
  \A w \in Time : \A s \in Starts :
    counted[w] > 0 /\ w >= s /\ w >= pruned => w \in Starts
=============================================================================
