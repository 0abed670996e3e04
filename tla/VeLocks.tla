------------------------------ MODULE VeLocks ------------------------------
(***************************************************************************)
(* Lock and vote positions: the broker handles each VotingEscrow and Voter *)
(* event with two to four SQL statements outside any transaction, so a     *)
(* crash, a redelivery or an orphaned call can come between any two.       *)
(*                                                                         *)
(* Messages are settled in the order of the log (IndexerIngest proves it); *)
(* a restarted indexer publishes a suffix of the log once more.            *)
(***************************************************************************)
EXTENDS Naturals, Sequences, FiniteSets, Functions

CONSTANTS
  MaxToken,       \* bound: veNFTs minted
  MaxEvents,      \* bound: events in the log
  NoRow,          \* a row that does not exist
  MaxFaults       \* bound: redeliveries, restarts, lost connections, failures

ASSUME VeLocksAssumption == {MaxToken, MaxEvents, MaxFaults} \subseteq Nat

LockRow == [amount : Nat, end : Nat, permanent : BOOLEAN, active : BOOLEAN]
VoteRow == [weight : Nat, active : BOOLEAN]

ASSUME NoRowAssumption == NoRow \notin LockRow \cup VoteRow

Token == 1..MaxToken
Key == {"lock", "vote"} \X Token    \* ve_lock_positions, voter_vote_positions

VARIABLES
  log,        \* events in chain order
  ledger,     \* what the contracts hold, in the form of the rows
  db,         \* the position rows
  history,    \* events with a row in ve_lock_events or voter_vote_events
  next,       \* event whose message is in hand
  step,       \* statement of it that runs next
  orphan,     \* event and statement of a call that outlived its channel
  added,      \* history: additive events applied
  twice,      \* history: additive events applied more than once
  failed,     \* history: events dropped because a statement failed
  orphaned,   \* history: events a call was orphaned on
  rewound,    \* history: the indexer has restarted
  faults      \* counter of the disturbances

chainVars == <<log, ledger>>
tableVars == <<db, history, added, twice>>
vars == <<chainVars, tableVars, next, step, orphan, failed, orphaned, rewound, faults>>

Lock(t) == <<"lock", t>>
Vote(t) == <<"vote", t>>

NewLock(a, e) == [amount |-> a, end |-> e, permanent |-> FALSE, active |-> TRUE]
Closed == [active |-> FALSE, amount |-> 0]

\* Row r with the columns that c names as c has them.
With(c, r) == [f \in DOMAIN r |-> IF f \in DOMAIN c THEN c[f] ELSE r[f]]

NoOrphan == [n |-> 0, step |-> 0]

Init ==
  /\ log = << >> /\ ledger = [k \in Key |-> NoRow]
  /\ db = [k \in Key |-> NoRow] /\ history = {}
  /\ next = 1 /\ step = 1 /\ orphan = NoOrphan
  /\ added = {} /\ twice = {} /\ failed = {} /\ orphaned = {}
  /\ rewound = FALSE /\ faults = 0

Fault == faults < MaxFaults /\ faults' = faults + 1

-----------------------------------------------------------------------------
(* The contracts (external): what can happen on chain, in amounts of 1.    *)

Active(t) == ledger[Lock(t)] # NoRow /\ ledger[Lock(t)].active
Permanent(t) == ledger[Lock(t)].permanent
Voted(t) == ledger[Vote(t)] # NoRow /\ ledger[Vote(t)].active
Fresh == 1 + Cardinality({t \in Token : ledger[Lock(t)] # NoRow})
Larger(a, b) == IF a > b THEN a ELSE b

\* e is emitted and the ledger becomes l.
Emit(e, l) ==
  /\ Len(log) < MaxEvents
  /\ log' = Append(log, e)
  /\ ledger' = l
  /\ UNCHANGED <<tableVars, next, step, orphan, failed, orphaned, rewound, faults>>

Create ==
  /\ Fresh \in Token
  /\ Emit([type |-> "create", token |-> Fresh, value |-> 2, end |-> 1],
          [ledger EXCEPT ![Lock(Fresh)] = NewLock(2, 1)])

Increase(t) ==
  /\ Active(t)
  /\ Emit([type |-> "increase", token |-> t, value |-> 1],
          [ledger EXCEPT ![Lock(t)].amount = @ + 1])

Extend(t) ==
  /\ Active(t) /\ ~Permanent(t) /\ ledger[Lock(t)].end < 2
  /\ Emit([type |-> "extend", token |-> t, end |-> 2], [ledger EXCEPT ![Lock(t)].end = 2])

Withdraw(t) ==
  /\ Active(t) /\ ~Permanent(t) /\ ~Voted(t)
  /\ Emit([type |-> "withdraw", token |-> t],
          [ledger EXCEPT ![Lock(t)] = With(Closed, @)])

\* A permanent lock has no end; unlocking gives it one that no event carries.
LockPermanent(t) ==
  /\ Active(t) /\ ~Permanent(t)
  /\ Emit([type |-> "lockPermanent", token |-> t],
          [ledger EXCEPT ![Lock(t)] = With([permanent |-> TRUE, end |-> 0], @)])

UnlockPermanent(t) ==
  /\ Active(t) /\ Permanent(t) /\ ~Voted(t)
  /\ Emit([type |-> "unlockPermanent", token |-> t],
          [ledger EXCEPT ![Lock(t)].permanent = FALSE])

Merge(from, to) ==
  /\ from # to /\ Active(from) /\ Active(to) /\ ~Permanent(from) /\ ~Voted(from)
  /\ LET a == ledger[Lock(from)].amount + ledger[Lock(to)].amount
         e == IF Permanent(to) THEN 0
              ELSE Larger(ledger[Lock(from)].end, ledger[Lock(to)].end)
     IN Emit([type |-> "merge", token |-> from, to |-> to, amount |-> a, end |-> e],
             [ledger EXCEPT ![Lock(from)] = With(Closed, @),
                            ![Lock(to)] = With([amount |-> a, end |-> e], @)])

\* What becomes of the parts of a permanent lock no source here tells: left out.
Split(t) ==
  /\ Active(t) /\ ~Permanent(t) /\ ~Voted(t) /\ Fresh + 1 \in Token
  /\ LET l == ledger[Lock(t)] IN
       /\ l.amount > 1
       /\ Emit([type |-> "split", token |-> t, parts |-> <<Fresh, Fresh + 1>>,
                amounts |-> <<1, l.amount - 1>>, end |-> l.end],
               [ledger EXCEPT ![Lock(t)] = With(Closed, @),
                              ![Lock(Fresh)] = NewLock(1, l.end),
                              ![Lock(Fresh + 1)] = NewLock(l.amount - 1, l.end)])

CastVote(t) ==
  /\ Active(t) /\ ~Voted(t)
  /\ LET w == ledger[Lock(t)].amount IN
       Emit([type |-> "voted", token |-> t, weight |-> w],
            [ledger EXCEPT ![Vote(t)] = [weight |-> w, active |-> TRUE]])

Abstain(t) ==
  /\ Voted(t)
  /\ Emit([type |-> "abstained", token |-> t],
          [ledger EXCEPT ![Vote(t)] = [weight |-> 0, active |-> FALSE]])

Chain ==
  \/ Create
  \/ \E t \in Token :
       \/ Increase(t) \/ Extend(t) \/ Withdraw(t)
       \/ LockPermanent(t) \/ UnlockPermanent(t)
       \/ Split(t) \/ CastVote(t) \/ Abstain(t)
       \/ \E u \in Token : Merge(t, u)

-----------------------------------------------------------------------------
(* The statements of the broker's handlers.                                *)

Record == [op |-> "record"]
Insert(k, r) == [op |-> "insert", key |-> k, row |-> r]
Upsert(k, r, c) == [op |-> "upsert", key |-> k, row |-> r, change |-> c]
Update(k, c) == [op |-> "update", key |-> k, change |-> c]
Add(k, v) == [op |-> "add", key |-> k, value |-> v]

UpsertLock(t, a, e) ==
  Upsert(Lock(t), NewLock(a, e), [amount |-> a, end |-> e, active |-> TRUE])

\* Variant for checking: the lock that absorbs is raised before the other is closed.
RaisesThenCloses(e) ==
  << Update(Lock(e.to), [amount |-> e.amount, end |-> e.end]),
     Update(Lock(e.token), Closed) >>

ClosesThenRaises(e) ==
  << Update(Lock(e.token), Closed),
     Update(Lock(e.to), [amount |-> e.amount, end |-> e.end]) >>

DepositStatements(e) ==
  << Record,
     CASE e.type = "create" -> Insert(Lock(e.token), NewLock(e.value, e.end))
       [] e.type = "increase" -> Add(Lock(e.token), e.value)
       [] e.type = "extend" -> Update(Lock(e.token), [end |-> e.end]) >>

WithdrawStatements(e) == << Record, Update(Lock(e.token), Closed) >>

LockPermanentStatements(e) ==
  << Record, Update(Lock(e.token), [permanent |-> TRUE, end |-> 0]) >>

UnlockPermanentStatements(e) ==
  << Record, Update(Lock(e.token), [permanent |-> FALSE]) >>

MergeStatements(e) == << Record >> \o ClosesThenRaises(e)

SplitStatements(e) ==
  << Record, Update(Lock(e.token), Closed),
     UpsertLock(e.parts[1], e.amounts[1], e.end),
     UpsertLock(e.parts[2], e.amounts[2], e.end) >>

VotedStatements(e) ==
  LET r == [weight |-> e.weight, active |-> TRUE] IN
  << Upsert(Vote(e.token), r, r), Record >>

AbstainedStatements(e) ==
  << Update(Vote(e.token), [weight |-> 0, active |-> FALSE]), Record >>

Statements(e) ==
  CASE e.type \in {"create", "increase", "extend"} -> DepositStatements(e)
    [] e.type = "withdraw" -> WithdrawStatements(e)
    [] e.type = "lockPermanent" -> LockPermanentStatements(e)
    [] e.type = "unlockPermanent" -> UnlockPermanentStatements(e)
    [] e.type = "merge" -> MergeStatements(e)
    [] e.type = "split" -> SplitStatements(e)
    [] e.type = "voted" -> VotedStatements(e)
    [] e.type = "abstained" -> AbstainedStatements(e)

\* Variant for checking: an UPDATE that finds no row inserts one.
WrittenAlways(s) ==
  LET r == db[s.key] IN
  CASE s.op = "insert" -> IF r = NoRow THEN s.row ELSE r
    [] s.op = "upsert" -> IF r = NoRow THEN s.row ELSE With(s.change, r)
    [] s.op = "update" -> IF r = NoRow THEN s.change ELSE With(s.change, r)
    [] s.op = "add" -> IF r = NoRow THEN r ELSE [r EXCEPT !.amount = @ + s.value]

\* The row of statement s afterwards: UPDATE needs one, INSERT needs none.
Written(s) ==
  LET r == db[s.key] IN
  CASE s.op = "insert" -> IF r = NoRow THEN s.row ELSE r
    [] s.op = "upsert" -> IF r = NoRow THEN s.row ELSE With(s.change, r)
    [] s.op = "update" -> IF r = NoRow THEN r ELSE With(s.change, r)
    [] s.op = "add" -> IF r = NoRow THEN r ELSE [r EXCEPT !.amount = @ + s.value]

Last(n) == Len(Statements(log[n]))
Awaits(n, i) == n <= Len(log) /\ i <= Last(n)

\* Statement i of the handler of event n.
Execute(n, i) ==
  LET s == Statements(log[n])[i] IN
  /\ IF s.op = "record" THEN history' = history \cup {n} /\ UNCHANGED db
     ELSE db' = [db EXCEPT ![s.key] = Written(s)] /\ UNCHANGED history
  /\ IF s.op = "add"
       THEN /\ added' = added \cup {n}
            /\ twice' = IF n \in added THEN twice \cup {n} ELSE twice
       ELSE UNCHANGED <<added, twice>>

-----------------------------------------------------------------------------
(* The consumer.                                                           *)

Handle ==
  /\ Awaits(next, step)
  /\ Execute(next, step)
  /\ step' = step + 1
  /\ UNCHANGED <<chainVars, next, orphan, failed, orphaned, rewound, faults>>

Ack ==
  /\ next <= Len(log) /\ step > Last(next)
  /\ next' = next + 1 /\ step' = 1
  /\ UNCHANGED <<chainVars, tableVars, orphan, failed, orphaned, rewound, faults>>

\* Variant for checking: the message was acknowledged when it was delivered.
RedeliverNothing ==
  /\ Fault
  /\ step > 1 /\ step' = 1 /\ next' = next + 1
  /\ orphan' = NoOrphan
  /\ UNCHANGED <<chainVars, tableVars, failed, orphaned, rewound>>

\* Variant for checking: messages are acknowledged in batches.
RedeliverBatch ==
  /\ Fault
  /\ step' = 1 /\ next' \in 1..next
  /\ orphan' = NoOrphan
  /\ UNCHANGED <<chainVars, tableVars, failed, orphaned, rewound>>

\* The broker ends, or the message is requeued, before the ack.
Redeliver ==
  /\ Fault
  /\ step > 1 /\ step' = 1
  /\ orphan' \in {orphan, NoOrphan}
  /\ UNCHANGED <<chainVars, tableVars, next, failed, orphaned, rewound>>

\* The indexer restarts and publishes a suffix of what it had published again.
Rewind ==
  /\ Fault
  /\ step = 1 /\ next' \in 1..(next - 1)
  /\ rewound' = TRUE
  /\ UNCHANGED <<chainVars, tableVars, step, orphan, failed, orphaned>>

\* A statement fails: the rest of them never runs.
Fail ==
  /\ Awaits(next, step)
  /\ Fault
  /\ failed' = failed \cup {next}
  /\ next' = next + 1 /\ step' = 1
  /\ UNCHANGED <<chainVars, tableVars, orphan, orphaned, rewound>>

\* The call goes on without its channel, and its message is delivered again.
Reconnect ==
  /\ next <= Len(log) /\ orphan = NoOrphan
  /\ Fault
  /\ orphan' = [n |-> next, step |-> step]
  /\ orphaned' = orphaned \cup {next}
  /\ step' = 1
  /\ UNCHANGED <<chainVars, tableVars, next, failed, rewound>>

\* Its ack throws in the end and the process exits.
OrphanStep ==
  /\ orphan # NoOrphan
  /\ IF Awaits(orphan.n, orphan.step)
       THEN /\ Execute(orphan.n, orphan.step)
            /\ orphan' = [orphan EXCEPT !.step = @ + 1] /\ UNCHANGED step
       ELSE orphan' = NoOrphan /\ step' = 1 /\ UNCHANGED tableVars
  /\ UNCHANGED <<chainVars, next, failed, orphaned, rewound, faults>>

Next == Chain \/ Handle \/ Ack \/ Redeliver \/ Rewind \/ Fail \/ Reconnect \/ OrphanStep

Spec == Init /\ [][Next]_vars
-----------------------------------------------------------------------------
(* Properties.                                                             *)

Event ==
  [type : {"create"}, token : Token, value : Nat, end : Nat]
    \cup [type : {"increase"}, token : Token, value : Nat]
    \cup [type : {"extend"}, token : Token, end : Nat]
    \cup [type : {"withdraw", "lockPermanent", "unlockPermanent", "abstained"},
          token : Token]
    \cup [type : {"merge"}, token : Token, to : Token, amount : Nat, end : Nat]
    \cup [type : {"split"}, token : Token, parts : Token \X Token,
          amounts : Nat \X Nat, end : Nat]
    \cup [type : {"voted"}, token : Token, weight : Nat]

Positions ==
  {p \in [Key -> LockRow \cup VoteRow \cup {NoRow}] :
     \A t \in Token : p[Lock(t)] \in LockRow \cup {NoRow} /\ p[Vote(t)] \in VoteRow \cup {NoRow}}

TypeOK ==
  /\ log \in Seq(Event) /\ {db, ledger} \subseteq Positions
  /\ next \in 1..(Len(log) + 1) /\ history \subseteq 1..Len(log)
  /\ twice \subseteq added /\ added \subseteq 1..Len(log)
  /\ next <= Len(log) => step \in 1..(Last(next) + 1)

Settled == next > Len(log) /\ orphan = NoOrphan

KeysOf(n) == {Statements(log[n])[i].key : i \in
                {j \in DOMAIN Statements(log[n]) : Statements(log[n])[j].op # "record"}}
Sound(k) == \A n \in orphaned : k \notin KeysOf(n)

SameButAmount(r, l) ==
  IF r = NoRow \/ l = NoRow THEN r = l
  ELSE \A f \in DOMAIN l \ {"amount"} : r[f] = l[f]

OnlyOver(t) ==
  ledger[Lock(t)] # NoRow =>
    /\ db[Lock(t)].amount >= ledger[Lock(t)].amount
    /\ (\A n \in twice : log[n].token # t) => db[Lock(t)].amount = ledger[Lock(t)].amount

(***************************************************************************)
(* Redelivery, a crash between any two statements and a second publication *)
(* leave no trace once the events are handled: the rows are what the       *)
(* contracts hold, and no event is missing from the history.  The          *)
(* exception is an amount: deposits of type 0 and 2 are added, not set, so *)
(* one handled twice makes that of its own position too high, never too    *)
(* low.  Only rows an orphaned call has written are exempt.                *)
(***************************************************************************)
Converges ==
  Settled /\ failed = {} =>
    /\ \A k \in Key : Sound(k) => SameButAmount(db[k], ledger[k])
    /\ \A t \in Token : Sound(Lock(t)) => OnlyOver(t)
    /\ history = 1..Len(log)

(***************************************************************************)
(* The total of the active positions, which the lock statistics add up, is *)
(* at no moment more than the deposits in the history: a merge or a split  *)
(* closes a lock before its amount appears elsewhere, and a deposit has    *)
(* its history row before it counts.                                       *)
(***************************************************************************)
Deposits(S) == {n \in S : log[n].type \in {"create", "increase"}}
Deposited == SumFunction([n \in Deposits(history) |-> log[n].value])
ActiveLocks == {t \in Token : db[Lock(t)] # NoRow /\ db[Lock(t)].active}
ActiveTotal == SumFunction([t \in ActiveLocks |-> db[Lock(t)].amount])

NeverOverstated ==
  failed = {} /\ twice = {} /\ orphaned = {} /\ ~rewound =>
    ActiveTotal <= Deposited

(***************************************************************************)
(* A position that was closed (withdrawn, merged away, split) stays        *)
(* closed, over crashes, redeliveries and failures, as long as nothing is  *)
(* published twice and no call is orphaned.                                *)
(***************************************************************************)
ClosedStaysClosed ==
  [][orphaned = {} /\ ~rewound =>
       \A t \in Token : db[Lock(t)] # NoRow /\ ~db[Lock(t)].active =>
         ~db'[Lock(t)].active]_vars
=============================================================================
