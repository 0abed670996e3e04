--------------------------- MODULE ConfigService ---------------------------
(***************************************************************************)
(* The config service behind the remote calls of GatewayRpc: its tables    *)
(* under requests that are handled statement by statement, as many at a    *)
(* time as prefetch allows, and again after a lost connection or a crash,  *)
(* beside the administrators' HTTP requests.                               *)
(*                                                                         *)
(* A table row is known by what makes it unique; one wallet, faucet and    *)
(* banner stand for all.  A scenario bounds a behaviour: what each call    *)
(* and HTTP request asks, the rows there are, the service's prefetch, and  *)
(* whether the service is late: it was down, and takes what the queue has  *)
(* kept when the callers have given up, while the gateway has no faults.   *)
(***************************************************************************)
EXTENDS GatewayRpc, TLC

CONSTANTS
  Http,                \* HTTP requests
  Code,                \* referral codes
  NoRow,
  CODE_MAX_ATTEMPTS,
  Scenarios            \* bounds: records [ops, http, rows, prefetch, late]

ASSUME WorkerAssumption == Http \cap Slot = {}
ASSUME AttemptsAssumption == CODE_MAX_ATTEMPTS \in Nat \ {0}

DB == INSTANCE SavedRow WITH NoRow <- NoRow

VARIABLES
  scenario,
  rows,       \* the tables, by key
  serial,     \* the next generated id
  task,       \* what each slot and HTTP request is at
  told,       \* history: rows that answers have shown
  raced       \* history: keys written between another's look and its write

tables == <<rows, serial>>
history == <<told, raced>>
allVars == <<vars, scenario, tables, task, history>>

Worker == Slot \cup Http
CodeOf(a) == <<"code", a>>
ReferrerOf(a) == <<"relation", a>>
Tier(a) == <<"tier", a>>               \* the badges of an address
Wallet == <<"wallet", 0>>
Faucet == <<"faucet", 0>>
Banner == <<"banner", 0>>
NoKey == <<"none", 0>>

\* What a call or an HTTP request can ask for.
Operation ==
  [of : {"none", "read"}] \cup [of : {"getCode"}, address : STRING]
    \cup [of : {"claim"}, referee : STRING, code : STRING]
    \cup [of : {"tier", "provision"}, address : STRING, tier : STRING]
    \cup [of : {"count"}, column : {"impressions", "clicks"}] \cup [of : {"watch"}, label : STRING]
    \cup [of : {"register"}, token : STRING]
    \cup [of : {"delete"}, key : {Wallet, Faucet}]

CodeRow == [code : STRING]
RelationRow == [referrer : STRING]
FaucetRow == [token : STRING]
BannerRow == [impressions : Nat, clicks : Nat]
BadgeRow == [address : STRING, tier : STRING, active : BOOLEAN]

IsTable(R) ==
  \A k \in DOMAIN R :
    /\ k[1] = "code" => k = CodeOf(k[2]) /\ k[2] \in STRING /\ R[k] \in CodeRow
    /\ k[1] = "relation" => R[k] \in RelationRow
    /\ k[1] = "faucet" => R[k] \in FaucetRow
    /\ k[1] = "badge" => R[k] \in BadgeRow
    /\ k[1] = "banner" => R[k] \in BannerRow

ActiveBadge(R, k) == k \in DOMAIN R /\ k[1] = "badge" /\ R[k].active

ASSUME RowAssumption ==
  /\ Code \subseteq STRING
  /\ NoRow \notin CodeRow \cup RelationRow \cup FaucetRow \cup BannerRow

ASSUME ScenarioAssumption ==
  \A s \in Scenarios :
    /\ \A c \in Call : s.ops[c] \in Operation
    /\ \A h \in Http : s.http[h] \in Operation
    /\ IsTable(s.rows)
    /\ \A j, k \in DOMAIN s.rows :
         ActiveBadge(s.rows, j) /\ ActiveBadge(s.rows, k)
           /\ s.rows[j].address = s.rows[k].address => j = k

\* The tables with row r at key k.
With(k, r) == DB!Over([j \in {k} |-> r], rows)

Row(k) == IF k \in DOMAIN rows THEN rows[k] ELSE NoRow
Badges(a) == {k \in DOMAIN rows : k[1] = "badge" /\ rows[k].address = a /\ rows[k].active}
Owners(g) == {k \in DOMAIN rows : k[1] = "code" /\ rows[k].code = g}

\* A task holds the key it has looked at until it has written or given up.
NoTask == [op |-> [of |-> "none"], step |-> "none", key |-> NoKey, entity |-> NoRow,
           insert |-> FALSE, tries |-> 0]

First(op) ==
  CASE op.of = "none" -> "none"
    [] op.of = "read" -> "done"
    [] op.of = "tier" -> "demote"
    [] op.of = "count" -> "count"
    [] op.of = "delete" -> "delete"
    [] OTHER -> "find"

Begin(op) == [NoTask EXCEPT !.op = op, !.step = First(op)]

ConfigInit ==
  /\ Init /\ scenario \in Scenarios /\ prefetch = scenario.prefetch
  /\ rows = scenario.rows /\ serial = 1
  /\ task = [w \in Worker |-> IF w \in Http THEN Begin(scenario.http[w]) ELSE NoTask]
  /\ told = {} /\ raced = {}
-----------------------------------------------------------------------------
(* The statements.                                                         *)

T(w) == task[w]
At(w, step) == T(w).step = step
Op(w) == T(w).op
Finish(w) == task' = [task EXCEPT ![w].step = "done", ![w].key = NoKey]

Tell(k, row) == told' = told \cup {[key |-> k, row |-> row]}

\* w writes k: whoever has looked at it since knows an old row.
Touch(w, k) ==
  raced' = IF \E b \in Worker \ {w} : task[b].key = k THEN raced \cup {k} ELSE raced

\* The row that an operation is about.
Target(op) ==
  CASE op.of \in {"getCode", "provision"} -> CodeOf(op.address)
    [] op.of = "claim" -> ReferrerOf(op.referee)
    [] op.of = "register" -> Faucet
    [] op.of = "watch" -> Wallet
    [] op.of = "delete" -> op.key

\* What provision goes on with when it has the code.
CodeKnown(w) ==
  IF Op(w).of = "provision" /\ Op(w).tier # "NONE"
    THEN task' = [task EXCEPT ![w].step = "demote", ![w].key = NoKey]
  ELSE Finish(w)

Look(w, step, entity) ==
  task' = [task EXCEPT ![w].step = step, ![w].key = Target(Op(w)), ![w].entity = entity]

\* Variant for checking: a new code is drawn whether or not there is one.
FindCodeAnew(w) ==
  /\ At(w, "find") /\ Op(w).of \in {"getCode", "provision"}
  /\ Look(w, "draw", NoRow)
  /\ UNCHANGED <<vars, scenario, tables, history>>

\* getOrCreateCode: the code there is, or a new one.
FindCode(w) ==
  /\ At(w, "find") /\ Op(w).of \in {"getCode", "provision"}
  /\ LET k == Target(Op(w)) IN
       IF Row(k) = NoRow THEN Look(w, "draw", NoRow) /\ UNCHANGED told
       ELSE CodeKnown(w) /\ Tell(k, rows[k])
  /\ UNCHANGED <<vars, scenario, tables, raced>>

\* One attempt: a code that is taken is drawn again, at most so often.
DrawCode(w) ==
  /\ At(w, "draw")
  /\ \E g \in Code :
       IF Owners(g) = {} THEN Look(w, "select", [code |-> g])
       ELSE IF T(w).tries + 1 < CODE_MAX_ATTEMPTS
         THEN task' = [task EXCEPT ![w].tries = @ + 1]
       ELSE Finish(w)
  /\ UNCHANGED <<vars, scenario, tables, history>>

\* claimReferral: a referee who has a referrer is told so.
FindReferrer(w) ==
  /\ At(w, "find") /\ Op(w).of = "claim"
  /\ LET k == Target(Op(w)) IN
       IF Row(k) = NoRow THEN Look(w, "lookup", NoRow) /\ UNCHANGED told
       ELSE Finish(w) /\ Tell(k, rows[k])
  /\ UNCHANGED <<vars, scenario, tables, raced>>

\* The owner of the code, who must not be the referee.
LookUpCode(w) ==
  /\ At(w, "lookup")
  /\ LET owners == {k[2] : k \in Owners(Op(w).code)} \ {Op(w).referee} IN
       IF owners = {} THEN Finish(w)
       ELSE Look(w, "insert", [referrer |-> CHOOSE a \in owners : TRUE])
  /\ UNCHANGED <<vars, scenario, tables, history>>

\* register: a faucet that is there is a conflict.
FindFaucet(w) ==
  /\ At(w, "find") /\ Op(w).of = "register"
  /\ IF Row(Faucet) = NoRow THEN Look(w, "select", [token |-> Op(w).token]) ELSE Finish(w)
  /\ UNCHANGED <<vars, scenario, tables, history>>

\* upsert of a watched wallet: the id of a new row is the database's.
FindWallet(w) ==
  /\ At(w, "find") /\ Op(w).of = "watch"
  /\ CASE Row(Wallet) = NoRow -> Look(w, "insert", [label |-> Op(w).label])
       [] Row(Wallet) # NoRow /\ rows[Wallet].label = Op(w).label -> Finish(w)
       [] OTHER -> Look(w, "select", [rows[Wallet] EXCEPT !.label = Op(w).label])
  /\ UNCHANGED <<vars, scenario, tables, history>>

\* The SELECT of a save, by primary key: of a wallet its id, not its address.
Matches(entity, row) ==
  row # NoRow /\ ("id" \in DOMAIN entity => entity.id = row.id)

Id(entity) == [c \in DOMAIN entity \cap {"id"} |-> entity[c]]

SelectRow(w) ==
  /\ At(w, "select")
  /\ LET k == T(w).key
         match == Matches(T(w).entity, Row(k))
         patch == DB!Difference(T(w).entity, IF match THEN Row(k) ELSE NoRow)
     IN IF DOMAIN patch # {}
          THEN /\ task' = [task EXCEPT ![w].step = "write", ![w].insert = ~match,
                                       ![w].entity = DB!Over(Id(@), patch)]
               /\ UNCHANGED told
        ELSE IF k[1] = "code" THEN CodeKnown(w) /\ Tell(k, Row(k))
        ELSE Finish(w) /\ UNCHANGED told
  /\ UNCHANGED <<vars, scenario, tables, raced>>

\* A unique violation: another row with the key, or with the code.
Refused(w) ==
  LET k == T(w).key IN
  \/ T(w).insert /\ Row(k) # NoRow
  \/ k[1] = "code" /\ Owners(T(w).entity.code) \ {k} # {}

WriteRow(w) ==
  /\ At(w, "write")
  /\ LET k == T(w).key IN
       IF Refused(w) THEN Finish(w) /\ UNCHANGED <<rows, told, raced>>
       ELSE IF ~T(w).insert /\ ~Matches(T(w).entity, Row(k)) THEN Finish(w) /\ UNCHANGED <<rows, told, raced>>
       ELSE /\ rows' = With(k, DB!Patched(T(w).entity, Row(k)))
            /\ Touch(w, k)
            /\ IF k[1] = "code" THEN CodeKnown(w) ELSE Finish(w)
            /\ IF k[1] \in {"code", "faucet"} THEN Tell(k, T(w).entity) ELSE UNCHANGED told
  /\ UNCHANGED <<vars, scenario, serial>>

\* save of an entity without its key: an INSERT at once.
InsertRow(w) ==
  /\ At(w, "insert") /\ T(w).key[1] # "tier"
  /\ LET k == T(w).key
         new == IF k = Wallet THEN DB!Over([c \in {"id"} |-> serial], T(w).entity)
                ELSE T(w).entity
     IN IF Row(k) # NoRow THEN UNCHANGED <<rows, told, raced>>
        ELSE /\ rows' = With(k, new) /\ Touch(w, k)
             /\ IF k[1] = "relation" THEN Tell(k, new) ELSE UNCHANGED told
  /\ serial' = serial + 1 /\ Finish(w)
  /\ UNCHANGED <<vars, scenario>>

\* increment: one UPDATE.
Count(w) ==
  /\ At(w, "count")
  /\ rows' = IF Row(Banner) = NoRow THEN rows
             ELSE [rows EXCEPT ![Banner][Op(w).column] = @ + 1]
  /\ Finish(w)
  /\ UNCHANGED <<vars, scenario, serial, history>>

\* What was shown of the row is no longer promised.
Delete(w) ==
  /\ At(w, "delete")
  /\ LET k == Target(Op(w)) IN
       /\ rows' = [j \in DOMAIN rows \ {k} |-> rows[j]]
       /\ Touch(w, k)
       /\ told' = {t \in told : t.key # k}
  /\ Finish(w)
  /\ UNCHANGED <<vars, scenario, serial>>

\* Variant for checking: the badge there is stays active.
DemoteNone(w) ==
  /\ At(w, "demote")
  /\ Touch(w, Tier(Op(w).address))
  /\ IF Op(w).tier = "NONE" THEN Finish(w)
     ELSE task' = [task EXCEPT ![w].step = "insert", ![w].key = Tier(Op(w).address)]
  /\ UNCHANGED <<vars, scenario, tables, told>>

\* updateKolTier, provision: the active badge goes, then the new one comes.
Demote(w) ==
  /\ At(w, "demote")
  /\ rows' = [k \in DOMAIN rows |->
                IF k \in Badges(Op(w).address) THEN [rows[k] EXCEPT !.active = FALSE]
                ELSE rows[k]]
  /\ Touch(w, Tier(Op(w).address))
  /\ IF Op(w).tier = "NONE" THEN Finish(w)
     ELSE task' = [task EXCEPT ![w].step = "insert", ![w].key = Tier(Op(w).address)]
  /\ UNCHANGED <<vars, scenario, serial, told>>

InsertBadge(w) ==
  /\ At(w, "insert") /\ T(w).key[1] = "tier"
  /\ rows' = With(<<"badge", serial>>,
                   [address |-> Op(w).address, tier |-> Op(w).tier, active |-> TRUE])
  /\ Touch(w, T(w).key) /\ serial' = serial + 1 /\ Finish(w)
  /\ UNCHANGED <<vars, scenario, told>>

Statement(w) ==
  \/ FindCode(w) \/ DrawCode(w) \/ FindReferrer(w) \/ LookUpCode(w)
  \/ FindFaucet(w) \/ FindWallet(w)
  \/ SelectRow(w) \/ WriteRow(w) \/ InsertRow(w) \/ Count(w) \/ Delete(w)
  \/ Demote(w) \/ InsertBadge(w)
-----------------------------------------------------------------------------
(* The service as a consumer of requests.                                  *)

TakeRequest(s) ==
  /\ Take(s)
  /\ scenario.late => pending = {}
  /\ task' = [task EXCEPT ![s] = Begin(scenario.ops[Head(requests).id])]
  /\ UNCHANGED <<scenario, tables, history>>

NoTasks == [w \in Worker |-> NoTask]

\* A call ends; an orphaned one ends the process, and its HTTP requests.
Respond(s) ==
  /\ At(s, "done")
  /\ BrokerStep(s)
  /\ task' = CASE handler'[s] # Idle -> task
               [] handler'[s] = Idle /\ Live(s) -> [task EXCEPT ![s] = NoTask]
               [] OTHER -> NoTasks
  /\ UNCHANGED <<scenario, tables, history>>

Crash == BrokerCrash /\ task' = NoTasks /\ UNCHANGED <<scenario, tables, history>>

Asked(c) == scenario.ops[c].of # "none"

Expire(c) == Timeout(c) /\ UNCHANGED <<scenario, tables, task, history>>

Gateway ==
  /\ \/ \E c \in Call : (Asked(c) /\ Start(c)) \/ Transmit(c)
     \/ BrokerReconnect
     \/ /\ ~scenario.late
        /\ (\E c \in Call : SendFails(c)) \/ HandleReply
           \/ Disconnect \/ Connect \/ Shutdown
  /\ UNCHANGED <<scenario, tables, task, history>>

ConfigNext ==
  \/ Gateway \/ Crash
  \/ \E c \in Call : Expire(c)
  \/ \E s \in Slot : TakeRequest(s) \/ Respond(s)
  \/ \E w \in Worker : Statement(w)

\* Timers fire; RabbitMQ delivers, statements return and the event loop runs.
ConfigFairness ==
  /\ \A c \in Call : WF_allVars(Expire(c))
  /\ WF_allVars(\E s \in Slot : TakeRequest(s))
  /\ \A s \in Slot : WF_allVars(Statement(s) \/ Respond(s))

ConfigSpec == ConfigInit /\ [][ConfigNext]_allVars /\ ConfigFairness
-----------------------------------------------------------------------------
(* Properties.                                                             *)

(***************************************************************************)
(* What a caller was told stays true, over repeated requests, crashes and  *)
(* concurrent callers: a referral code remains the code of its address, a  *)
(* faucet the registered one until it is removed, a referrer that of the   *)
(* referee with no exception, and a recorded impression or click counts,   *)
(* at least once.  Two first requests for one code, or one faucet, that    *)
(* overlap are the exception: save finds the row of the other and replaces *)
(* what that was told.                                                     *)
(***************************************************************************)
ToldIsKept ==
  /\ \A t \in told :
       t.key \notin raced \/ t.key[1] = "relation" =>
         /\ Row(t.key) # NoRow
         /\ \A c \in DOMAIN t.row : rows[t.key][c] = t.row[c]
  /\ Banner \in DOMAIN rows =>
       \A x \in DOMAIN rows[Banner] :
         Cardinality({c \in answered : scenario.ops[c] = [of |-> "count", column |-> x]})
           <= rows[Banner][x]

(***************************************************************************)
(* An address has one active badge, as each of the two ways to grant one   *)
(* first takes the active one away: unless two grants overlap on it.       *)
(***************************************************************************)
OneBadge ==
  \A k \in DOMAIN rows :
    k[1] = "badge" /\ Tier(rows[k].address) \notin raced =>
      Cardinality(Badges(rows[k].address)) <= 1
=============================================================================
