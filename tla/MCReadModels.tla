---------------------------- MODULE MCReadModels ----------------------------
(***************************************************************************)
(* ReadModels for TLC: a CL pool, then a volatile one whose base is its    *)
(* token1; a day and a longer resolution that covers two days.             *)
(***************************************************************************)
EXTENDS ReadModels, TLC

MCClass == <<"cl", "volatile">>
MCResolutions == <<"1d", "1w">>
MCLength == [r \in {"1d", "1w"} |-> IF r = "1d" THEN 1 ELSE 3]

\* Two ranges that start or end within a bar, and share one.
Wide == [lo |-> -1, hi |-> 2]
Shifted == [lo |-> 0, hi |-> 3]

Scenario(shape, pools, info, actors, quiet, days, n) ==
  [shape |-> shape, pools |-> pools, info |-> info, ranges |-> {Wide},
   actors |-> actors, quiet |-> quiet, days |-> days, faults |-> n]

Created == {"created"}
CurveTypes == {"moduleFee", "capSet", "feeReset"}
ModuleTypes == {"default", "discount", "undiscount"}
Market == {"mint", "swap"}
FeeTypes == {"setFee", "customFee", "moduleFee", "feeReset"}
CLPool == 1
Volatile == 2

MCScenarios == {
  \* fees: replayed after the consumer has settled them, and beside it
  Scenario(<<Created, FeeTypes, FeeTypes>>, {CLPool, Volatile}, {FALSE}, {"replay"}, 3, 1, 1),
  Scenario(<<{"setFee"}, Created, FeeTypes>>, {CLPool, Volatile}, {FALSE}, {"replay"}, 3, 1, 1),
  Scenario(<<Created, {"customFee", "moduleFee"}>>, {CLPool, Volatile}, {FALSE}, {"replay"}, 1, 1, 1),
  Scenario(<<Created, CurveTypes, CurveTypes>>, {CLPool}, {FALSE}, {"replay"}, 3, 1, 1),
  Scenario(<<Created, CurveTypes>>, {CLPool}, {FALSE}, {"replay"}, 1, 1, 1),
  Scenario(<<ModuleTypes, ModuleTypes>>, {CLPool}, {FALSE}, {"replay"}, 2, 1, 1),
  \* the tokens of a pool whitelisted and struck off, before and after its creation
  Scenario(<<{"whitelist"}, Created \cup {"whitelist"}, Created \cup {"whitelist"}>>,
           {Volatile}, {FALSE}, {"replay"}, 3, 1, 1),
  Scenario(<<Created, {"whitelist"}>>, {CLPool}, {FALSE}, {"replay"}, 1, 1, 1),
  \* a gauge, what is staked in it and what its voters claim
  Scenario(<<Created, {"gauge"}, {"claim", "stake"}>>, {CLPool}, {FALSE}, {"replay"}, 3, 1, 2),
  \* liquidity and swaps: the same, one creation reported twice or two pools
  Scenario(<<Created, Created, Market>>, {CLPool, Volatile}, {FALSE}, {"replay"}, 3, 1, 1),
  Scenario(<<Created, {"mint"}>>, {Volatile}, {FALSE}, {"replay"}, 1, 1, 1),
  [Scenario(<<Created, {"mint"}, {"mint"}>>, {CLPool}, {FALSE}, {}, 3, 1, 1)
     EXCEPT !.ranges = {Wide, Shifted}],
  Scenario(<<Created, {"swap"}>>, {Volatile}, {FALSE}, {"replay"}, 1, 1, 1),
  Scenario(<<Created, Market>>, {CLPool, Volatile}, {FALSE}, {}, 2, 2, 1),
  Scenario(<<Created, {"mint"}, Market>>, {Volatile}, {FALSE}, {}, 3, 2, 1),
  \* beside the cron, within a day and into the next
  Scenario(<<Created, Market>>, {CLPool, Volatile}, {TRUE}, {"cron"}, 1, 1, 0),
  Scenario(<<Created, {"swap"}>>, {Volatile}, {TRUE}, {"cron"}, 1, 2, 0),
  \* runs of the cron that overlap
  Scenario(<<Created>>, {CLPool}, {TRUE}, {"cron", "cron2"}, 1, 1, 0),
  Scenario(<<Created>>, {Volatile}, {FALSE}, {"cron", "cron2"}, 1, 2, 0),
  \* beside an administrator
  Scenario(<<Created, Market>>, {CLPool, Volatile}, {TRUE}, {"admin"}, 1, 1, 1) }
=============================================================================
