----------------------------- MODULE SwapScreen -----------------------------
(***************************************************************************)
(* The swap page of the web application: the form of SwapCard with its     *)
(* debounce and its three queries, and SwapButton with the wallet, the     *)
(* receipts and the status it reports to the card.                         *)
(*                                                                         *)
(* Every action ends with a render: Rendered stands for the effects of     *)
(* SwapButton, in their order.  Amounts are ordinals, 0 the empty field;   *)
(* balances, liquidity and allowances are left out: a click may come       *)
(* whenever the button is not busy and may need any of the two approvals.  *)
(***************************************************************************)
EXTENDS Integers, Sequences, FiniteSets

CONSTANTS
  Way,            \* what is sold for what: fromToken and toToken
  NoWay,
  Amount,
  Budget,         \* bounds: records [edits, sends, batching]
  MaxSends        \* the most sends of them

ASSUME ScreenAssumption ==
  /\ NoWay \notin Way /\ Amount \subseteq Nat \ {0}
  /\ MaxSends \in Nat /\ Budget \subseteq [edits : Nat, sends : 0..MaxSends, batching : BOOLEAN]

VARIABLES
  way, typed,     \* fromToken with toToken, and fromAmount
  debounced,      \* debouncedFromAmount
  answer,         \* swap-routes: "none", "rate" (no amountOutWei) or "amount"
  calldata,       \* swap-routes-tx, with the key it was asked for
  path,           \* the way of the path of useSwapInOut
  panel,          \* rightPanelMode and swapTxHash
  batching,       \* supportsBatch
  click,          \* the call of handleSwap under way, with what it closes over
  raw, hash,      \* rawSwapHash, and the data of useWriteContract
  refused,        \* isSwapError
  batch,          \* batchId
  toasted,        \* hasShownSuccessToast
  resets,         \* number of timers that will call onSwapSuccess
  sent,           \* the swaps handed to the chain, with what is known of them
  notified,       \* calls of notifyTransaction
  left            \* of the budget: changes of the form, swaps, and whether to batch

form == <<way, typed, debounced>>
queries == <<answer, calldata, path>>
button == <<batching, click, raw, hash, refused, batch, sent>>
shownVars == <<panel, toasted, resets, notified>>
screenVars == <<form, queries, button, shownVars, left>>

NoData == [way |-> NoWay]
Idle == [on |-> FALSE]
Swap == 1..MaxSends

ScreenInit ==
  /\ way \in Way /\ typed = 0 /\ debounced = 0 /\ left \in Budget
  /\ answer = "none" /\ calldata = NoData /\ path = NoWay
  /\ panel = [mode |-> "info", tx |-> 0]
  /\ batching = FALSE /\ click = Idle /\ raw = 0 /\ hash = 0 /\ refused = FALSE /\ batch = 0
  /\ toasted = 0 /\ resets = 0 /\ sent = << >> /\ notified = [n \in Swap |-> 0]
-----------------------------------------------------------------------------
(* The effects of SwapButton.                                              *)

activeSwapHash == IF raw # 0 THEN raw ELSE hash
Receipt(seen) == activeSwapHash # 0 /\ sent[activeSwapHash].seen = seen
isSwapSuccess == Receipt("ok")
isSigning == click.on /\ ~click.swap.batch
isAsking == isSigning /\ click.asked

\* What the status effect looks at, and the status it reports.
statusDeps ==
  <<isSigning, isAsking, activeSwapHash, Receipt("waiting"), isSwapSuccess,
    Receipt("failed"), refused>>

status ==
  CASE isSwapSuccess -> "success"
    [] Receipt("waiting") -> "confirming"
    [] isSigning /\ ~isSwapSuccess /\ ~Receipt("waiting") -> "pending"
    [] (refused \/ Receipt("failed")) /\ ~isSigning /\ ~isSwapSuccess /\ ~Receipt("waiting") -> "error"
    [] OTHER -> "idle"

Mode == [success |-> "completed", confirming |-> "pending", pending |-> "pending",
         error |-> "failed"]

\* handleSwapStatusChange.
Told(view, s, tx) ==
  IF s = "idle" THEN view ELSE [mode |-> Mode[s], tx |-> IF tx = 0 THEN view.tx ELSE tx]

\* Variant for checking: what was announced is not remembered.
ToastsAgain(last) == isSwapSuccess'

\* The toast is for a swap that has succeeded and was not the last announced.
Toasts(last) == isSwapSuccess' /\ activeSwapHash' # last

\* The effects of the batch, the toast and the status, in this order.
\* view is the panel so far, and announced a swap whose batch has succeeded.
Rendered(view, announced, timers) ==
  LET last == IF announced # 0 THEN announced ELSE toasted
      swaps == {n \in Swap : n = announced \/ (Toasts(last) /\ n = activeSwapHash')}
      after == CASE announced # 0 -> Told(view, "success", announced)
                 [] announced = 0 /\ batch # 0 /\ batch' # 0 -> Told(view, "pending", 0)
                 [] OTHER -> view
  IN /\ toasted' = IF Toasts(last) THEN activeSwapHash' ELSE last
     /\ notified' = [n \in Swap |-> IF n \in swaps THEN notified[n] + 1 ELSE notified[n]]
     /\ resets' = timers + Cardinality(swaps)
     /\ panel' = IF statusDeps' = statusDeps THEN after
                 ELSE Told(after, status', IF status' \in {"success", "confirming"}
                                             THEN activeSwapHash' ELSE 0)
-----------------------------------------------------------------------------
(* The form and its queries.                                               *)

Info == [panel EXCEPT !.mode = "info"]

\* handleFromAmountChange, the slider and the percentages.
Enter ==
  /\ left.edits > 0 /\ left' = [left EXCEPT !.edits = @ - 1]
  /\ \E a \in Amount \cup {0} : a # typed /\ typed' = a
  /\ UNCHANGED <<way, debounced, queries, button>>
  /\ Rendered(Info, 0, resets)

\* Variant for checking: calldata is kept while that of another key loads.
SelectKeepingCalldata ==
  /\ left.edits > 0 /\ left' = [left EXCEPT !.edits = @ - 1]
  /\ \E w \in Way : w # way /\ way' = w
  /\ answer' = "none" /\ UNCHANGED calldata
  /\ UNCHANGED <<typed, debounced, path, button>>
  /\ Rendered(panel, 0, resets)

\* Choosing a token, or turning the two round.  The queries have another key,
\* but useSwapInOut keeps the data of the last one.
Select ==
  /\ left.edits > 0 /\ left' = [left EXCEPT !.edits = @ - 1]
  /\ \E w \in Way : w # way /\ way' = w
  /\ answer' = "none" /\ calldata' = NoData
  /\ UNCHANGED <<typed, debounced, path, button>>
  /\ Rendered(panel, 0, resets)

Debounce ==
  /\ debounced # typed /\ debounced' = typed
  /\ answer' = "none" /\ calldata' = NoData
  /\ UNCHANGED <<way, typed, path, button, left>>
  /\ Rendered(panel, 0, resets)

\* The timer of a success: handleSwapSuccess.
ClearForm ==
  /\ resets > 0 /\ typed' = 0
  /\ UNCHANGED <<way, debounced, queries, button, left>>
  /\ Rendered(panel, 0, resets - 1)

\* Of swap-routes, with or without amountOutWei.
RouteAnswered ==
  answer = "none" /\ answer' \in {"rate", "amount"} /\ UNCHANGED <<calldata, path>>

\* The key of the calldata holds the deadline in seconds: a render in another
\* second has no data for it.
CalldataAnswered ==
  /\ \/ /\ answer = "amount" /\ calldata = NoData
        /\ calldata' = [way |-> way, amount |-> debounced]
     \/ calldata # NoData /\ calldata' = NoData
  /\ UNCHANGED <<answer, path>>

\* No path may ever load for the way: the one before stays.
PathAnswered == path # way /\ path' = way /\ UNCHANGED <<answer, calldata>>

Answered ==
  /\ debounced # 0
  /\ RouteAnswered \/ CalldataAnswered \/ PathAnswered
  /\ UNCHANGED <<form, button, left>>
  /\ Rendered(panel, 0, resets)

\* Change, Retry or closing one of the panels.
Back ==
  /\ panel.mode # "info"
  /\ UNCHANGED <<form, queries, button, left>>
  /\ Rendered(Info, 0, resets)

Form == Enter \/ Select \/ Debounce \/ ClearForm \/ Answered \/ Back
-----------------------------------------------------------------------------
(* The button.                                                             *)

Capabilities ==
  /\ left.batching /\ ~batching /\ batching' = TRUE
  /\ UNCHANGED <<form, queries, left, click, raw, hash, refused, batch, sent>>
  /\ Rendered(panel, 0, resets)

\* Variant for checking: a batch that is pending leaves the button free.
isBusyWithoutBatch == click.on \/ Receipt("waiting")

isBusy == click.on \/ Receipt("waiting") \/ batch # 0

\* The amount that minimumReceived is a share of; 0: there is no minimum.
minimumOf ==
  CASE answer = "amount" -> debounced
    [] answer = "rate" -> typed
    [] OTHER -> 0

\* With calldata the swap is the one it was asked for; without, it takes the
\* typed amount along the path, or from fromToken to toToken where the path
\* is one CL pool or not there.
Swaps ==
  LET shown == [way |-> way, typed |-> typed, answer |-> answer,
                rest |-> debounced = typed /\ path \in {way, NoWay}]
  IN IF calldata # NoData
       THEN {[broker |-> TRUE, batch |-> batching, way |-> calldata.way,
              amount |-> calldata.amount, min |-> calldata.amount, shown |-> shown]}
     ELSE {[broker |-> FALSE, batch |-> batching, way |-> w, amount |-> typed,
            min |-> minimumOf, shown |-> shown] : w \in {way, path} \ {NoWay}}

\* handleSwap.
Click ==
  /\ typed # 0 /\ ~isBusy /\ left.sends > 0 /\ left' = [left EXCEPT !.sends = @ - 1]
  /\ \E s \in Swaps, n \in 0..2 :
       click' = [on |-> TRUE, approvals |-> IF s.batch THEN 0 ELSE n, asked |-> s.batch,
                 swap |-> s]
  /\ UNCHANGED <<form, queries, batching, raw, hash, refused, batch, sent>>
  /\ Rendered(panel, 0, resets)

\* The ERC20 approval and that of Permit2, each with its receipt.
Approve ==
  /\ click.on /\ click.approvals > 0
  /\ click' = [click EXCEPT !.approvals = @ - 1]
  /\ UNCHANGED <<form, queries, left, batching, raw, hash, refused, batch, sent>>
  /\ Rendered(panel, 0, resets)

\* The wallet is asked for the swap itself.  useWriteContract starts afresh.
Ask ==
  /\ click.on /\ click.approvals = 0 /\ ~click.asked
  /\ click' = [click EXCEPT !.asked = TRUE]
  /\ IF click.swap.broker THEN UNCHANGED <<hash, refused>>
     ELSE hash' = 0 /\ refused' = FALSE
  /\ UNCHANGED <<form, queries, left, batching, raw, batch, sent>>
  /\ Rendered(panel, 0, resets)

\* An approval or the swap is refused, or fails.
Refuse ==
  /\ click.on /\ click' = Idle
  /\ refused' = (refused \/ (click.asked /\ ~click.swap.batch /\ ~click.swap.broker))
  /\ UNCHANGED <<form, queries, left, batching, raw, hash, batch, sent>>
  /\ Rendered(panel, 0, resets)

Send ==
  /\ click.on /\ click.asked /\ click' = Idle
  /\ sent' = Append(sent, [swap |-> click.swap, seen |-> "waiting"])
  /\ LET n == Len(sent) + 1 IN
       IF click.swap.batch THEN batch' = n /\ UNCHANGED <<raw, hash>>
       ELSE IF click.swap.broker THEN raw' = n /\ UNCHANGED <<batch, hash>>
       ELSE hash' = n /\ UNCHANGED <<batch, raw>>
  /\ UNCHANGED <<form, queries, left, batching, refused>>
  /\ Rendered(panel, 0, resets)

\* A receipt, or an error: the swap reverted or its receipt was not to be had.
Settle ==
  /\ Receipt("waiting")
  /\ \E seen \in {"ok", "failed"} : sent' = [sent EXCEPT ![activeSwapHash].seen = seen]
  /\ UNCHANGED <<form, queries, left, batching, click, raw, hash, refused, batch>>
  /\ Rendered(panel, 0, resets)

\* The status of a batch.  One without receipts ends without a word.
SettleBatch ==
  /\ batch # 0 /\ batch' = 0
  /\ UNCHANGED <<form, queries, left, batching, click, raw, hash, refused>>
  /\ \E seen \in {"ok", "failed", "unlisted"} :
       /\ sent' = [sent EXCEPT ![batch].seen = seen]
       /\ Rendered(IF seen = "failed" THEN Told(panel, "error", 0) ELSE panel,
                   IF seen = "ok" THEN batch ELSE 0, resets)

Button ==
  Capabilities \/ Click \/ Approve \/ Ask \/ Refuse \/ Send \/ Settle \/ SettleBatch

ScreenNext == Form \/ Button

ScreenSpec == ScreenInit /\ [][ScreenNext]_screenVars
-----------------------------------------------------------------------------
(* Properties.                                                             *)

ScreenTypeOK ==
  /\ way \in Way /\ {typed, debounced} \subseteq Amount \cup {0}
  /\ answer \in {"none", "rate", "amount"} /\ path \in Way \cup {NoWay}
  /\ calldata \in {NoData} \cup [way : Way, amount : Amount]
  /\ panel \in [mode : {"info", "pending", "completed", "failed"}, tx : 0..MaxSends]
  /\ {raw, hash, batch, toasted} \subseteq 0..Len(sent) /\ Len(sent) <= MaxSends
  /\ resets \in Nat /\ notified \in [Swap -> Nat]

(***************************************************************************)
(* A swap, however long its approvals took and whatever was typed or       *)
(* cleared meanwhile, is the one on the screen at the click, with the      *)
(* minimum of its amount: when the click came within the debounce or while *)
(* the path was loading, calldata still has the right tokens and its own   *)
(* minimum, and a swap encoded here the right amount.                      *)
(***************************************************************************)
TradesWhatWasShown ==
  \A n \in DOMAIN sent :
    LET s == sent[n].swap IN
      /\ s.broker => s.way = s.shown.way /\ s.min = s.amount
      /\ ~s.broker => s.amount = s.shown.typed
      /\ s.shown.rest =>
           /\ s.way = s.shown.way /\ s.amount = s.shown.typed
           /\ s.shown.answer # "none" => s.min = s.amount

\* Sent with useWriteContract while rawSwapHash stays that of an earlier swap.
Unwatched(n) ==
  LET s == sent[n].swap IN
    /\ ~s.broker /\ ~s.batch
    /\ \E m \in 1..(n - 1) : sent[m].swap.broker /\ ~sent[m].swap.batch

(***************************************************************************)
(* The button lets no second swap start while one is under way, through    *)
(* either hash and the batch: but for one whose hash is not watched.       *)
(***************************************************************************)
OneSwapAtATime ==
  \A n \in DOMAIN sent :
    sent[n].seen = "waiting" /\ ~Unwatched(n) => n = Len(sent) /\ ~click.on

(***************************************************************************)
(* Each success is announced and reported to the backend, and only a       *)
(* success is; more than once only when a batch has come after it: the     *)
(* toast remembers one swap, and the old receipt is still there.  The      *)
(* completed panel is of a swap that succeeded.                            *)
(***************************************************************************)
ReportedOnce ==
  /\ \A n \in Swap :
       IF n \in DOMAIN sent /\ sent[n].seen = "ok"
         THEN /\ notified[n] >= 1
              /\ notified[n] > 1 => \E m \in DOMAIN sent : m > n /\ sent[m].swap.batch
       ELSE notified[n] = 0
  /\ panel.mode = "completed" =>
       panel.tx \in DOMAIN sent /\ sent[panel.tx].seen = "ok"
=============================================================================
