------------------------------- MODULE MCRules ------------------------------
(***************************************************************************)
(* What decides which orders are wanted and which are let through, checked *)
(* for safety in one model: the paper ladder, the risk gate, the risk      *)
(* engine and the canary controller, the quotes, reconciliation, volume    *)
(* pressure and surveillance.  A behaviour is a behaviour of one part,     *)
(* chosen in the initial state.                                            *)
(*                                                                         *)
(* Two orders may rest at three prices; the canary's order limit is below  *)
(* the largest quote.  Two breakers open at the second failure; a canary   *)
(* of two orders a day.                                                    *)
(***************************************************************************)
EXTENDS PaperLadder, RiskGate, RiskControls, QuoteLadder, ReconciliationReport, VolumePressure, Surveillance

VARIABLE part

allVars == <<part, vars, gateVars, controlVars, reportVars, volumeVars, watchVars, quoteVars>>

\* Daily results passed to the risk engine: even, and the loss limit.
Results == {0, -5}

\* A wide and a tight configuration: sizes that do not overlap, a threshold
\* larger and one smaller than the spread allows for.
Wide == [baseSpread |-> 8000, minSpread |-> 6000, maxSpread |-> 12000, volMultiplier |-> 50,
         baseSize |-> 20, minSize |-> 10, maxSize |-> 40, ladderLevels |-> 3, sizeMultiplier |-> 150,
         enabledLevels |-> 2, maxPerSide |-> 3, spacing |-> 2000, outer |-> 150, threshold |-> 1200,
         target |-> 50, intensity |-> 75]

Tight == [Wide EXCEPT !.baseSpread = 2000, !.minSpread = 1000, !.baseSize = 6, !.minSize = 5, !.maxSize = 8,
                      !.sizeMultiplier = 50, !.maxPerSide = 2, !.threshold = 5000, !.target = 25, !.intensity = 400]

WideAndTight == {Wide, Tight}
NarrowBooks == {<<880, 900>>, <<886, 898>>}
SellersBuyers == {-100, 0, 50}
Portfolios == {<<0, 0>>, <<3, 1>>}
Calm == [book |-> <<880, 900>>, volatility |-> 0, imbalance |-> 0, holding |-> <<0, 0>>, pressure |-> 100]

Even == [target |-> [hour |-> 1, day |-> 4, week |-> 8], participation |-> 2000, threshold |-> 2500,
         maxMultiplier |-> 15000, gap |-> 2, enabled |-> TRUE, externalRequired |-> TRUE]

\* A week of two days of four hours of two ticks, and the first day of the next
\* week; the targets of the second setting leave the hour free.
VolumeSettings ==
  {Even,
   [Even EXCEPT !.target = [hour |-> 0, day |-> 0, week |-> 2], !.gap = 1, !.externalRequired = FALSE, !.threshold = 5000],
   [Even EXCEPT !.enabled = FALSE]}

\* Every pair of snapshots that differ in one kind of record: up to two records a
\* side, two keys, amounts that are equal, within the tolerance and outside it.
UpToTwo(S) == {<<>>} \cup {<<x>> : x \in S} \cup {<<x, y>> : x \in S, y \in S}
Names == {"a", "b"}
Amounts == {0, 1, 3}
Summaries == {{}} \cup {{p} : p \in [realized : Amounts, unrealized : {0, 2}, fees : {0, 2}]}

RecordPairs ==
  LET Snapshots(field, S) == {[EmptySnapshot EXCEPT ![field] = x] : x \in S}
      Of(field, S) == Snapshots(field, S) \X Snapshots(field, S)
  IN  Of("balances", UpToTwo([asset : Names, total : Amounts, available : {0, 2}]))
      \cup Of("positions", UpToTwo([symbol : {"s"}, asset : Names, quantity : {0, 2}, notional : Amounts]))
      \cup Of("orders", UpToTwo([client_order_id : Names, status : {"open", "created"}, filled_quantity : Amounts]))
      \cup Of("fills", UpToTwo([trade_id : Names]))
      \cup Of("pnl", Summaries)

RulesInit ==
  /\ Init /\ GateInit /\ ControlsInit /\ WatchInit
  /\ part \in {"ladder", "gate", "breakers", "canary", "quotes", "reconciliation", "volume", "matching", "rates"}
  /\ \/ part = "quotes" /\ QuoteInit
     \/ /\ part # "quotes" /\ live = FALSE /\ config = Wide /\ market = Calm
        /\ working = EmptyLadder /\ sent = {} /\ refused = {} /\ fresh = FALSE
  /\ \/ part = "reconciliation" /\ ReportInit
     \/ part # "reconciliation" /\ theirs = EmptySnapshot /\ ours = EmptySnapshot /\ mismatches = {} /\ compared = FALSE
  /\ \/ part = "volume" /\ VolumeInit
     \/ /\ part # "volume" /\ clock = 0 /\ trades = {} /\ external = 0 /\ settings = Even
        /\ last = Never /\ signal = Never /\ pressed = FALSE
  /\ part # "gate" => mode = "paper" /\ \A q \in Prices : bid <= q /\ ask <= q

\* Up to three failures on one day, or one failure, two days and an approval.
OneDay == days' = 0 /\ granted' = 0
OneFailure == errors' <= 1

\* Two accounts and two prices, three orders and a fill at one time; or one account
\* at one price on a clock of four, one event allowed per window of one or two
\* ticks, so that a window fills, empties and fills again.
Matching == now' = 0 /\ Cardinality(filled') <= 1
Rates == \A o \in open_orders' : o.account = "a" /\ o.price = 1

\* Sellers press on the paper quotes, buyers on those for the venue.
Imbalanced == market'.imbalance # IF live THEN -100 ELSE 50

\* These parts come to an end when their bounds are used up.
Ended ==
  /\ part \in {"breakers", "canary", "gate", "reconciliation", "matching", "rates"}
  /\ UNCHANGED allVars

RulesNext ==
  \/ part = "ladder" /\ Next /\ UNCHANGED <<part, gateVars, controlVars, reportVars, volumeVars, watchVars, quoteVars>>
  \/ part = "gate" /\ GateNext /\ UNCHANGED <<part, vars, controlVars, reportVars, volumeVars, watchVars, quoteVars>>
  \/ part = "breakers" /\ ControlsNext /\ OneDay /\ UNCHANGED <<part, vars, gateVars, reportVars, volumeVars, watchVars, quoteVars>>
  \/ part = "canary" /\ ControlsNext /\ OneFailure /\ UNCHANGED <<part, vars, gateVars, reportVars, volumeVars, watchVars, quoteVars>>
  \/ part = "reconciliation" /\ ReportNext /\ UNCHANGED <<part, vars, gateVars, controlVars, volumeVars, watchVars, quoteVars>>
  \/ part = "volume" /\ VolumeNext /\ UNCHANGED <<part, vars, gateVars, controlVars, reportVars, watchVars, quoteVars>>
  \/ part = "matching" /\ WatchNext /\ Matching /\ UNCHANGED <<part, vars, gateVars, controlVars, reportVars, volumeVars, quoteVars>>
  \/ part = "rates" /\ WatchNext /\ Rates /\ UNCHANGED <<part, vars, gateVars, controlVars, reportVars, volumeVars, quoteVars>>
  \/ part = "quotes" /\ QuoteNext /\ Imbalanced /\ UNCHANGED <<part, vars, gateVars, controlVars, reportVars, volumeVars, watchVars>>
  \/ Ended

RulesSpec == RulesInit /\ [][RulesNext]_allVars

-----------------------------------------------------------------------------
(* Properties: what each part's module says of itself, of its behaviours.   *)

\* The type invariants of the parts.
PartTypeOK == TypeOK /\ GateTypeOK /\ ControlsTypeOK /\ QuoteTypeOK /\ VolumeTypeOK /\ WatchTypeOK
=============================================================================
