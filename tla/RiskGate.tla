------------------------------ MODULE RiskGate ------------------------------
(***************************************************************************)
(* The numbers MarketMakerRuntime._submit_quotes hands to the risk engine  *)
(* and to the canary controller, and what the limits are worth with them.  *)
(* Exposure, result and open orders all come from the paper account: in    *)
(* canary and live mode they stay zero, because fills and resting orders   *)
(* are then the venue's.  Nothing calls CanaryController.record_order.     *)
(*                                                                         *)
(* From the assertion to the moment an order counts as open there is no    *)
(* await, so a quote is one step.  A fill trades the whole order, one unit *)
(* of the base asset; fees (a basis point) are below the unit of price.    *)
(* Circuit breakers are in RiskControls: the runtime records no failure.   *)
(***************************************************************************)
EXTENDS Integers, FiniteSets

CONSTANTS
    Prices,        \* prices of quotes and of the book
    OrderIds,      \* client order ids of the orders open at the same time
    MaxOrder,      \* risk.max_order_notional
    MaxPosition,   \* risk.max_position_notional
    MaxOpen,       \* risk.max_open_orders, also CanaryPolicy.max_order_count
    MaxLoss,       \* risk.max_daily_loss
    CanaryOrder,   \* CanaryPolicy.max_order_notional
    MaxFills,      \* bound on paper fills
    MaxPlaced,     \* bound on orders placed in canary mode
    MaxCommands    \* bound on commands and configuration reloads

ASSUME GateAssumption ==
    /\ Prices \subseteq Nat \ {0} /\ {MaxFills, MaxPlaced, MaxCommands} \subseteq Nat
    /\ {MaxOrder, MaxPosition, MaxOpen, MaxLoss, CanaryOrder} \subseteq Nat \ {0}
    /\ CanaryOrder <= MaxOrder

Sides == {"buy", "sell"}
Orders == [id : OrderIds, side : Sides, price : Prices]

VARIABLES
    mode,       \* LaunchMode of the settings: "paper" or "canary"
    bid, ask,   \* best prices of latest_orderbook
    base,       \* paper.account.balances of the base asset
    cash,       \* paper.account.balances of the quote asset, less the start
    realized,   \* paper.account.realized_pnl
    resting,    \* paper.open_orders
    venue,      \* orders resting at Coinstore
    trading,    \* runtime.trading_enabled
    killed,     \* runtime.risk_engine.kill_switch.active
    latched,    \* runtime.canary.state.kill_switch_active
    fills,      \* paper fills, for the bound
    commands,   \* commands handled, for the bound
    placed,     \* history: orders sent to the venue
    disabled,   \* history: a DISABLE_TRADING no CONFIG_RELOAD followed
    tripped     \* history: a quote above the canary's limit came up

bookVars    == <<bid, ask>>
accountVars == <<base, cash, realized, fills, resting>>
switchVars  == <<trading, killed, latched, commands, disabled, tripped>>
gateVars == <<mode, bookVars, accountVars, venue, placed, switchVars>>

Abs(n) == IF n < 0 THEN -n ELSE n

\* Type invariant: ids are unique among the open orders.
GateTypeOK ==
    /\ mode \in {"paper", "canary"}
    /\ bid \in Prices /\ ask \in Prices /\ bid <= ask
    /\ base \in -MaxFills..MaxFills /\ fills \in 0..MaxFills /\ cash \in Int /\ realized \in Nat
    /\ resting \subseteq Orders /\ \A o, p \in resting : o.id = p.id => o = p
    /\ venue \in 0..MaxPlaced /\ placed \in 0..MaxPlaced
    /\ trading \in BOOLEAN /\ killed \in BOOLEAN /\ latched \in BOOLEAN
    /\ disabled \in BOOLEAN /\ tripped \in BOOLEAN
    /\ commands \in 0..MaxCommands

GateInit ==
    /\ mode \in {"paper", "canary"}
    /\ bid \in Prices /\ ask \in Prices /\ bid <= ask
    /\ base = 0 /\ cash = 0 /\ realized = 0 /\ fills = 0 /\ resting = {}
    /\ venue = 0 /\ placed = 0
    /\ trading = TRUE /\ killed = FALSE /\ latched = FALSE
    /\ commands = 0 /\ disabled = FALSE /\ tripped = FALSE

-----------------------------------------------------------------------------
(* The paper account.                                                      *)

\* paper.exposure_notional, doubled: the mark is the middle of the book.
Exposure2 == Abs(base * (bid + ask))

\* _match_order
Crosses(o, b, a) == IF o.side = "buy" THEN a <= o.price ELSE b >= o.price

\* _apply_fill of every order of os that crosses: a sale books its whole proceeds
\* as realized result, a purchase books nothing.
Filled(os, b, a) ==
    LET buys  == {o \in os : o.side = "buy" /\ Crosses(o, b, a)}
        sells == {o \in os : o.side = "sell" /\ Crosses(o, b, a)}
    IN  /\ base' = base + Cardinality(buys) - Cardinality(sells)
        /\ cash' = cash + b * Cardinality(sells) - a * Cardinality(buys)
        /\ realized' = realized + b * Cardinality(sells)
        /\ fills' = fills + Cardinality(buys \cup sells) /\ fills' <= MaxFills
        /\ resting' = os \ (buys \cup sells)

\* ingest_market_event of an order book: simulate_fills over every open order; the
\* realized result grows with each sale and never falls.
IngestBook(b, a) ==
    /\ b <= a /\ <<b, a>> /= <<bid, ask>>
    /\ Filled(resting, b, a)
    /\ bid' = b /\ ask' = a
    /\ UNCHANGED <<venue, placed, switchVars>>

\* _sync_paper_ladder cancels what the new ladder does not keep.
CancelQuote(o) ==
    /\ mode = "paper" /\ o \in resting
    /\ resting' = resting \ {o}
    /\ UNCHANGED <<bookVars, base, cash, realized, fills, venue, placed, switchVars>>

-----------------------------------------------------------------------------
(* Quotes.                                                                 *)

\* Limits on the order alone.
RiskPerOrder(n) == n <= MaxOrder /\ Cardinality(resting) + 1 <= MaxOpen /\ realized > -MaxLoss

\* risk_engine.assert_order_allowed with the arguments of _submit_quotes.
RiskAllows(n) ==
    /\ n <= MaxOrder
    /\ Exposure2 + 2 * n <= 2 * MaxPosition
    /\ Cardinality(resting) + 1 <= MaxOpen
    /\ realized > -MaxLoss

\* canary.evaluate: counts, position and result of the controller stay zero, so
\* the notional of the order is the only limit that can shut it down.
CanaryTrips(n) == n > CanaryOrder

\* The controller refuses the order and forgets to latch.
RefuseUnlatched ==
    /\ tripped' = TRUE
    /\ UNCHANGED <<bookVars, accountVars, venue, placed, trading, killed, latched, commands, disabled>>

\* activate_shutdown out of evaluate
CanaryShutdown ==
    /\ latched' = TRUE /\ tripped' = TRUE
    /\ UNCHANGED <<bookVars, accountVars, venue, placed, trading, killed, commands, disabled>>

\* paper.place_order: the order is open, then the book fills what it crosses.
PlacePaper(o) ==
    /\ \A p \in resting : p.id /= o.id
    /\ Filled(resting \cup {o}, bid, ask)
    /\ UNCHANGED <<bookVars, venue, placed, switchVars>>

\* _place_live_order: the venue holds the order, the paper account stays empty.
PlaceLive ==
    /\ placed < MaxPlaced
    /\ venue' = venue + 1 /\ placed' = placed + 1
    /\ UNCHANGED <<bookVars, accountVars, switchVars>>

\* One quote of _submit_quotes that is not rejected by an exception.
GateQuote(o) ==
    /\ trading /\ ~killed /\ RiskAllows(o.price)
    /\ ~latched
    /\ \/ CanaryTrips(o.price) /\ CanaryShutdown
       \/ ~CanaryTrips(o.price) /\ mode = "paper" /\ PlacePaper(o)
       \/ ~CanaryTrips(o.price) /\ mode = "canary" /\ PlaceLive

\* An order at the venue ends.
VenueEnds ==
    /\ venue > 0 /\ venue' = venue - 1
    /\ UNCHANGED <<bookVars, accountVars, placed, switchVars>>

-----------------------------------------------------------------------------
(* Commands.                                                               *)

Handle == commands < MaxCommands /\ commands' = commands + 1

\* DISABLE_TRADING; _cancel_all_orders, step by step in TradingControl, at once.
DisableTrading ==
    /\ Handle
    /\ trading' = FALSE /\ killed' = TRUE /\ disabled' = TRUE
    /\ resting' = {} /\ venue' = 0
    /\ UNCHANGED <<bookVars, base, cash, realized, fills, placed, latched, tripped>>

\* ENABLE_TRADING: the flags only.
EnableTrading ==
    /\ Handle
    /\ trading' = TRUE
    /\ UNCHANGED <<bookVars, accountVars, venue, placed, killed, latched, disabled, tripped>>

\* _apply_config_payload: a new RiskEngine, whose kill switch is off, and the flags
\* of the configuration.
ConfigReload(on) ==
    /\ Handle
    /\ trading' = on /\ killed' = FALSE /\ disabled' = FALSE
    /\ UNCHANGED <<bookVars, accountVars, venue, placed, latched, tripped>>

GateNext ==
    /\ UNCHANGED mode
    /\ \/ \E b, a \in Prices : IngestBook(b, a)
       \/ \E o \in Orders : CancelQuote(o) \/ GateQuote(o)
       \/ VenueEnds
       \/ DisableTrading \/ EnableTrading \/ \E on \in BOOLEAN : ConfigReload(on)

GateSpec == GateInit /\ [][GateNext]_gateVars

-----------------------------------------------------------------------------
(* Properties.                                                             *)

Quoted == Cardinality(resting') > Cardinality(resting) \/ placed' > placed

\* In paper mode max_open_orders bounds the orders that rest, whatever fills and
\* cancels happen between the quotes of a ladder.
OpenBounded == Cardinality(resting) <= MaxOpen

\* The position limit is tested against the exposure of the moment, without the
\* orders that already rest: their fills carry the position beyond it, but, valued
\* at the lowest price, by fewer than max_open_orders units.
OvershootBounded ==
    \A p \in Prices : (\A q \in Prices : p <= q) => Abs(base) * p <= MaxPosition + (MaxOpen - 1) * p

\* RiskEngine with the numbers of the paper account: the orders that rest and the
\* position are bounded as these two say.  In canary mode the account stays empty.
RiskLimitsBound == OpenBounded /\ OvershootBounded

\* Of a step: after DISABLE_TRADING no quote is placed before a configuration reload: the
\* switch of the risk engine outlives ENABLE_TRADING.
DisabledUntilReload == Quoted => ~disabled

\* Of a step: once a quote exceeded the canary's order limit nothing is placed any more, in
\* any mode: evaluate latches and the process has no way back.
LatchIsFinal == Quoted => ~tripped

\* The runtime's latches, at every step: after DISABLE_TRADING no quote is placed before
\* a configuration reload, ENABLE_TRADING or not; once a quote exceeded the canary's
\* order limit nothing is placed any more.
StopsStay == [][DisabledUntilReload /\ LatchIsFinal]_gateVars
=============================================================================
