---------------------------- MODULE QuoteLadder ----------------------------
(***************************************************************************)
(* The numbers of the quote ladder: the spread, the inventory skew and the *)
(* ladder itself (engines/market_making/engine.py), the volume pressure    *)
(* put on it and the drift test of the runtime, and the precision filter   *)
(* an order meets on its way to Coinstore (execution/precision.py).        *)
(* PaperLadder has the order handling of the same refresh, with its quotes *)
(* abstract; VolumePressure has where the pressure comes from.             *)
(*                                                                         *)
(* Prices are whole numbers of the 1e-8 the engine rounds to.  Every rate  *)
(* is a whole number of hundredths of a basis point (a millionth), every   *)
(* ratio and multiplier of hundredths, and the constants are chosen so     *)
(* that no intermediate result needs a finer unit: the arithmetic is exact *)
(* where the code's doubles are within one part in 2^52 of it.             *)
(***************************************************************************)
EXTENDS Integers, FiniteSetsExt

CONSTANTS
    Configs,      \* the runtime configurations in turn: spread, order_size, order_layers, inventory
    Books,        \* <<best bid, best ask>>
    Volatilities, \* realized volatility, as a rate
    Imbalances,   \* imbalance_ratio in hundredths, -100..100
    Holdings,     \* <<base notional, quote notional>>
    Pressures,    \* size_multiplier in hundredths; 100 is no pressure
    Levels,       \* the ladder levels of the paper orders
    PriceTick, QuantityStep, MinQuantity, MinNotional   \* SymbolPrecision

Million == 1000000

QuoteFields ==
    {"baseSpread", "minSpread", "maxSpread", "volMultiplier", "baseSize", "minSize", "maxSize", "ladderLevels",
     "sizeMultiplier", "enabledLevels", "maxPerSide", "spacing", "outer", "threshold", "target", "intensity"}

\* The validators of core/config.py on the four settings.
Valid(c) ==
    /\ c \in [QuoteFields -> Nat]
    /\ 0 < c.minSpread /\ c.minSpread <= c.baseSpread /\ c.baseSpread <= c.maxSpread
    /\ 0 < c.minSize /\ c.minSize <= c.baseSize /\ c.baseSize <= c.maxSize
    /\ c.ladderLevels \in 1..50 /\ c.enabledLevels \in 1..50 /\ c.maxPerSide \in 1..100
    /\ c.sizeMultiplier > 0 /\ c.spacing > 0 /\ c.outer >= 100 /\ c.threshold > 0
    /\ c.target \in 0..100 /\ c.intensity >= 0 /\ c.volMultiplier >= 0

ASSUME QuotesAssumption ==
    /\ \A c \in Configs : Valid(c)
    /\ Books \subseteq Nat \X Nat /\ \A b \in Books : 0 < b[1] /\ b[1] < b[2]
    /\ Volatilities \subseteq Nat /\ Imbalances \subseteq -100..100 /\ Holdings \subseteq Nat \X Nat
    /\ Pressures \subseteq Nat /\ \A p \in Pressures : p >= 100
    /\ Levels \subseteq Nat \ {0}
    /\ {PriceTick, QuantityStep, MinQuantity, MinNotional} \subseteq Nat \ {0}

QuoteSides == {"buy", "sell"}
NoOrder == [price |-> 0, quantity |-> 0]  \* no paper order in a place of the ladder
EmptyLadder == [s \in QuoteSides |-> [l \in Levels |-> NoOrder]]

VARIABLES
    live,      \* mode is canary or live: quotes go to Coinstore
    config,    \* the settings in force, after update_settings
    market,    \* the inputs of the last refresh
    working,   \* working[side][level]: the paper order in that place
    sent,      \* orders of the last ladder that reached Coinstore
    refused,   \* quotes of the last ladder refused before they were sent
    fresh      \* the last step was a refresh

quoteVars == <<live, config, market, working, sent, refused, fresh>>

Magnitude(n) == IF n < 0 THEN -n ELSE n

-----------------------------------------------------------------------------
(* The quote engine.                                                       *)

\* Python's round: half to even.
Round(n, d) ==
    LET q == n \div d
        r == n % d
    IN  IF 2 * r > d \/ (2 * r = d /\ q % 2 = 1) THEN q + 1 ELSE q

\* SpreadEngine.adjusted_spread_bps
AdjustedSpread(c, m) ==
    Min({c.maxSpread, Max({c.minSpread, c.baseSpread + (m.volatility * c.volMultiplier) \div 100
                                                     + (Magnitude(m.imbalance) * c.baseSpread) \div 100})})

\* InventoryEngine.exposures: the base asset's share of the holdings.
BaseRatio(m) ==
    LET total == m.holding[1] + m.holding[2]
    IN  IF total <= 0 THEN 0 ELSE (100 * m.holding[1]) \div total

\* InventorySkewEngine.skew_bps
Skew(c, m) == (BaseRatio(m) - c.target) * c.intensity

\* OrderLadderEngine.build: the levels it builds, and the total spread of one.
ActiveLevels(c) == 1..Min({c.ladderLevels, c.enabledLevels, c.maxPerSide})

LevelSpread(c, m, level) ==
    AdjustedSpread(c, m) + (c.spacing * (level - 1) * c.outer) \div 100 + Max({0, m.volatility})

\* Size of a level's order.
Quantity(c, level) ==
    Min({c.maxSize, Max({c.minSize, (c.baseSize * c.sizeMultiplier ^ (level - 1)) \div 100 ^ (level - 1)})})

\* LiquidityPlacementLayer.improve_for_imbalance
Improvement(m, side) ==
    CASE m.imbalance > 0 /\ side = "sell" -> -m.imbalance
      [] m.imbalance < 0 /\ side = "buy"  -> -m.imbalance
      [] OTHER -> 0

\* PriceProtectionLayer.protect
Protect(side, rate, distance) == IF side = "buy" THEN Min({rate, distance}) ELSE Max({rate, -distance})

\* The distance of a quote from mid, signed: spread, skew, improvement, protection.
Rate(c, m, side, level) ==
    LET half == LevelSpread(c, m, level) \div 2
        rate == (IF side = "buy" THEN -half ELSE half) - Skew(c, m)
    IN  Protect(side, rate + Improvement(m, side), Max({LevelSpread(c, m, level), 100}))

Markets ==
    [book : Books, volatility : Volatilities, imbalance : Imbalances, holding : Holdings, pressure : Pressures]

\* The units are fine enough: half a spread is a whole number of them.  The powers
\* in a level's size are whole numbers, too.
ASSUME ExactAssumption ==
    \A c \in Configs : \A level \in ActiveLevels(c) :
        /\ c.sizeMultiplier ^ (level - 1) \in Nat /\ 100 ^ (level - 1) \in Nat \ {0}
        /\ \A m \in Markets : LevelSpread(c, m, level) % 2 = 0

\* QuoteEngine.generate_quotes: one quote, at mid = (bid + ask) / 2.
Generated(c, m, side, level) ==
    [price    |-> Round((m.book[1] + m.book[2]) * (Million + Rate(c, m, side, level)), 2 * Million),
     quantity |-> Quantity(c, level)]

\* _apply_volume_pressure: larger orders, kept on their own side of the market.
Pressed(c, m, side, quote) ==
    IF m.pressure = 100 THEN quote
    ELSE [price    |-> IF side = "buy" THEN Min({quote.price, Round(m.book[2] * (Million - 1), Million)})
                                       ELSE Max({quote.price, Round(m.book[1] * (Million + 1), Million)}),
          quantity |-> Min({c.maxSize, (quote.quantity * m.pressure) \div 100})]

Desired(c, m, side, level) == Pressed(c, m, side, Generated(c, m, side, level))

-----------------------------------------------------------------------------
(* What becomes of the quotes.                                             *)

\* A drift test on the price alone.
DriftedPriceOnly(c, order, quote) ==
    Magnitude(quote.price - order.price) * Million >= c.threshold * Magnitude(quote.price)

\* _quote_drifted
Drifted(c, order, quote) ==
    \/ Magnitude(quote.price - order.price) * Million >= c.threshold * Magnitude(quote.price)
    \/ quote.quantity /= order.quantity

\* _sync_paper_ladder and the placements behind it, for orders that neither age
\* nor fill: an order stays while it has not drifted.
Synced(c, m, side, level) ==
    IF level \notin ActiveLevels(c) THEN NoOrder
    ELSE IF working[side][level] /= NoOrder /\ ~Drifted(c, working[side][level], Desired(c, m, side, level))
         THEN working[side][level]
         ELSE Desired(c, m, side, level)

\* quantize_down
QuantizeDown(n, increment) == (n \div increment) * increment

\* validate_symbol_precision, called by verify_runtime_ready before anything is sent
Precise(q) ==
    /\ q.quantity >= MinQuantity /\ QuantizeDown(q.quantity, QuantityStep) = q.quantity
    /\ q.price > 0 /\ QuantizeDown(q.price, PriceTick) = q.price
    /\ q.quantity * q.price >= MinNotional

\* apply_symbol_precision, called by the client on what is left
Applied(q) == [price |-> QuantizeDown(q.price, PriceTick), quantity |-> QuantizeDown(q.quantity, QuantityStep)]

Labelled(side, order) == [side |-> side, price |-> order.price, quantity |-> order.quantity]

\* MarketMakerRuntime._quote_symbol and _submit_quotes
RefreshQuotes(m) ==
    /\ market' = m /\ fresh' = TRUE
    /\ \/ /\ ~live
          /\ working' = [s \in QuoteSides |-> [l \in Levels |-> Synced(config, m, s, l)]]
          /\ UNCHANGED <<sent, refused>>
       \/ /\ live
          /\ LET quotes == {<<s, Desired(config, m, s, l)>> : s \in QuoteSides, l \in ActiveLevels(config)}
             IN  /\ sent' = {Labelled(q[1], Applied(q[2])) : q \in {p \in quotes : Precise(p[2])}}
                 /\ refused' = {Labelled(q[1], q[2]) : q \in {p \in quotes : ~Precise(p[2])}}
          /\ UNCHANGED working
    /\ UNCHANGED <<live, config>>

\* QuoteEngine.update_settings on a new configuration: orders stay until the next refresh.
UpdateQuoteSettings ==
    /\ config' \in Configs \ {config}
    /\ fresh' = FALSE
    /\ UNCHANGED <<live, market, working, sent, refused>>

QuoteInit ==
    /\ live \in BOOLEAN
    /\ config \in Configs
    /\ market \in Markets
    /\ working = EmptyLadder
    /\ sent = {} /\ refused = {} /\ fresh = FALSE

QuoteNext == UpdateQuoteSettings \/ \E m \in Markets : RefreshQuotes(m)

QuoteSpec == QuoteInit /\ [][QuoteNext]_quoteVars

-----------------------------------------------------------------------------
(* Properties.                                                             *)

\* Type invariant: prices and sizes stay positive in every configuration.
QuoteTypeOK ==
    /\ live \in BOOLEAN /\ config \in Configs /\ market \in Markets /\ fresh \in BOOLEAN
    /\ \A s \in QuoteSides, l \in Levels :
          working[s][l] = NoOrder \/ (working[s][l].price > 0 /\ working[s][l].quantity > 0)
    /\ \A q \in sent \cup refused : q.side \in QuoteSides /\ q.price > 0 /\ q.quantity > 0

\* The smallest spread exceeds the improvement of one basis point and the drift
\* two kept orders may show, by more than the rounding of two prices; and spread
\* and skew keep every quote within a quarter of mid, so that a threshold relative
\* to a quote is not much more than one relative to mid.
Roomy ==
    /\ (market.book[1] + market.book[2]) * (config.minSpread - 100 - 3 * config.threshold) > 2 * Million
    /\ \A l \in ActiveLevels(config) : 4 * (LevelSpread(config, market, l) + Magnitude(Skew(config, market))) <= Million

\* After a refresh the bot's own orders do not cross, the new ones and the ones
\* _quote_drifted has kept from earlier markets alike, whatever skew, improvement,
\* pressure and rounding did, as long as the configuration leaves room for drift.
NoSelfCross ==
    fresh /\ Roomy =>
        \A i, j \in Levels :
            working["buy"][i] /= NoOrder /\ working["sell"][j] /= NoOrder
                => working["buy"][i].price < working["sell"][j].price

\* After a refresh every working order has a size the configuration in force
\* allows: orders of an earlier configuration are replaced, pressure is capped.
SizesAllowed ==
    fresh => \A s \in QuoteSides, l \in Levels :
                working[s][l] /= NoOrder => working[s][l].quantity \in config.minSize..config.maxSize

\* Holding more of the base asset than the target, the bot offers at least as close
\* to mid as it bids, and the other way round, up to the rounding: the quotes lean
\* towards the target, as soon as the skew of the two sides together outweighs the
\* improvement of one basis point.
Reverting ==
    fresh /\ market.pressure = 100 /\ ~live =>
        \A l \in ActiveLevels(config) :
            LET bid    == Generated(config, market, "buy", l).price
                ask    == Generated(config, market, "sell", l).price
                centre == bid + ask - market.book[1] - market.book[2]  \* twice (bid + ask) / 2 - mid
                excess == BaseRatio(market) - config.target
            IN  /\ excess * config.intensity >= 50 => centre <= 2
                /\ excess * config.intensity <= -50 => centre >= -2

\* The orders of one ladder that reach the venue do not cross each other, though
\* the venue's grid may be coarser than the spread: nothing moves a price between
\* the check of its precision and the request.
SentUncrossed ==
    fresh /\ (market.book[1] + market.book[2]) * (config.minSpread - 100) > 2 * Million
        => \A p, q \in sent : p.side = "buy" /\ q.side = "sell" => p.price < q.price

\* _quotes_for_symbol, _quote_drifted and the precision check: after a refresh the
\* bot's own orders, kept and new ones, do not cross and have sizes the
\* configuration in force allows; the quotes lean towards the target share of the
\* base asset; and the orders of a ladder that reach the venue do not cross,
\* though its grid may be coarser than the spread.
QuotesSound == NoSelfCross /\ SizesAllowed /\ Reverting /\ SentUncrossed
=============================================================================
