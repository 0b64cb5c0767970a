--------------------------- MODULE TradingControl ---------------------------
(***************************************************************************)
(* How an operator's command reaches the market maker and when the market  *)
(* maker may still create an order.                                        *)
(*                                                                         *)
(* Three parties run concurrently:                                         *)
(*   - the API process, whose handlers write the Redis key risk:kill_switch*)
(*     and then publish a command (api/routes.py, runtime/config_service.py)*)
(*   - the engine's tick task: MarketMakerRuntime.tick, driven by          *)
(*     EngineDaemon.run;                                                   *)
(*   - the engine's consumer task: MarketMakerRuntime._consume_bus_events. *)
(* The two tasks share one event loop: control changes hands only at an    *)
(* await.  An action is the code between two awaits.                       *)
(*                                                                         *)
(* Prices, sizes and limits are data: whether a limit of the risk engine   *)
(* or of the canary controller rejects a quote is a free choice.           *)
(***************************************************************************)
EXTENDS Naturals, Sequences, FiniteSets

CONSTANTS
    Mode,         \* LaunchMode of the process, settings.TRADING_MODE
    Orders,       \* names for the orders that are open at the same time
    NSymbols,     \* len(settings.MARKET_DATA_SYMBOLS)
    MaxQuotes,    \* bound on the quotes of one symbol's ladder
    Requests,     \* operator requests this instance issues
    MaxRequests,  \* bound on how many of them
    MaxBus,       \* bound on undelivered messages of the subscription
    MaxFailures,  \* bound on failing calls to the database or the venue
    MaxRestarts,  \* bound on restarts of the engine process
    RedisFails    \* TRUE when reading the key may raise

LaunchMode == {"read_only", "shadow", "paper", "dry_run", "canary", "live"}

\* Operator requests that publish one command, and the command they publish.
PlainCommands == {"CANCEL_ALL_ORDERS", "CLOSE_POSITIONS", "RUNTIME_RESTART", "PAUSE", "STOP", "START"}

\* What a strategy configuration says; CONFIG_ON switches both flags on.
ConfigCommands == {"CONFIG_ON", "CONFIG_OFF"}

Commands == PlainCommands \cup ConfigCommands \cup {"DISABLE_TRADING", "ENABLE_TRADING"}

AllRequests == Commands \cup {"KILL_ENABLE", "KILL_DISABLE"}

ASSUME ConstantsAssumption ==
    /\ Mode \in LaunchMode
    /\ NSymbols \in Nat \ {0}
    /\ MaxQuotes \in Nat \ {0}
    /\ Requests \subseteq AllRequests
    /\ MaxRequests \in Nat
    /\ MaxBus \in Nat
    /\ MaxFailures \in Nat
    /\ MaxRestarts \in Nat
    /\ RedisFails \in BOOLEAN

VARIABLES
    killKey,     \* Redis: risk:kill_switch is active
    config,      \* database: the stored strategy configuration is "on"
    pub,         \* pub[c]: publications an accepted request has still to send
    bus,         \* messages the engine's subscription holds
    issued,      \* requests accepted so far
    trading,     \* runtime.trading_enabled
    quoting,     \* runtime.quoting_enabled
    cfgQuoting,  \* runtime.runtime_config.strategy.quoting_enabled
    riskKill,    \* runtime.risk_engine.kill_switch.active
    canaryKill,  \* runtime.canary.state.kill_switch_active
    book,        \* runtime.latest_orderbook is not empty
    open,        \* open orders: paper.open_orders, or those the venue holds
    closing,     \* those of them placed by CLOSE_POSITIONS
    due,         \* RECONCILIATION_INTERVAL_SECONDS have passed
    pc,          \* where the tick task is suspended
    left,        \* symbols the running tick has still to quote
    batch,       \* quotes _submit_quotes has still to submit
    drop,        \* orders the ladder sync or the reconciliation has still to cancel
    sent,        \* the order a live placement is waiting for
    con,         \* where the consumer task is suspended
    pend,        \* orders _cancel_all_orders has still to cancel
    failures,    \* calls that failed
    restarts,    \* restarts of the engine process
    late,        \* history: quotes placed since the key was last set
    after,       \* history: quotes placed since trading was last switched off
    grace,       \* history: quotes in the running batch when it was
    stuck        \* history: orders a failed _cancel_all_orders left open

opVars    == <<killKey, config, pub, bus, issued>>
flagVars  == <<trading, quoting, cfgQuoting>>
latchVars == <<riskKill, canaryKill>>
tickVars  == <<pc, left, batch, drop, sent>>
conVars   == <<con, pend>>
ordVars   == <<open, closing, stuck>>
histVars  == <<late, after, grace>>
faultVars == <<failures, restarts>>
vars == <<opVars, flagVars, latchVars, tickVars, conVars, ordVars, histVars, faultVars, book, due>>

SwitchesOK ==
    /\ killKey \in BOOLEAN /\ config \in BOOLEAN
    /\ trading \in BOOLEAN /\ quoting \in BOOLEAN /\ cfgQuoting \in BOOLEAN
    /\ riskKill \in BOOLEAN /\ canaryKill \in BOOLEAN
    /\ book \in BOOLEAN /\ due \in BOOLEAN

ControlOK ==
    /\ pub \in [Commands -> 0..3]
    /\ bus \in Seq(Commands) /\ Len(bus) <= MaxBus
    /\ issued \in 0..MaxRequests
    /\ open \subseteq Orders /\ closing \subseteq Orders /\ stuck \subseteq Orders
    /\ pc \in {"idle", "load", "quote", "volume", "sync", "submit", "live", "reconcile", "stale"}
    /\ left \in 0..NSymbols /\ batch \in 0..MaxQuotes
    /\ drop \subseteq Orders /\ sent \subseteq Orders
    /\ con \in {"idle", "cancel", "restart", "close"} /\ pend \subseteq Orders
    /\ failures \in 0..MaxFailures /\ restarts \in 0..MaxRestarts
    /\ late \in Nat /\ after \in Nat /\ grace \in 0..MaxQuotes

\* Type invariant: the loop counters stay within one tick's work and the queues
\* within their bounds.
TypeOK == SwitchesOK /\ ControlOK

\* What EngineDaemon._initialize_dependencies starts the runtime with: the stored
\* configuration or, when it cannot be read, default_runtime_config, which is on.
Loaded == {config, TRUE}

\* MarketMakerRuntime.__init__
Init ==
    /\ killKey = FALSE /\ config \in BOOLEAN
    /\ pub = [c \in Commands |-> 0] /\ bus = <<>> /\ issued = 0
    /\ trading \in Loaded /\ quoting = trading /\ cfgQuoting = trading
    /\ riskKill = FALSE /\ canaryKill = FALSE
    /\ book = FALSE /\ due = FALSE
    /\ open = {} /\ closing = {} /\ stuck = {}
    /\ pc = "idle" /\ left = 0 /\ batch = 0 /\ drop = {} /\ sent = {}
    /\ con = "idle" /\ pend = {}
    /\ failures = 0 /\ restarts = 0
    /\ late = 0 /\ after = 0 /\ grace = 0

-----------------------------------------------------------------------------
(* The API process.                                                        *)

Accept(r) == r \in Requests /\ issued < MaxRequests /\ issued' = issued + 1

SetKillKey ==
    /\ killKey' = TRUE
    /\ late' = IF killKey THEN late ELSE 0

\* admin_kill_switch_enable: the key only, nothing is published.
KillSwitchEnable ==
    /\ Accept("KILL_ENABLE") /\ SetKillKey
    /\ UNCHANGED <<config, pub, bus, after, grace, flagVars, latchVars, tickVars, conVars, ordVars, faultVars, book, due>>

\* admin_kill_switch_disable
KillSwitchDisable ==
    /\ Accept("KILL_DISABLE") /\ killKey' = FALSE
    /\ UNCHANGED <<config, pub, bus, flagVars, latchVars, tickVars, conVars, ordVars, histVars, faultVars, book, due>>

\* emergency_disable_trading and emergency_shutdown: the key is set first, the
\* command is published after further awaits.
EmergencyDisable ==
    /\ Accept("DISABLE_TRADING") /\ pub["DISABLE_TRADING"] = 0
    /\ SetKillKey
    /\ pub' = [pub EXCEPT !["DISABLE_TRADING"] = 1]
    /\ UNCHANGED <<config, bus, after, grace, flagVars, latchVars, tickVars, conVars, ordVars, faultVars, book, due>>

\* emergency_enable_trading
EmergencyEnable ==
    /\ Accept("ENABLE_TRADING") /\ pub["ENABLE_TRADING"] = 0
    /\ killKey' = FALSE
    /\ pub' = [pub EXCEPT !["ENABLE_TRADING"] = 1]
    /\ UNCHANGED <<config, bus, flagVars, latchVars, tickVars, conVars, ordVars, histVars, faultVars, book, due>>

\* admin_strategy_command and the other emergency endpoints.
PlainRequest(c) ==
    /\ Accept(c) /\ pub[c] = 0
    /\ pub' = [pub EXCEPT ![c] = 1]
    /\ UNCHANGED <<killKey, config, bus, flagVars, latchVars, tickVars, conVars, ordVars, histVars, faultVars, book, due>>

\* RuntimeConfigService.update_domain sends the new configuration on three
\* channels the market maker listens to.
UpdateDomain(c) ==
    /\ Accept(c) /\ pub[c] = 0
    /\ config' = (c = "CONFIG_ON")
    /\ pub' = [pub EXCEPT ![c] = 3]
    /\ UNCHANGED <<killKey, bus, flagVars, latchVars, tickVars, conVars, ordVars, histVars, faultVars, book, due>>

\* redis.client.publish: delivered at most once, lost when the engine's
\* subscription is down.
Publish(c) ==
    /\ pub[c] > 0
    /\ pub' = [pub EXCEPT ![c] = @ - 1]
    /\ \/ Len(bus) < MaxBus /\ bus' = Append(bus, c)
       \/ UNCHANGED bus
    /\ UNCHANGED <<killKey, config, issued, flagVars, latchVars, tickVars, conVars, ordVars, histVars, faultVars, book, due>>

Operator ==
    \/ KillSwitchEnable \/ KillSwitchDisable
    \/ EmergencyDisable \/ EmergencyEnable
    \/ \E c \in PlainCommands : PlainRequest(c)
    \/ \E c \in ConfigCommands : UpdateDomain(c)
    \/ \E c \in Commands : Publish(c)

-----------------------------------------------------------------------------
(* State shared by the two tasks of the engine.                            *)

External == {"canary", "live"}

\* _kill_switch_active fails closed except in these two modes.
FailsOpen == Mode \in {"paper", "shadow"}

\* The two results of _kill_switch_active.  A positive one latches the canary
\* controller (CanaryController.activate_shutdown).
KillSwitchActive ==
    /\ killKey \/ (RedisFails /\ ~FailsOpen)
    /\ canaryKill' = TRUE

\* Mutant of KillSwitchInactive: the key is not looked at.
KillSwitchUnread ==
    UNCHANGED canaryKill

KillSwitchInactive ==
    /\ ~killKey \/ (RedisFails /\ FailsOpen)
    /\ UNCHANGED canaryKill

\* Both strategy flags are assigned; the history variables note the moment
\* trading is switched off.
SetFlags(on) ==
    /\ trading' = on /\ quoting' = on
    /\ after' = IF trading /\ ~on THEN 0 ELSE after
    /\ grace' = IF trading /\ ~on THEN batch ELSE grace
    /\ UNCHANGED late

Remove(S) ==
    /\ open' = open \ S
    /\ closing' = closing \ S
    /\ stuck' = stuck \ S

\* Mutant of GatesOpen: the risk engine's kill switch is not asked.
GatesIgnoringRisk == ~canaryKill

\* Neither assert_order_allowed nor CanaryController.evaluate refuses outright.
GatesOpen == ~riskKill /\ ~canaryKill

\* Client order ids are uuids: never one that is still referred to.
Unused == Orders \ (open \cup drop \cup sent \cup pend)

\* A resting order trades: during the consumer's market data message, the
\* tick's load of the latest book, or the simulation that ends place_order; at
\* the venue, at any time.
Fill(o) ==
    /\ o \in open
    /\ Mode \in External \/ con \in {"idle", "close"} \/ pc \in {"load", "submit"}
    /\ Remove({o})
    /\ UNCHANGED <<opVars, flagVars, latchVars, tickVars, conVars, histVars, faultVars, book, due>>

\* ingest_market_event stores the book.
IngestBook ==
    /\ con = "idle" \/ pc = "load"
    /\ ~book /\ book' = TRUE
    /\ UNCHANGED <<opVars, flagVars, latchVars, tickVars, conVars, ordVars, histVars, faultVars, due>>

-----------------------------------------------------------------------------
(* The tick task.                                                          *)

\* tick: one look at the kill switch; an active one ends the tick before
\* quoting and before reconciliation.
TickStart ==
    /\ pc = "idle"
    /\ \/ KillSwitchActive /\ UNCHANGED <<pc, left>>
       \/ KillSwitchInactive /\ pc' = "load" /\ left' = NSymbols
    /\ UNCHANGED <<opVars, flagVars, riskKill, batch, drop, sent, conVars, ordVars, histVars, faultVars, book, due>>

\* _load_latest_market_state returns.
TickLoad ==
    /\ pc = "load" /\ pc' = "quote"
    /\ UNCHANGED <<opVars, flagVars, latchVars, left, batch, drop, sent, conVars, ordVars, histVars, faultVars, book, due>>

\* Mutant of QuoteSymbol: one turn too many of the loop over the symbols.
QuoteSymbolOnceMore ==
    /\ pc = "quote"
    /\ left' = left - 1
    /\ UNCHANGED <<opVars, flagVars, latchVars, pc, batch, drop, sent, conVars, ordVars, histVars, faultVars, book, due>>

\* _quote_symbol up to its first await, _volume_progress.
QuoteSymbol ==
    /\ pc = "quote" /\ left > 0
    /\ IF trading /\ quoting /\ cfgQuoting /\ book
       THEN pc' = "volume" /\ UNCHANGED left
       ELSE left' = left - 1 /\ UNCHANGED pc
    /\ UNCHANGED <<opVars, flagVars, latchVars, batch, drop, sent, conVars, ordVars, histVars, faultVars, book, due>>

\* Mutant of SubmitQuotes: trading_enabled is not looked at again after the await.
SubmitQuotesUnchecked ==
    /\ pc = "volume"
    /\ batch' \in 0..MaxQuotes
    /\ pc' = "submit"
    /\ UNCHANGED <<opVars, flagVars, latchVars, left, drop, sent, conVars, ordVars, histVars, faultVars, book, due>>

\* The quotes are generated and _submit_quotes begins.  Only paper mode first
\* cancels the resting orders the new ladder does not keep.
SubmitQuotes ==
    /\ pc = "volume"
    /\ \/ /\ ~trading
          /\ pc' = "quote" /\ left' = left - 1
          /\ UNCHANGED <<batch, drop>>
       \/ /\ trading
          /\ batch' \in 0..MaxQuotes
          /\ IF Mode = "paper"
             THEN pc' = "sync" /\ drop' \in SUBSET open
             ELSE pc' = "submit" /\ UNCHANGED drop
          /\ UNCHANGED left
    /\ UNCHANGED <<opVars, flagVars, latchVars, sent, conVars, ordVars, histVars, faultVars, book, due>>

\* _cancel_paper_lifecycle_order: paper.cancel_order ignores an order that has
\* gone in the meantime.
LifecycleCancel(o) ==
    /\ pc \in {"sync", "stale"} /\ o \in drop
    /\ drop' = drop \ {o}
    /\ Remove({o})
    /\ UNCHANGED <<opVars, flagVars, latchVars, pc, left, batch, sent, conVars, histVars, faultVars, book, due>>

LadderSynced ==
    /\ pc = "sync" /\ drop = {} /\ pc' = "submit"
    /\ UNCHANGED <<opVars, flagVars, latchVars, left, batch, drop, sent, conVars, ordVars, histVars, faultVars, book, due>>

\* The risk engine, the canary controller or the mode refuses the quote; a
\* canary limit also shuts the controller down.
RejectQuote ==
    /\ pc = "submit" /\ batch > 0 /\ batch' = batch - 1
    /\ canaryKill' \in {canaryKill, canaryKill \/ ~riskKill}
    /\ UNCHANGED <<opVars, flagVars, riskKill, pc, left, drop, sent, conVars, ordVars, histVars, faultVars, book, due>>

\* The quote passes.  A paper order rests at once; a live one is a request to
\* the venue whose answer is awaited.
PlaceQuote(o) ==
    /\ pc = "submit" /\ batch > 0
    /\ GatesOpen
    /\ Mode \in External \cup {"paper"}
    /\ o \in Unused
    /\ IF Mode = "paper"
       THEN open' = open \cup {o} /\ batch' = batch - 1 /\ UNCHANGED <<pc, sent>>
       ELSE sent' = {o} /\ pc' = "live" /\ UNCHANGED <<open, batch>>
    /\ late' = IF killKey THEN late + 1 ELSE late
    /\ after' = IF trading THEN after ELSE after + 1
    /\ UNCHANGED <<opVars, flagVars, latchVars, left, drop, conVars, closing, stuck, grace, faultVars, book, due>>

\* _place_live_order returns or raises; the venue may hold the order in both
\* cases.
LiveAnswer ==
    /\ pc = "live" /\ pc' = "submit" /\ batch' = batch - 1
    /\ open' \in {open, open \cup sent} /\ sent' = {}
    /\ UNCHANGED <<opVars, flagVars, latchVars, left, drop, conVars, closing, stuck, histVars, faultVars, book, due>>

QuotesDone ==
    /\ pc = "submit" /\ batch = 0
    /\ pc' = "quote" /\ left' = left - 1
    /\ UNCHANGED <<opVars, flagVars, latchVars, batch, drop, sent, conVars, ordVars, histVars, faultVars, book, due>>

SymbolsDone ==
    /\ pc = "quote" /\ left = 0 /\ pc' = "reconcile"
    /\ UNCHANGED <<opVars, flagVars, latchVars, left, batch, drop, sent, conVars, ordVars, histVars, faultVars, book, due>>

\* _maybe_reconcile: with the venue, any mismatch shuts the canary controller
\* down; on paper, orders past max_order_age_seconds are cancelled.
MaybeReconcile ==
    /\ pc = "reconcile"
    /\ \/ ~due /\ pc' = "idle" /\ UNCHANGED <<drop, canaryKill, due>>
       \/ /\ due /\ due' = FALSE
          /\ IF Mode \in External
             THEN pc' = "idle" /\ canaryKill' \in {canaryKill, TRUE} /\ UNCHANGED drop
             ELSE pc' = "stale" /\ drop' \in SUBSET open /\ UNCHANGED canaryKill
    /\ UNCHANGED <<opVars, flagVars, riskKill, left, batch, sent, conVars, ordVars, histVars, faultVars, book>>

StaleDone ==
    /\ pc = "stale" /\ drop = {} /\ pc' = "idle"
    /\ UNCHANGED <<opVars, flagVars, latchVars, left, batch, drop, sent, conVars, ordVars, histVars, faultVars, book, due>>

\* A database call raises: EngineDaemon.run rolls back and starts over.
TickFails ==
    /\ pc \notin {"idle", "live"} /\ failures < MaxFailures
    /\ failures' = failures + 1
    /\ pc' = "idle" /\ left' = 0 /\ batch' = 0 /\ drop' = {}
    /\ UNCHANGED <<opVars, flagVars, latchVars, sent, conVars, ordVars, histVars, restarts, book, due>>

TickStep ==
    \/ TickStart \/ TickLoad \/ QuoteSymbol \/ SubmitQuotes \/ LadderSynced
    \/ RejectQuote \/ LiveAnswer \/ QuotesDone \/ SymbolsDone \/ MaybeReconcile \/ StaleDone
    \/ \E o \in Orders : LifecycleCancel(o) \/ PlaceQuote(o)

IntervalElapses ==
    /\ ~due /\ due' = TRUE
    /\ UNCHANGED <<opVars, flagVars, latchVars, tickVars, conVars, ordVars, histVars, faultVars, book>>

-----------------------------------------------------------------------------
(* The consumer task: _handle_command and _apply_config_payload.           *)

Receive(c) ==
    /\ con = "idle" /\ bus # <<>> /\ Head(bus) = c
    /\ bus' = Tail(bus)
    /\ UNCHANGED <<killKey, config, pub, issued, tickVars, faultVars, due>>

\* _cancel_all_orders takes its list of paper orders before its first await.  Of
\* the orders at a venue, pend keeps those that its requests are sure to reach.
BeginCancelAll == pend' = open

\* A configuration of any domain rebuilds the risk engine and assigns the flags.
HandleConfig(c) ==
    /\ Receive(c)
    /\ SetFlags(c = "CONFIG_ON") /\ cfgQuoting' = (c = "CONFIG_ON")
    /\ riskKill' = FALSE
    /\ UNCHANGED <<canaryKill, conVars, ordVars, book>>

HandleDisable ==
    /\ Receive("DISABLE_TRADING")
    /\ SetFlags(FALSE) /\ riskKill' = TRUE
    /\ con' = "cancel" /\ BeginCancelAll
    /\ UNCHANGED <<cfgQuoting, canaryKill, ordVars, book>>

\* ENABLE_TRADING and the strategy actions start and resume: neither the risk
\* engine's kill switch nor the canary latch is released.
HandleEnable(c) ==
    /\ Receive(c)
    /\ \/ KillSwitchActive /\ UNCHANGED <<trading, quoting, histVars>>
       \/ KillSwitchInactive /\ SetFlags(TRUE)
    /\ UNCHANGED <<cfgQuoting, riskKill, conVars, ordVars, book>>

HandlePause ==
    /\ Receive("PAUSE") /\ SetFlags(FALSE)
    /\ UNCHANGED <<cfgQuoting, latchVars, conVars, ordVars, book>>

HandleStop ==
    /\ Receive("STOP") /\ SetFlags(FALSE)
    /\ con' = "cancel" /\ BeginCancelAll
    /\ UNCHANGED <<cfgQuoting, latchVars, ordVars, book>>

HandleCancelAll(c) ==
    /\ Receive(c)
    /\ con' = (IF c = "RUNTIME_RESTART" THEN "restart" ELSE "cancel") /\ BeginCancelAll
    /\ UNCHANGED <<flagVars, latchVars, histVars, ordVars, book>>

\* _close_paper_positions places its order before its first await and asks no
\* gate.
HandleClose ==
    /\ Receive("CLOSE_POSITIONS") /\ con' = "close"
    /\ \/ UNCHANGED <<open, closing>>
       \/ /\ Mode = "paper" /\ book
          /\ \E o \in Unused : open' = open \cup {o} /\ closing' = closing \cup {o}
    /\ UNCHANGED <<flagVars, latchVars, pend, histVars, stuck, book>>

\* One symbol of _close_coinstore_positions passes both gates, or exceeds a
\* limit of the canary controller.
CloseAtVenue(o) ==
    /\ con = "close" /\ Mode \in External /\ book
    /\ GatesOpen /\ o \in Unused
    /\ \/ open' = open \cup {o} /\ closing' = closing \cup {o} /\ UNCHANGED canaryKill
       \/ canaryKill' = TRUE /\ UNCHANGED <<open, closing>>
    /\ UNCHANGED <<opVars, flagVars, riskKill, tickVars, conVars, histVars, stuck, faultVars, book, due>>

CloseDone ==
    /\ con = "close" /\ con' = "idle"
    /\ UNCHANGED <<opVars, flagVars, latchVars, tickVars, pend, ordVars, histVars, faultVars, book, due>>

\* One paper.cancel_order of _cancel_all_orders.  When its row cannot be
\* written the exception ends the loop, after the order itself has gone.
CancelNext(o) ==
    /\ con \in {"cancel", "restart"} /\ Mode \notin External /\ o \in pend
    /\ \/ Remove({o}) /\ pend' = pend \ {o} /\ UNCHANGED <<con, failures>>
       \/ /\ failures < MaxFailures /\ failures' = failures + 1
          /\ open' = open \ {o} /\ closing' = closing \ {o}
          /\ stuck' = (stuck \cup (pend \cap open)) \ {o}
          /\ pend' = {} /\ con' = "idle"
    /\ UNCHANGED <<opVars, flagVars, latchVars, tickVars, histVars, restarts, book, due>>

\* The requests to the venue, one per symbol.  What was there before the first of
\* them is cancelled; an order that has arrived since is, if its symbol's turn
\* was still to come.  A request that raises ends the loop.
CancelAtVenue ==
    /\ con \in {"cancel", "restart"} /\ Mode \in External /\ con' = "idle" /\ pend' = {}
    /\ \E S \in SUBSET open :
          \/ pend \cap open \subseteq S /\ Remove(S) /\ book' = (book /\ con # "restart") /\ UNCHANGED failures
          \/ /\ failures < MaxFailures /\ failures' = failures + 1
             /\ open' = open \ S /\ closing' = closing \ S /\ stuck' = open \ S
             /\ UNCHANGED book
    /\ UNCHANGED <<opVars, flagVars, latchVars, tickVars, histVars, restarts, due>>

CancelDone ==
    /\ con \in {"cancel", "restart"} /\ Mode \notin External /\ pend = {} /\ con' = "idle"
    /\ book' = (book /\ con # "restart")
    /\ UNCHANGED <<opVars, flagVars, latchVars, tickVars, pend, ordVars, histVars, faultVars, due>>

ConsumerStep ==
    \/ \E c \in ConfigCommands : HandleConfig(c)
    \/ HandleDisable \/ HandlePause \/ HandleStop \/ HandleClose
    \/ CloseDone \/ CancelDone \/ CancelAtVenue
    \/ \E c \in {"ENABLE_TRADING", "START"} : HandleEnable(c)
    \/ \E c \in {"CANCEL_ALL_ORDERS", "RUNTIME_RESTART"} : HandleCancelAll(c)
    \/ \E o \in Orders : CancelNext(o) \/ CloseAtVenue(o)

\* The process restarts: memory and the subscription are lost, Redis, the
\* database and the venue's orders are not.
Restart ==
    /\ restarts < MaxRestarts /\ restarts' = restarts + 1
    /\ bus' = <<>>
    /\ \E on \in Loaded : SetFlags(on) /\ cfgQuoting' = on
    /\ riskKill' = FALSE /\ canaryKill' = FALSE
    /\ book' = FALSE /\ due' = FALSE
    /\ pc' = "idle" /\ left' = 0 /\ batch' = 0 /\ drop' = {} /\ sent' = {}
    /\ con' = "idle" /\ pend' = {}
    /\ IF Mode \in External
       THEN open' \in {open, open \cup sent} /\ UNCHANGED <<closing, stuck>>
       ELSE Remove(open)
    /\ UNCHANGED <<killKey, config, pub, issued, failures>>

Next ==
    \/ Operator \/ TickStep \/ TickFails \/ ConsumerStep \/ IntervalElapses \/ IngestBook \/ Restart
    \/ \E o \in Orders : Fill(o)

\* The event loop runs each of its tasks, and time passes.  Nothing obliges an
\* operator to act, a market to trade or a call to fail.
Fairness == WF_vars(TickStep) /\ WF_vars(ConsumerStep) /\ WF_vars(IntervalElapses)

Spec == Init /\ [][Next]_vars

FairSpec == Spec /\ Fairness

-----------------------------------------------------------------------------
(* Properties.                                                             *)

\* From the moment risk:kill_switch is set until it is cleared, the engine
\* creates at most the quotes one tick can submit: tick looks at the key once,
\* so the tick that is running finishes its symbols, and no later tick, not
\* even one of a restarted process, submits any.  It needs a key that can be
\* read or a mode in which _kill_switch_active fails closed.
KillSwitchBounded == (RedisFails => ~FailsOpen) => late <= NSymbols * MaxQuotes

\* Once trading_enabled is switched off, only quotes that _submit_quotes had
\* already been given are still placed: no later symbol and no later tick adds
\* any, whichever await of the tick the command arrived at.
SwitchedOffBounded == after <= grace

\* A DISABLE_TRADING the engine has handled leaves no paper order behind: while
\* the risk engine's kill switch is on, every open order is about to be
\* cancelled, is an emergency close, or was left by a cancel that failed.  A
\* tick suspended inside _submit_quotes cannot add to them.
KillDrains == (Mode = "paper" /\ riskKill) => open \subseteq pend \cup closing \cup stuck

\* No reconciliation waits, except for the key to be cleared.
ReconciledUnlessKilled == ~due \/ killKey

\* What docs/ops/BASELINE_VERIFICATION.md says of the kill switch: no order is
\* created while it is active.
NoNewOrdersWhileKilled == late = 0

\* What the same list says of reconciliation: it continues while the kill
\* switch is active.
ReconciliationContinues == due ~> ~due
=============================================================================
