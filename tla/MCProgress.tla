------------------------------ MODULE MCProgress ----------------------------
(***************************************************************************)
(* What must eventually happen, checked in one model: the venue clients'   *)
(* rate limiter, or one of the parts below.  A behaviour is a behaviour of *)
(* one part, chosen in the initial state; the variables of the limiter are *)
(* its own, those of the other parts are kept in the first slots.          *)
(***************************************************************************)
EXTENDS RateLimiter

CONSTANT x   \* an order of live execution

VARIABLES
  part, s1, s2, s3, s4, s5, s6, s7, s8, s9, s10, s11, s12, s13, s14, s15, s16, s17, s18, s19, s20,
  s21, s22, s23, s24, s25, s26, s27

slots == <<s1, s2, s3, s4, s5, s6, s7, s8, s9, s10, s11, s12, s13, s14, s15, s16, s17, s18, s19, s20,
           s21, s22, s23, s24, s25, s26, s27>>
allVars == <<part, vars, slots>>

\* One symbol and one order; the key is set and cleared, a tick fails.
Control == INSTANCE TradingControl WITH
  Mode <- "paper", Orders <- {"o"}, NSymbols <- 1, MaxQuotes <- 1,
  Requests <- {"KILL_ENABLE", "KILL_DISABLE", "STOP", "CONFIG_ON"},
  MaxRequests <- 2, MaxBus <- 1, MaxFailures <- 1, MaxRestarts <- 0, RedisFails <- FALSE,
  killKey <- s1, config <- s2, pub <- s3, bus <- s4, issued <- s5, trading <- s6, quoting <- s7,
  cfgQuoting <- s8, riskKill <- s9, canaryKill <- s10, book <- s11, open <- s12, closing <- s13, due <- s14,
  pc <- s15, left <- s16, batch <- s17, drop <- s18, sent <- s19, con <- s20, pend <- s21,
  failures <- s22, restarts <- s23, late <- s24, after <- s25, grace <- s26, stuck <- s27

\* A venue that deduplicates and reports balances; an answer, a connection of the
\* stream and a write get lost.
Live == INSTANCE LiveExecution WITH
  BalanceTolerance <- 0, NotionalTolerance <- 0, Orders <- {x}, Side <- [o \in {x} |-> "sell"], Price <- [o \in {x} |-> 100],
  Size <- 1, BalanceRows <- TRUE, Deduplicates <- TRUE, MaxLost <- 1, MaxDrops <- 1, MaxFailures <- 1,
  Reconciles <- TRUE, MaxRestarts <- 0,
  venue <- s1, feed <- s2, link <- s3, db <- s4, disk <- s5, asked <- s6, pc <- s7, cur <- s8, tries <- s9,
  con <- s10, conTries <- s11, acks <- s12, due <- s13, canary <- s14, unheard <- s15,
  lost <- s16, drops <- s17, failures <- s18, restarts <- s19

\* Two updates of two domains.
Config == INSTANCE ConfigPublication WITH
  Domains <- {"risk", "liquidity"}, Feed <- {"liquidity"}, Fields <- {"a", "b"}, Default <- "off",
  Overlays <- {[a |-> "on"]}, Updates <- {"r1", "r2"}, UpdateFaults <- 0,
  configRows <- s1, req <- s2, engine <- s3, drift <- s4, updateFaults <- s5

\* Two runners, two migrations and a seed.
Migrate == INSTANCE SchemaMigrations WITH
  Runners <- {"r1", "r2"}, Migrations <- {1, 2}, Seeds <- {1}, Length <- 1, MaxRuns <- 2,
  byHand <- s1, files <- s2, created <- s3, history <- s4, ran <- s5, run <- s6, runs <- s7

\* The dashboard connects twice, the engine is restarted once.
Stream == INSTANCE OperationsStream WITH
  QueryLimit <- 1, Burst <- 1, MaxRows <- 1, MaxCount <- 2, MaxConnects <- 2, MaxStops <- 1,
  tableRows <- s1, up <- s2, counted <- s3, reported <- s4, poll <- s5, known <- s6, seenCount <- s7, first <- s8,
  polled <- s9, shown <- s10, connects <- s11, stops <- s12

\* Three outages of either dependency.
Daemon == INSTANCE EngineDaemon WITH
  Outages <- 3, MaxErrors <- 3,
  pc <- s1, redisUp <- s2, databaseUp <- s3, started <- s4, subscribed <- s5, session <- s6,
  health <- s7, beat <- s8, errors <- s9, torn <- s10, outages <- s11

\* Coinstore, which wants the subscriptions after its greeting; three faults.
Feed == INSTANCE MarketDataFeed WITH
  Subscriptions <- << [symbol |-> "BTC/USDT", kind |-> "orderbook"], [symbol |-> "BTC/USDT", kind |-> "ticker"] >>,
  Coinstore <- TRUE, SendsPrevious <- FALSE, MaxUpdates <- 3, MaxMessages <- 2, FeedFaults <- 3,
  venueSeq <- s1, messages <- s2, link <- s3, connected <- s4, last <- s5, latest <- s6, ticker <- s7,
  taken <- s8, feedFaults <- s9

\* One connector that gets order books, and an odd interval.
Store == INSTANCE MarketDataStore WITH
  Connectors <- {"c1"}, MessageKinds <- {"orderbook"}, PersistEvery <- 5, Rollbacks <- 2,
  task <- s1, counter <- s2, active <- s3, stored <- s4, fresh <- s5, cache <- s6, written <- s7,
  harmed <- s8, failed <- s9, rollbacks <- s10

\* The slots a part leaves unused.
Idle21 == s21 = 0 /\ s22 = 0 /\ s23 = 0 /\ s24 = 0 /\ s25 = 0 /\ s26 = 0 /\ s27 = 0
Idle13 == s13 = 0 /\ s14 = 0 /\ s15 = 0 /\ s16 = 0 /\ s17 = 0 /\ s18 = 0 /\ s19 = 0 /\ s20 = 0 /\ Idle21
Idle11 == s11 = 0 /\ s12 = 0 /\ Idle13
Idle8 == s8 = 0 /\ s9 = 0 /\ s10 = 0 /\ Idle11
Idle6 == s6 = 0 /\ s7 = 0 /\ Idle8
Idle1 == s1 = 0 /\ s2 = 0 /\ s3 = 0 /\ s4 = 0 /\ s5 = 0 /\ Idle6
After20 == <<s21, s22, s23, s24, s25, s26, s27>>
After12 == <<s13, s14, s15, s16, s17, s18, s19, s20, After20>>
After10 == <<s11, s12, After12>>
After7 == <<s8, s9, s10, After10>>
After5 == <<s6, s7, After7>>

ProgressInit ==
  /\ Init
  /\ \/ part = "limiter" /\ Idle1
     \/ part = "control" /\ Control!Init
     \/ part = "live" /\ Live!Init /\ s20 = 0 /\ Idle21
     \/ part = "config" /\ Config!ConfigInit /\ Idle6
     \/ part = "migrate" /\ Migrate!MigrateInit /\ Idle8
     \/ part = "stream" /\ Stream!StreamInit /\ Idle13
     \/ part = "daemon" /\ Daemon!DaemonInit /\ s12 = 0 /\ Idle13
     \/ part = "feed" /\ Feed!FeedInit /\ s10 = 0 /\ Idle11
     \/ part = "store" /\ Store!StoreInit /\ Idle11
  /\ part # "limiter" => \A r \in Calls : call[r].client = CHOOSE c \in Clients : TRUE

PartNext ==
  \/ part = "control" /\ Control!Next
  \/ part = "live" /\ Live!Next /\ UNCHANGED <<s20, After20>>
  \/ part = "config" /\ Config!ConfigNext /\ UNCHANGED After5
  \/ part = "migrate" /\ Migrate!MigrateNext /\ UNCHANGED After7
  \/ part = "stream" /\ Stream!StreamNext /\ UNCHANGED After12
  \/ part = "daemon" /\ Daemon!DaemonNext /\ UNCHANGED <<s12, After12>>
  \/ part = "feed" /\ Feed!FeedNext /\ UNCHANGED <<s10, After10>>
  \/ part = "store" /\ Store!StoreNext /\ UNCHANGED After10

\* These parts come to an end when their bounds are used up.
Stopped == part \in {"config", "migrate", "feed"} /\ UNCHANGED allVars

ProgressNext ==
  \/ part = "limiter" /\ Next /\ UNCHANGED <<part, slots>>
  \/ PartNext /\ UNCHANGED <<part, vars>>
  \/ Stopped

\* The slots a part uses.
liveVars == Live!vars
configVars == Config!configVars
migrateVars == Migrate!migrateVars
streamVars == Stream!streamVars
daemonVars == Daemon!daemonVars
feedVars == Feed!feedVars
storeVars == Store!storeVars

Fairness ==
  \* The event loop runs every call that is ready, and httpx ends every request.
  /\ \A r \in Calls : /\ WF_vars(part = "limiter" /\ (Send(r) \/ Refuse(r)))
                      /\ WF_vars(part = "limiter" /\ Answer(r))
  \* It runs each of the market maker's tasks, and time passes.
  /\ WF_slots(part = "control" /\ Control!TickStep)
  /\ WF_slots(part = "control" /\ Control!ConsumerStep)
  /\ WF_slots(part = "control" /\ Control!IntervalElapses)
  \* In live mode too; the tick ends although there are orders it could still
  \* place, and the private stream reconnects.
  /\ WF_liveVars(part = "live" /\ Live!TickStep)
  /\ WF_liveVars(part = "live" /\ Live!QuotesDone)
  /\ WF_liveVars(part = "live" /\ Live!ConsumerStep)
  /\ WF_liveVars(part = "live" /\ Live!StreamStep)
  /\ WF_liveVars(part = "live" /\ Live!IntervalElapses)
  \* Handlers run on and engine loops turn; faults and new requests need not.
  /\ \A r \in {"r1", "r2"} : WF_configVars(part = "config" /\ r \in DOMAIN s2 /\ Config!RequestStep(r))
  /\ \A e \in Config!Engines : WF_configVars(part = "config" /\ Config!EngineStep(e))
  \* PostgreSQL answers the statement a run waits for once the lock is free.
  /\ \A r \in {"r1", "r2"} : WF_migrateVars(part = "migrate" /\ Migrate!RunnerStep(r))
  \* The server runs the stream's task, a running engine beats.
  /\ WF_streamVars(part = "stream" /\ Stream!Poll)
  /\ WF_streamVars(part = "stream" /\ Stream!Wake)
  /\ WF_streamVars(part = "stream" /\ Stream!EngineBeat)
  \* The process takes its steps, the supervisor restarts it, outages end.
  /\ WF_daemonVars(part = "daemon" /\ Daemon!DaemonStep)
  /\ WF_daemonVars(part = "daemon" /\ Daemon!Repair)
  \* The connector's loop goes on; the venue and the faults need not.
  /\ WF_feedVars(part = "feed" /\ Feed!ConnectVenue)
  /\ WF_feedVars(part = "feed" /\ (Feed!ReceiveGreeting \/ Feed!ReceiveGap \/ Feed!Receive))
  \* Messages keep coming.
  /\ WF_storeVars(part = "store" /\ Store!Connector("c1"))

ProgressSpec == ProgressInit /\ [][ProgressNext]_allVars /\ Fairness
-----------------------------------------------------------------------------
(* Properties.                                                             *)

\* What is begun ends: every call of ExchangeRESTClient, in an answer or in an
\* error; every configuration update, although its insert may wait for another
\* request's transaction; every mmbot-db command, although runs wait for each
\* other's locks, since files are taken in one order.
BegunEnds ==
  /\ \A r \in Calls : []<>(part = "limiter" => Ended(r))
  /\ \A r \in {"r1", "r2"} : []<>(part = "config" => r \notin Config!InFlight)
  /\ \A r \in {"r1", "r2"} : []<>(part = "migrate" => Migrate!Finished(r))

\* What failed is made good: a reconciliation that is due is attempted even if
\* ticks before it failed, unless the key is set; every match of the venue ends up
\* as a committed trade, although the stream drops, writes fail and the tick's
\* rollback undoes what the stream wrote; the engine is healthy again and again,
\* however Redis and the database come and go, be it through a restart; and a
\* connector's subscriptions are restored after any drop.
Recovers ==
  /\ []<>(part = "control" => Control!ReconciledUnlessKilled)
  /\ \A m \in Live!Trade : []<>(part = "live" => Live!Recorded(m))
  /\ []<>(part = "daemon" => Daemon!Healthy)
  /\ []<>(part = "feed" => Feed!Subscribed)

\* What is observed is passed on: when the engines fall silent the operations stream
\* does too and has told the dashboard of everything; and while order books keep
\* coming and the interval is odd, order books (which count twice) keep being
\* stored.
Reported ==
  /\ <>[](part = "stream" => Stream!Settled)
  /\ []<>(part = "store" => Store!OrderBookWritten)
=============================================================================
