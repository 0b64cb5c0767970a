----------------------------- MODULE MCPlatform -----------------------------
(***************************************************************************)
(* The parts around the trading core, checked for safety in one model: a   *)
(* behaviour is a behaviour of one part, chosen in the initial state.      *)
(*                                                                         *)
(* Two clients of the lock acquire it twice each, on a clock of twice the  *)
(* time to live.  Three requests meet a limit of one in three windows.     *)
(* Four outages of either dependency meet the engine loop at any step.     *)
(* Two runners share migration files 1 to 3 and one seed file of two       *)
(* statements each: two runs overlap and a third comes after both, with a  *)
(* file added below one already applied.  Two prices and two sizes let the *)
(* levels of a book appear, change and disappear.                          *)
(*                                                                         *)
(* Two configuration domains, one of them fed to the market data engine,   *)
(* and two fields, so that two updates of one domain can set different     *)
(* things.  Three requests of any kind for a Coinstore account.  A query   *)
(* of the operations stream returns two rows and up to two arrive between  *)
(* polls, so that the limit is met exactly; more rows push rows out of the *)
(* window.  One symbol on two streams with previous sequence numbers on    *)
(* the wire; two venues' connectors on one session.                        *)
(***************************************************************************)
EXTENDS RedisLock, RedisCounter, EngineDaemon, SchemaMigrations, OrderBookReconstruction,
        ConfigPublication, ExchangeAccounts, OperationsStream, MarketData

VARIABLE part

\* The overlays an operator may send, one of them invalid.
SmallOverlays == {[a |-> "on"], [b |-> "on"], [a |-> "invalid"]}

\* An order book and a ticker of one symbol.
TwoStreams == << [symbol |-> "BTC/USDT", kind |-> "orderbook"], [symbol |-> "BTC/USDT", kind |-> "ticker"] >>

redisVars == <<lockVars, counterVars>>
engineSideVars == <<daemonVars, bookVars, feedVars, storeVars>>
operatorVars == <<migrateVars, configVars, accountVars, streamVars>>
vars == <<part, redisVars, engineSideVars, operatorVars>>

\* The variables of the other parts, where a part may start in several states.
Init ==
  /\ part \in {"lock", "counter", "daemon", "migrate", "book", "config", "accounts", "stream", "feed", "store"}
  /\ LockInit /\ DaemonInit /\ BookInit /\ ConfigInit /\ StreamInit /\ FeedInit /\ StoreInit
  /\ CounterInit /\ (part # "counter" => \A r \in Requests : request[r].limiter = "redis")
  /\ MigrateInit /\ (part # "migrate" => byHand = {} /\ files = [k \in Kinds |-> {}])
  /\ AccountsInit /\ (part # "accounts" => \A r \in AccountRequests : kind[r] = "test")

\* Requests are alike, and so are fields: the first request to begin is called r1
\* and sets the first field; r2 sets the same or the other.
FirstSetsFirst == DOMAIN req' # {} => "r1" \in DOMAIN req' /\ "a" \in DOMAIN req'["r1"].overlay

RedisNext ==
  /\ \/ part = "lock" /\ LockNext /\ UNCHANGED counterVars
     \/ part = "counter" /\ CounterNext /\ UNCHANGED lockVars
  /\ UNCHANGED <<part, engineSideVars, operatorVars>>

EngineSideNext ==
  /\ \/ part = "daemon" /\ DaemonNext /\ UNCHANGED <<bookVars, feedVars, storeVars>>
     \/ part = "book" /\ BookNext /\ UNCHANGED <<daemonVars, feedVars, storeVars>>
     \/ part = "feed" /\ FeedNext /\ UNCHANGED <<daemonVars, bookVars, storeVars>>
     \/ part = "store" /\ StoreNext /\ UNCHANGED <<daemonVars, bookVars, feedVars>>
  /\ UNCHANGED <<part, redisVars, operatorVars>>

OperatorNext ==
  /\ \/ part = "migrate" /\ MigrateNext /\ UNCHANGED <<configVars, accountVars, streamVars>>
     \/ part = "config" /\ ConfigNext /\ FirstSetsFirst /\ UNCHANGED <<migrateVars, accountVars, streamVars>>
     \/ part = "accounts" /\ AccountsNext /\ UNCHANGED <<migrateVars, configVars, streamVars>>
     \/ part = "stream" /\ StreamNext /\ UNCHANGED <<migrateVars, configVars, accountVars>>
  /\ UNCHANGED <<part, redisVars, engineSideVars>>

\* These parts come to an end when their bounds are used up.
Ended == part \in {"config", "accounts", "migrate", "feed", "book"} /\ UNCHANGED vars

Next == RedisNext \/ EngineSideNext \/ OperatorNext \/ Ended

Spec == Init /\ [][Next]_vars
-----------------------------------------------------------------------------
\* The type invariants of the parts, of the long ones while they run.
TypeOK ==
  /\ LockTypeOK /\ CounterTypeOK /\ DaemonTypeOK /\ BookTypeOK /\ FeedTypeOK
  /\ part = "store" => StoreTypeOK
  /\ part = "migrate" => MigrateTypeOK
  /\ part = "config" => ConfigTypeOK
  /\ part = "accounts" => AccountsTypeOK
  /\ part = "stream" => StreamTypeOK
=============================================================================
