-------------------------- MODULE MarketDataStore --------------------------
(***************************************************************************)
(* What the market data engine stores.  The connector tasks of all venues  *)
(* and the daemon's tick share one database session: a connector finds or  *)
(* creates its trading pair, then inserts a row that refers to it, and     *)
(* between the two the daemon may commit or roll back the transaction the  *)
(* pair was created in.  A failed flush leaves the session inactive until  *)
(* someone rolls it back.  Other processes create trading pairs too.       *)
(***************************************************************************)
EXTENDS Integers, Sequences, FiniteSets

CONSTANTS
  Connectors,   \* connector tasks, one per venue, each with its own pair
  MessageKinds, \* the kinds of messages that come in
  PersistEvery, \* MARKET_DATA_PERSIST_EVERY_N_MESSAGES
  Rollbacks     \* bound: daemon rollbacks of a working session

ASSUME PersistAssumption ==
  /\ PersistEvery \in Nat \ {0} /\ Rollbacks \in Nat
  /\ MessageKinds \subseteq {"ticker", "orderbook", "kline"}

NoPair == "none"

VARIABLES
  task,       \* a connector's progress through a message
  counter,    \* _persist_counter, modulo PersistEvery
  active,     \* session.is_active
  stored,     \* committed trading pairs, by connector: NoPair or an id
  fresh,      \* those created in the open transaction
  cache,      \* _pair_ids
  written,    \* history: the kind of the row just written
  harmed,     \* history: connectors between lookup and insert when the
              \* session was rolled back or broke
  failed,     \* history: connectors whose last insert raised, unharmed
  rollbacks   \* daemon rollbacks of a working session

storeVars == <<task, counter, active, stored, fresh, cache, written, harmed, failed, rollbacks>>

Idle == [pc |-> "idle", todo |-> <<>>, pair |-> NoPair]

\* The trading pair the session sees for connector c.
Find(c) == IF fresh[c] # NoPair THEN fresh[c] ELSE stored[c]

\* _handle_message: what a message of each kind may persist, in order.
Persists(kind) ==
  CASE kind = "ticker"    -> <<"ticker">>
    [] kind = "orderbook" -> <<"order_book", "liquidity">>
    [] kind = "kline"     -> <<"volatility">>

Take(c, kind) ==
  /\ task[c].pc = "idle"
  /\ task' = [task EXCEPT ![c] = [pc |-> "persist", todo |-> Persists(kind), pair |-> NoPair]]
  /\ written' = "none"
  /\ UNCHANGED <<counter, active, stored, fresh, cache, harmed, failed, rollbacks>>

\* One counter for all kinds and all venues decides which rows are written.
Due(n) == n % PersistEvery = 0

RestOf(c) == IF Len(task[c].todo) = 1 THEN Idle
           ELSE [task[c] EXCEPT !.pc = "persist", !.todo = Tail(@), !.pair = NoPair]

\* _maybe_persist_*: count, and go on only when it is this row's turn.
MaybePersist(c) ==
  /\ task[c].pc = "persist"
  /\ counter' = (counter + 1) % (PersistEvery * (PersistEvery + 1))
  /\ task' = [task EXCEPT ![c] = IF Due(counter + 1) THEN [@ EXCEPT !.pc = "ensure"] ELSE RestOf(c)]
  /\ written' = "none"
  /\ UNCHANGED <<active, stored, fresh, cache, harmed, failed, rollbacks>>

NoPairs == [c \in Connectors |-> NoPair]

\* Connectors that have looked their pair up and not inserted yet.
Midway == {c \in Connectors : task[c].pc \in {"create", "insert"}}

\* session.rollback() and handle_session_rollback().
RolledBack ==
  /\ active' = TRUE
  /\ fresh' = NoPairs
  /\ cache' = NoPairs
  /\ harmed' = harmed \cup Midway

\* The cached id, when the session still finds that row, or a search.
Lookup(c) == IF cache[c] # NoPair /\ cache[c] \in {stored[c], fresh[c]}
             THEN cache[c] ELSE Find(c)

AfterLookup(id) == IF id = NoPair THEN "create" ELSE "insert"

\* _ensure_trading_pair up to the lookup, on a session made usable first.
Ensure(c) ==
  /\ task[c].pc = "ensure"
  /\ IF active
     THEN /\ cache' = [cache EXCEPT ![c] = Lookup(c)]
          /\ task' = [task EXCEPT ![c].pc = AfterLookup(Lookup(c)), ![c].pair = Lookup(c)]
          /\ harmed' = harmed \ {c}
          /\ UNCHANGED <<active, fresh>>
     ELSE RolledBack /\ UNCHANGED task
  /\ written' = "none"
  /\ UNCHANGED <<counter, stored, failed, rollbacks>>

\* The exception ends the connection; a failed flush breaks the session for
\* the connectors that are midway.
Raise(c) ==
  /\ failed' = IF c \in harmed THEN failed ELSE failed \cup {c}
  /\ harmed' = (harmed \cup Midway) \ {c}
  /\ active' = FALSE
  /\ task' = [task EXCEPT ![c] = Idle]

\* Mutant of Create: no savepoint around the insert of the pair.
CreateUnguarded(c) ==
  /\ task[c].pc = "create"
  /\ IF active /\ stored[c] = NoPair
     THEN /\ fresh' = [fresh EXCEPT ![c] = "own"]
          /\ cache' = [cache EXCEPT ![c] = "own"]
          /\ task' = [task EXCEPT ![c].pc = "insert", ![c].pair = "own"]
          /\ UNCHANGED <<active, harmed, failed>>
     ELSE Raise(c) /\ UNCHANGED <<fresh, cache>>
  /\ written' = "none"
  /\ UNCHANGED <<counter, stored, rollbacks>>

\* The pair is inserted in a savepoint; when another process was first, the
\* savepoint alone is undone and that process's row is used.
Create(c) ==
  /\ task[c].pc = "create"
  /\ LET id == IF stored[c] # NoPair THEN stored[c] ELSE "own"
     IN  IF active
         THEN /\ fresh' = [fresh EXCEPT ![c] = IF stored[c] # NoPair THEN NoPair ELSE id]
              /\ cache' = [cache EXCEPT ![c] = id]
              /\ task' = [task EXCEPT ![c].pc = "insert", ![c].pair = id]
              /\ UNCHANGED <<active, harmed, failed>>
         ELSE Raise(c) /\ UNCHANGED <<fresh, cache>>
  /\ written' = "none"
  /\ UNCHANGED <<counter, stored, rollbacks>>

\* The row is flushed: it needs an active session and a pair that is there.
FlushRow(c) ==
  /\ task[c].pc = "insert"
  /\ IF active /\ Find(c) = task[c].pair
     THEN /\ written' = Head(task[c].todo)
          /\ task' = [task EXCEPT ![c] = RestOf(c)]
          /\ UNCHANGED <<active, harmed, failed>>
     ELSE /\ Raise(c)
          /\ written' = "none"
  /\ UNCHANGED <<counter, stored, fresh, cache, rollbacks>>

\* _insert_market_data, for tickers and order books.
InsertMarketData(c) == task[c].todo # <<>> /\ Head(task[c].todo) \in {"ticker", "order_book"} /\ FlushRow(c)

\* _maybe_persist_orderbook_metrics.
InsertLiquidity(c) == task[c].todo # <<>> /\ Head(task[c].todo) = "liquidity" /\ FlushRow(c)

\* _maybe_persist_volatility.
InsertVolatility(c) == task[c].todo # <<>> /\ Head(task[c].todo) = "volatility" /\ FlushRow(c)

\* The daemon's tick commits what the session holds.
DaemonCommit ==
  /\ active
  /\ stored' = [c \in Connectors |-> Find(c)]
  /\ fresh' = NoPairs
  /\ written' = "none"
  /\ UNCHANGED <<task, counter, active, cache, harmed, failed, rollbacks>>

\* A tick that failed, be it on an inactive session, rolls back.
DaemonRollback ==
  /\ active => rollbacks < Rollbacks
  /\ rollbacks' = IF active THEN rollbacks + 1 ELSE rollbacks
  /\ RolledBack
  /\ written' = "none"
  /\ UNCHANGED <<task, counter, stored, failed>>

\* Another process creates the pair (unique by exchange and symbol, so it
\* waits for a transaction of ours that has it).
OtherProcess(c) ==
  /\ Find(c) = NoPair
  /\ stored' = [stored EXCEPT ![c] = "other"]
  /\ written' = "none"
  /\ UNCHANGED <<task, counter, active, fresh, cache, harmed, failed, rollbacks>>

----------------------------------------------------------------------------
StoreInit ==
  /\ task = [c \in Connectors |-> Idle]
  /\ counter = 0
  /\ active = TRUE
  /\ stored = NoPairs
  /\ fresh = NoPairs
  /\ cache = NoPairs
  /\ written = "none"
  /\ harmed = {}
  /\ failed = {}
  /\ rollbacks = 0

Connector(c) ==
  \/ \E kind \in MessageKinds : Take(c, kind)
  \/ MaybePersist(c)
  \/ Ensure(c)
  \/ Create(c)
  \/ InsertMarketData(c)
  \/ InsertLiquidity(c)
  \/ InsertVolatility(c)

StoreNext ==
  \/ \E c \in Connectors : Connector(c) \/ OtherProcess(c)
  \/ DaemonCommit
  \/ DaemonRollback

StoreSpec == StoreInit /\ [][StoreNext]_storeVars

----------------------------------------------------------------------------
(* Properties.                                                             *)

Pairs == {NoPair, "own", "other"}

\* A connector past the lookup has a pair; the cache never names a pair of
\* another process that is not stored.
StoreTypeOK ==
  /\ \A c \in Connectors : task[c].pc = "insert" => task[c].pair \in Pairs \ {NoPair}
  /\ \A c \in Connectors : cache[c] = "other" => stored[c] = "other"
  /\ stored \in [Connectors -> Pairs] /\ fresh \in [Connectors -> {NoPair, "own"}]
  /\ rollbacks \in 0..Rollbacks

\* An insert raises only when the session was rolled back, or broke, between
\* that connector's lookup and its insert: pairs created by other processes
\* and ids cached before a rollback never cost a row.
FailuresExplained == failed = {}

\* An order book has just been stored.
OrderBookWritten == written = "order_book"
=============================================================================
