---------------------------- MODULE PaperEngine -----------------------------
(***************************************************************************)
(* execution/paper.py: the simulated venue of the market maker, shared by  *)
(* the tick task and the consumer task of MarketMakerRuntime, and the one  *)
(* database session both write through.                                    *)
(*                                                                         *)
(* The coroutines are cut at their awaits.  What a coroutine changes in    *)
(* memory between two awaits is one action; each await on the session is   *)
(* one action too, and another task may run before the coroutine goes on.  *)
(* Any task may call any operation when it is not inside one: that covers  *)
(* the ladder sync, cancel-all, close-positions, market data and stale     *)
(* order callers of the runtime.                                           *)
(*                                                                         *)
(* Prices are data: which resting orders cross the book is a free choice,  *)
(* and of the account only the base asset is kept (cash, fees and PnL are  *)
(* assigned in the same block of _apply_fill).                             *)
(***************************************************************************)
EXTENDS Integers, FiniteSets

CONSTANTS
    Tasks,        \* coroutines that use the engine
    TickTask,     \* the one EngineDaemon commits or rolls back after
    Orders,       \* PaperOrder objects
    Ids,          \* client order ids
    ClientId,     \* the id each order is placed under
    Size,         \* intent.quantity of each order
    Side,         \* intent.side of each order
    LevelSizes,   \* sizes of the book level an order can meet
    MaxFailures   \* bound on failing database calls

ASSUME EngineAssumption ==
    /\ TickTask \in Tasks
    /\ ClientId \in [Orders -> Ids]
    /\ Size \in [Orders -> Nat \ {0}]
    /\ Side \in [Orders -> {"buy", "sell"}]
    /\ LevelSizes \subseteq Nat \ {0}
    /\ MaxFailures \in Nat

NoOrder == "none"
ASSUME NoOrderAssumption == NoOrder \notin Orders

Status == {"NEW", "ACKNOWLEDGED", "PARTIAL_FILL", "FILLED", "CANCELLED"}

\* models.OrderStatus of a row; "absent" when there is no row.
RowStatus == {"absent", "created", "open", "partially_filled", "filled", "cancelled"}

\* Where a coroutine of the engine is suspended.
Places == {"idle", "place", "start", "sim", "trade", "position", "matched", "filled", "cancel"}

VARIABLES
    status,    \* order.status, "NEW" until it is placed
    filled,    \* order.filled_quantity
    open,      \* the values of open_orders: at most one order per client id
    base,      \* account.balances[base_asset]
    cached,    \* _exchange_account_id and _trading_pair_ids are set
    db,        \* what the session sees
    disk,      \* what has been committed
    sess,      \* "ok", or "broken": every call raises until the rollback
    pc,        \* pc[t]: where task t is suspended
    cur,       \* cur[t]: the order task t works on
    todo,      \* todo[t]: the rest of the snapshot simulate_fills iterates over
    amt,       \* amt[t]: the fill task t has applied last
    failures,  \* database calls that failed
    lost       \* history: ids with a write that failed or was rolled back

memVars  == <<status, filled, open, base>>
dbVars   == <<cached, db, disk, sess>>
taskVars == <<pc, cur, todo, amt>>
vars == <<memVars, dbVars, taskVars, failures, lost>>

Database ==
    [acct : BOOLEAN,                                   \* the account and pair rows exist
     row  : [Ids -> [status : RowStatus, filled : Nat]], \* orders
     sold : [Ids -> Nat],                              \* quantity in the trades of the order
     pos  : Int]                                       \* positions

Fresh(acct) ==
    [acct |-> acct,
     row  |-> [i \in Ids |-> [status |-> "absent", filled |-> 0]],
     sold |-> [i \in Ids |-> 0],
     pos  |-> 0]

TypeOK ==
    /\ status \in [Orders -> Status]
    /\ filled \in [Orders -> Nat]
    /\ open \subseteq Orders
    /\ base \in Int
    /\ cached \in BOOLEAN
    /\ db \in Database /\ disk \in Database
    /\ sess \in {"ok", "broken"}
    /\ pc \in [Tasks -> Places]
    /\ cur \in [Tasks -> Orders \cup {NoOrder}]
    /\ todo \in [Tasks -> SUBSET Orders]
    /\ amt \in [Tasks -> Nat]
    /\ failures \in 0..MaxFailures
    /\ lost \subseteq Ids

\* A new process, on a database that an earlier one may have used.
Init ==
    /\ status = [o \in Orders |-> "NEW"]
    /\ filled = [o \in Orders |-> 0]
    /\ open = {} /\ base = 0
    /\ cached = FALSE
    /\ db \in {Fresh(a) : a \in BOOLEAN} /\ disk = db
    /\ sess = "ok"
    /\ pc = [t \in Tasks |-> "idle"]
    /\ cur = [t \in Tasks |-> NoOrder]
    /\ todo = [t \in Tasks |-> {}]
    /\ amt = [t \in Tasks |-> 0]
    /\ failures = 0 /\ lost = {}

-----------------------------------------------------------------------------
(* Operators.                                                              *)

Remaining(o) == IF filled[o] < Size[o] THEN Size[o] - filled[o] ELSE 0

\* open_orders.pop(client_order_id)
Pop(o) == {p \in open : ClientId[p] # ClientId[o]}

\* Mutant of RowStatusOf: the row gets the engine's own status.
RowStatusUnmapped(s) == s

\* The status map of _persist_order.
RowStatusOf(s) ==
    CASE s = "NEW"          -> "created"
      [] s = "ACKNOWLEDGED" -> "open"
      [] s = "PARTIAL_FILL" -> "partially_filled"
      [] s = "FILLED"       -> "filled"
      [] s = "CANCELLED"    -> "cancelled"

ActiveRow(i) == db.row[i].status \in {"created", "open", "partially_filled"}

OpenIds == {ClientId[o] : o \in open}

\* Mutant of Matches: the level's size is not cut to the remaining quantity.
MatchesWholeLevel(o) == LevelSizes

\* _match_order against the best level that crosses.
Matches(o) == {IF Remaining(o) < s THEN Remaining(o) ELSE s : s \in LevelSizes}

\* A write that refers to the account row succeeds: the session is usable and
\* the remembered account id, if any, still names a row.
Writable == sess = "ok" /\ (cached => db.acct)

\* _ensure_exchange_account and _ensure_trading_pair find or create the rows.
EnsureAccount == cached' = TRUE

Goto(t, p) == pc' = [pc EXCEPT ![t] = p]

\* Task t leaves the engine, and its locals with it.
Return(t) ==
    /\ Goto(t, "idle")
    /\ cur' = [cur EXCEPT ![t] = NoOrder]
    /\ todo' = [todo EXCEPT ![t] = {}]
    /\ amt' = [amt EXCEPT ![t] = 0]

-----------------------------------------------------------------------------
(* place_order, cancel_order, simulate_fills.                              *)

PlaceOrder(t, o) ==
    /\ pc[t] = "idle" /\ status[o] = "NEW"
    /\ status' = [status EXCEPT ![o] = "ACKNOWLEDGED"]
    /\ open' = Pop(o) \cup {o}
    /\ cur' = [cur EXCEPT ![t] = o]
    /\ Goto(t, "place")
    /\ UNCHANGED <<filled, base, dbVars, todo, amt, failures, lost>>

CancelOrder(t, o) ==
    /\ pc[t] = "idle" /\ o \in open
    /\ status' = [status EXCEPT ![o] = "CANCELLED"]
    /\ open' = Pop(o)
    /\ cur' = [cur EXCEPT ![t] = o]
    /\ Goto(t, "cancel")
    /\ UNCHANGED <<filled, base, dbVars, todo, amt, failures, lost>>

\* simulate_fills copies open_orders: called for a book, or by place_order.
SimulateFills(t) ==
    /\ pc[t] \in {"idle", "start"}
    /\ todo' = [todo EXCEPT ![t] = open]
    /\ Goto(t, "sim")
    /\ UNCHANGED <<memVars, dbVars, cur, amt, failures, lost>>

\* The next order of the copy that the book crosses, whatever has happened to it
\* since; _apply_fill up to its first await.
ApplyFill(t, o) ==
    /\ pc[t] = "sim" /\ o \in todo[t]
    /\ Remaining(o) > 0
    /\ \E q \in Matches(o) :
          /\ base' = IF Side[o] = "buy" THEN base + q ELSE base - q
          /\ filled' = [filled EXCEPT ![o] = @ + q]
          /\ amt' = [amt EXCEPT ![t] = q]
    /\ cur' = [cur EXCEPT ![t] = o]
    /\ todo' = [todo EXCEPT ![t] = @ \ {o}]
    /\ Goto(t, "trade")
    /\ UNCHANGED <<status, open, dbVars, failures, lost>>

\* No order that is left crosses the book.
SimulateDone(t) ==
    /\ pc[t] = "sim"
    /\ Return(t)
    /\ UNCHANGED <<memVars, dbVars, failures, lost>>

\* simulate_fills after _apply_fill has returned.
FillResult(t) ==
    /\ pc[t] = "matched"
    /\ LET o == cur[t] IN
          IF Remaining(o) = 0
          THEN status' = [status EXCEPT ![o] = "FILLED"] /\ open' = Pop(o)
          ELSE status' = [status EXCEPT ![o] = "PARTIAL_FILL"] /\ UNCHANGED open
    /\ Goto(t, "filled")
    /\ UNCHANGED <<filled, base, dbVars, cur, todo, amt, failures, lost>>

-----------------------------------------------------------------------------
(* The database calls.                                                     *)

\* _persist_order copies the order as it is when the row has been read.
PersistOrder(t) ==
    /\ pc[t] \in {"place", "filled", "cancel"} /\ Writable
    /\ db' = [db EXCEPT !.acct = TRUE,
                        !.row[ClientId[cur[t]]] = [status |-> RowStatusOf(status[cur[t]]), filled |-> filled[cur[t]]]]
    /\ EnsureAccount
    /\ \/ pc[t] = "place" /\ Goto(t, "start") /\ UNCHANGED <<cur, todo, amt>>
       \/ pc[t] = "filled" /\ Goto(t, "sim") /\ UNCHANGED <<cur, todo, amt>>
       \/ pc[t] = "cancel" /\ Return(t)
    /\ UNCHANGED <<memVars, disk, sess, failures, lost>>

\* Mutant of PersistTrade: a later fill overwrites the trade of an earlier one.
PersistTradeOverwriting(t) ==
    /\ pc[t] = "trade" /\ Writable
    /\ db.row[ClientId[cur[t]]].status # "absent"
    /\ db' = [db EXCEPT !.acct = TRUE, !.sold[ClientId[cur[t]]] = amt[t]]
    /\ EnsureAccount
    /\ Goto(t, "position")
    /\ UNCHANGED <<memVars, disk, sess, cur, todo, amt, failures, lost>>

\* _persist_trade looks the order's row up with scalar_one.
PersistTrade(t) ==
    /\ pc[t] = "trade" /\ Writable
    /\ db.row[ClientId[cur[t]]].status # "absent"
    /\ db' = [db EXCEPT !.acct = TRUE, !.sold[ClientId[cur[t]]] = @ + amt[t]]
    /\ EnsureAccount
    /\ Goto(t, "position")
    /\ UNCHANGED <<memVars, disk, sess, cur, todo, amt, failures, lost>>

\* Mutant of PersistPosition: the fill is added to the stored quantity, as if
\* every fill were a purchase.
PersistPositionAsBought(t) ==
    /\ pc[t] = "position" /\ Writable
    /\ db' = [db EXCEPT !.acct = TRUE, !.pos = @ + amt[t]]
    /\ EnsureAccount
    /\ Goto(t, "matched")
    /\ UNCHANGED <<memVars, disk, sess, cur, todo, amt, failures, lost>>

\* _persist_position copies the balance as it is when the row has been read.
PersistPosition(t) ==
    /\ pc[t] = "position" /\ Writable
    /\ db' = [db EXCEPT !.acct = TRUE, !.pos = base]
    /\ EnsureAccount
    /\ Goto(t, "matched")
    /\ UNCHANGED <<memVars, disk, sess, cur, todo, amt, failures, lost>>

\* The call raises and the exception leaves the engine's coroutine: the database
\* fails, the session is already broken, the account row has gone, or
\* scalar_one finds no row (which leaves the session usable).
PersistRaises(t) ==
    /\ pc[t] \in {"place", "filled", "cancel", "trade", "position"}
    /\ \/ sess = "ok" /\ failures < MaxFailures /\ failures' = failures + 1 /\ sess' = "broken"
       \/ ~Writable /\ sess' = "broken" /\ UNCHANGED failures
       \/ pc[t] = "trade" /\ db.row[ClientId[cur[t]]].status = "absent" /\ UNCHANGED <<sess, failures>>
    /\ lost' = lost \cup {ClientId[cur[t]]}
    /\ Return(t)
    /\ UNCHANGED <<memVars, cached, db, disk>>

\* EngineDaemon._service_tick commits what both tasks have written so far.
Commit ==
    /\ pc[TickTask] = "idle" /\ sess = "ok"
    /\ disk # db /\ disk' = db
    /\ UNCHANGED <<memVars, cached, db, sess, taskVars, failures, lost>>

\* EngineDaemon._rollback_session: MarketMakerRuntime has no
\* handle_session_rollback, so nothing in memory is undone.
Rollback ==
    /\ pc[TickTask] = "idle" /\ sess = "broken"
    /\ db' = disk /\ sess' = "ok"
    /\ lost' = lost \cup {i \in Ids : db.row[i] # disk.row[i] \/ db.sold[i] # disk.sold[i]}
    /\ UNCHANGED <<memVars, cached, disk, taskVars, failures>>

\* Mutant of CancelOrphans: partially filled rows are not looked for.
CancelOpenOrphans ==
    /\ pc[TickTask] = "idle" /\ sess = "ok"
    /\ \E i \in Ids : db.row[i].status = "open" /\ i \notin OpenIds
    /\ db' = [db EXCEPT !.row = [i \in Ids |->
                 IF db.row[i].status = "open" /\ i \notin OpenIds THEN [db.row[i] EXCEPT !.status = "cancelled"] ELSE db.row[i]]]
    /\ UNCHANGED <<memVars, cached, disk, sess, taskVars, failures, lost>>

\* _reconcile_paper_order_state: rows that are active without an open order.
CancelOrphans ==
    /\ pc[TickTask] = "idle" /\ sess = "ok"
    /\ \E i \in Ids : ActiveRow(i) /\ i \notin OpenIds
    /\ db' = [db EXCEPT !.row = [i \in Ids |->
                 IF ActiveRow(i) /\ i \notin OpenIds THEN [db.row[i] EXCEPT !.status = "cancelled"] ELSE db.row[i]]]
    /\ UNCHANGED <<memVars, cached, disk, sess, taskVars, failures, lost>>

Step(t) ==
    \/ SimulateDone(t) \/ FillResult(t)
    \/ PersistOrder(t) \/ PersistTrade(t) \/ PersistPosition(t)
    \/ (pc[t] = "start" /\ SimulateFills(t))

Next ==
    \/ \E t \in Tasks :
          \/ Step(t) \/ SimulateFills(t) \/ PersistRaises(t)
          \/ \E o \in Orders : PlaceOrder(t, o) \/ CancelOrder(t, o) \/ ApplyFill(t, o)
    \/ Commit \/ Rollback \/ CancelOrphans

Spec == Init /\ [][Next]_vars

\* The event loop resumes a suspended coroutine.  With the kill switch off the
\* tick task ends every tick with a commit or a rollback, and at each
\* reconciliation interval it cancels the orders past max_order_age_seconds, as
\* every order is in the end, and the orphan rows.
Fairness ==
    /\ \A t \in Tasks : WF_vars(Step(t) \/ PersistRaises(t))
    /\ SF_vars(Commit) /\ SF_vars(Rollback) /\ SF_vars(CancelOrphans)
    /\ \A o \in Orders : SF_vars(CancelOrder(TickTask, o))

FairSpec == Spec /\ Fairness

-----------------------------------------------------------------------------
(* Properties.                                                             *)

\* The engine never trades more of an order than its intent asked for, although
\* two tasks may iterate over copies of open_orders that hold the same order.
NoOverfill == \A o \in Orders : filled[o] <= Size[o]

\* A task between changing order o and writing what it changed.
Writing(o) == \E t \in Tasks : cur[t] = o /\ pc[t] \in {"place", "trade", "position", "matched", "filled", "cancel"}

\* An order that has traded completely is not left in open_orders, where it would
\* hold its ladder level without ever trading again: the task that filled it is
\* about to remove it, or a database call for it has failed.
NoSpentOrderOpen ==
    \A o \in open : Remaining(o) > 0 \/ Writing(o) \/ ClientId[o] \in lost

\* The orders table agrees with memory whenever no task is about to write the
\* row, under every interleaving of the tasks: a slow write never puts an older
\* picture of the order back.  An order that left open_orders may also have
\* been cancelled by _reconcile_paper_order_state.
RowInSync ==
    \A o \in Orders :
        LET i == ClientId[o] IN
        (status[o] # "NEW" /\ i \notin lost /\ \A p \in Orders : ClientId[p] = i => p = o) =>
            \/ db.row[i] = [status |-> RowStatusOf(status[o]), filled |-> filled[o]]
            \/ Writing(o)
            \/ o \notin open /\ db.row[i].status = "cancelled"

\* The units of a quantity kept for each member of S, one by one: their number is
\* the sum.
Units(quantity, S) == UNION {{x} \X (1..quantity[x]) : x \in S}

Traded(i) == Units(filled, {o \in Orders : ClientId[o] = i})
Underway(i) == Units(amt, {t \in Tasks : pc[t] = "trade" /\ ClientId[cur[t]] = i})

\* Every fill is in the trades table exactly once, or its insert is the call a
\* task is waiting for, or a write for that client id has failed.
TradesRecorded ==
    \A i \in Ids \ lost : db.sold[i] + Cardinality(Underway(i)) = Cardinality(Traded(i))

\* The positions table shows the balance unless a task that traded has still to
\* write it or a write has failed.
PositionRecorded ==
    lost = {} => db.pos = base \/ \E t \in Tasks : pc[t] \in {"trade", "position"}

\* PaperExecutionEngine as a whole: between the writes that are under way, memory and
\* tables agree on every order, its trades and the position, and no order that is
\* filled stays open, although writes fail and one task's rollback undoes the other's.
MemoryRecorded == NoSpentOrderOpen /\ RowInSync /\ TradesRecorded /\ PositionRecorded

\* A row that is active while its order is no longer open does not stay so: the
\* reconciliation of a later tick cancels it.  An order with nothing left to trade
\* leaves open_orders, also after the write that should have removed it failed.
LeftoversCleared ==
    /\ \A i \in Ids : (ActiveRow(i) /\ i \notin OpenIds) ~> (~ActiveRow(i) \/ i \in OpenIds)
    /\ \A o \in Orders : (o \in open /\ Remaining(o) = 0) ~> o \notin open

\* What the certification playbook expects of a cancellation: the order's final
\* state is cancelled.
CancelIsFinal ==
    [][\A i \in Ids : db.row[i].status = "cancelled" => db'.row[i].status = "cancelled"]_vars
=============================================================================
