---------------------------- MODULE Reconciliation --------------------------
(***************************************************************************)
(* ReconciliationEngine: what it reports about two snapshots, one of the   *)
(* exchange and one of the engine's own tables.  A snapshot holds lists;   *)
(* the comparison first turns each into a dictionary, in which the last of *)
(* several records under one key wins.  Amounts are integers.              *)
(***************************************************************************)
EXTENDS Integers, Sequences

CONSTANTS BalanceTolerance, NotionalTolerance

\* What the instances of this module satisfy.
ToleranceAssumption == BalanceTolerance \in Nat /\ NotionalTolerance \in Nat

Finding(category, key, severity) == [category |-> category, key |-> key, severity |-> severity]

\* {item.key: item for item in list}
ByKey(list, Key(_)) ==
    [k \in {Key(list[i]) : i \in 1..Len(list)} |->
        list[CHOOSE i \in 1..Len(list) :
                /\ Key(list[i]) = k
                /\ \A j \in (i + 1)..Len(list) : Key(list[j]) # k]]

Apart(a, b, tolerance) == a - b > tolerance \/ b - a > tolerance

\* Mutant of Missing: only what the exchange reports is looked up.
MissingInternally(category, exchange, internal) ==
    {Finding(category, k, "critical") : k \in DOMAIN exchange \ DOMAIN internal}

\* A key that only one of the two dictionaries has.
Missing(category, exchange, internal) ==
    {Finding(category, k, "critical") :
        k \in (DOMAIN exchange \ DOMAIN internal) \cup (DOMAIN internal \ DOMAIN exchange)}

Common(exchange, internal) == DOMAIN exchange \cap DOMAIN internal

Asset(b) == b.asset
PositionKey(p) == <<p.symbol, p.asset>>
ClientOrderId(o) == o.client_order_id

\* _compare_balances: reserved is not compared.
CompareBalances(exchange, internal) ==
    LET l == ByKey(exchange, Asset)
        r == ByKey(internal, Asset)
    IN  Missing("balance", l, r)
        \cup {Finding("balance", a, "critical") :
                a \in {a \in Common(l, r) : Apart(l[a].total, r[a].total, BalanceTolerance)}}
        \cup {Finding("balance", a, "warning") :
                a \in {a \in Common(l, r) : Apart(l[a].available, r[a].available, BalanceTolerance)}}

ComparePositions(exchange, internal) ==
    LET l == ByKey(exchange, PositionKey)
        r == ByKey(internal, PositionKey)
    IN  Missing("position", l, r)
        \cup {Finding("position", k, "critical") :
                k \in {k \in Common(l, r) : Apart(l[k].quantity, r[k].quantity, BalanceTolerance)}}
        \cup {Finding("position", k, "warning") :
                k \in {k \in Common(l, r) : Apart(l[k].notional, r[k].notional, NotionalTolerance)}}

\* _compare_orders: remaining_quantity is not compared.
CompareOrders(exchange, internal) ==
    LET l == ByKey(exchange, ClientOrderId)
        r == ByKey(internal, ClientOrderId)
    IN  Missing("order", l, r)
        \cup {Finding("order", o, "critical") : o \in {o \in Common(l, r) : l[o].status # r[o].status}}
        \cup {Finding("order", o, "warning") :
                o \in {o \in Common(l, r) : Apart(l[o].filled_quantity, r[o].filled_quantity, BalanceTolerance)}}

\* _compare_fills: trade ids only.
CompareFills(exchange, internal) ==
    LET ids(list) == {list[i].trade_id : i \in 1..Len(list)}
    IN  {Finding("fill", t, "critical") :
            t \in (ids(exchange) \ ids(internal)) \cup (ids(internal) \ ids(exchange))}

\* _compare_pnl: pnl is a set of at most one record.
ComparePnl(exchange, internal) ==
    IF exchange = {} /\ internal = {} THEN {}
    ELSE IF exchange = {} \/ internal = {} THEN {Finding("pnl", "summary", "critical")}
    ELSE LET l == CHOOSE p \in exchange : TRUE
             r == CHOOSE p \in internal : TRUE
         IN  {Finding("pnl", f, "warning") :
                f \in {f \in {"realized", "unrealized", "fees"} : Apart(l[f], r[f], NotionalTolerance)}}

\* reconcile
Reconcile(exchange, internal) ==
    CompareBalances(exchange.balances, internal.balances)
    \cup ComparePositions(exchange.positions, internal.positions)
    \cup CompareOrders(exchange.orders, internal.orders)
    \cup CompareFills(exchange.fills, internal.fills)
    \cup ComparePnl(exchange.pnl, internal.pnl)

EmptySnapshot == [balances |-> <<>>, positions |-> <<>>, orders |-> <<>>, fills |-> <<>>, pnl |-> {}]

-----------------------------------------------------------------------------
(* The reference: what it means that two snapshots agree, said record by   *)
(* record and without dictionaries.                                        *)

\* Record i is not replaced by a later one under the same key.
Current(list, Key(_), i) == \A j \in (i + 1)..Len(list) : Key(list[j]) # Key(list[i])

\* Every current record of one list has a current partner in the other.
Paired(l, r, Key(_), Same(_, _)) ==
    \A i \in 1..Len(l) : Current(l, Key, i) =>
        \E j \in 1..Len(r) : Current(r, Key, j) /\ Key(l[i]) = Key(r[j]) /\ Same(l[i], r[j])

Within(a, b, tolerance) == a - b \in (-tolerance)..tolerance

SameBalance(a, b) == Within(a.total, b.total, BalanceTolerance) /\ Within(a.available, b.available, BalanceTolerance)
SamePosition(a, b) == Within(a.quantity, b.quantity, BalanceTolerance) /\ Within(a.notional, b.notional, NotionalTolerance)
SameOrder(a, b) == a.status = b.status /\ Within(a.filled_quantity, b.filled_quantity, BalanceTolerance)
SamePnl(a, b) == \A f \in {"realized", "unrealized", "fees"} : Within(a[f], b[f], NotionalTolerance)

Agree(e, i) ==
    /\ Paired(e.balances, i.balances, Asset, SameBalance) /\ Paired(i.balances, e.balances, Asset, SameBalance)
    /\ Paired(e.positions, i.positions, PositionKey, SamePosition)
    /\ Paired(i.positions, e.positions, PositionKey, SamePosition)
    /\ Paired(e.orders, i.orders, ClientOrderId, SameOrder) /\ Paired(i.orders, e.orders, ClientOrderId, SameOrder)
    /\ {e.fills[k].trade_id : k \in DOMAIN e.fills} = {i.fills[k].trade_id : k \in DOMAIN i.fills}
    /\ \A p \in e.pnl : \E q \in i.pnl : SamePnl(p, q)
    /\ \A q \in i.pnl : \E p \in e.pnl : SamePnl(p, q)
=============================================================================
