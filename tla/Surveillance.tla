---------------------------- MODULE Surveillance ----------------------------
(***************************************************************************)
(* AntiManipulationEngine: it is told of every order, cancel and fill of   *)
(* the managed accounts and answers with alerts, from the orders it thinks *)
(* are open and from sliding windows of timestamps.  Events reach it in    *)
(* time order, several of them within one tick, and orders leave the       *)
(* venue's book in ways it is not told of as a cancel.                     *)
(***************************************************************************)
EXTENDS Integers, Sequences, FiniteSets

CONSTANTS
  Accounts,        \* managed accounts (one symbol)
  LevelPrices,     \* price levels
  OrderWindow,     \* one second
  CancelWindow,    \* cancel_window_seconds
  FillWindow,      \* five minutes
  MaxPerWindow,    \* max_orders_per_second, and max_cancels_per_window
  Cluster,         \* executions at one price and side that are abnormal (20)
  ClientIds,       \* bound: client order ids 1..n, each used once
  MaxExecutions,   \* bound: fills
  MaxNow           \* bound: the clock

ASSUME SurveillanceAssumption ==
  /\ LevelPrices \subseteq Nat /\ ClientIds \subseteq Nat
  /\ {OrderWindow, CancelWindow, FillWindow, MaxPerWindow, Cluster,
      MaxExecutions, MaxNow} \subseteq Nat

Opposite(side) == IF side = "buy" THEN "sell" ELSE "buy"
SurveillanceOrders == [id : ClientIds, account : Accounts, side : {"buy", "sell"}, price : LevelPrices]

VARIABLES
  now,
  open_orders,    \* the engine's open orders
  order_times,    \* per account, the deque of submission times
  cancels,        \* per account, the deque of cancel times
  recent_fills,   \* per account, the deque of fills
  alerts,         \* what the last call returned
  onVenue,        \* the orders that really rest on the venue
  submitted,      \* every submission so far: <<account, time, id>>
  cancelled,      \* every cancel so far
  filled          \* every fill so far, the record with its number

watchVars == <<now, open_orders, order_times, cancels, recent_fills, alerts,
          onVenue, submitted, cancelled, filled>>
events == <<submitted, cancelled, filled>>

SurveillanceFills == [account : Accounts, side : {"buy", "sell"}, price : LevelPrices, at : 0..MaxNow]

\* Type invariant.
WatchTypeOK ==
  /\ now \in 0..MaxNow
  /\ open_orders \subseteq SurveillanceOrders /\ onVenue \subseteq SurveillanceOrders
  /\ order_times \in [Accounts -> Seq(0..MaxNow)] /\ cancels \in [Accounts -> Seq(0..MaxNow)]
  /\ recent_fills \in [Accounts -> Seq(SurveillanceFills)]
  /\ alerts \subseteq {"order_spam", "self_trade_prevention", "cross_account_collision",
                       "excessive_cancel", "wash_trade", "abnormal_execution"}

WatchInit ==
  /\ now = 0 /\ open_orders = {} /\ onVenue = {} /\ alerts = {}
  /\ order_times = [a \in Accounts |-> <<>>]
  /\ cancels = [a \in Accounts |-> <<>>]
  /\ recent_fills = [a \in Accounts |-> <<>>]
  /\ submitted = {} /\ cancelled = {} /\ filled = {}

\* Mutant of _trim_times: at most one value leaves.
TrimOne(values, cutoff) ==
  IF values # <<>> /\ Head(values) < cutoff THEN Tail(values) ELSE values

\* Values leave the front of a deque while they are older than the cutoff.
_trim_times(values, cutoff) ==
  LET stale == {i \in 1..Len(values) : \A j \in 1..i : values[j] < cutoff}
  IN SubSeq(values, Cardinality(stale) + 1, Len(values))

\* The same for fills.
TrimFills(fills, cutoff) ==
  LET stale == {i \in 1..Len(fills) : \A j \in 1..i : fills[j].at < cutoff}
  IN SubSeq(fills, Cardinality(stale) + 1, Len(fills))

If(raised, alert) == IF raised THEN {alert} ELSE {}

\* The opposite orders at the order's price among those thought open.
_detect(order, same) ==
  \E o \in open_orders : /\ (o.account = order.account) = same
                         /\ o.side = Opposite(order.side)
                         /\ o.price = order.price

\* record_order: the rate, a self trade, another managed account, remember it.
record_order(order) ==
  LET times == _trim_times(Append(order_times[order.account], now), now - OrderWindow) IN
  /\ order.id = Cardinality(submitted) + 1
  /\ order_times' = [order_times EXCEPT ![order.account] = times]
  /\ alerts' = If(Len(times) > MaxPerWindow, "order_spam")
               \union If(_detect(order, TRUE), "self_trade_prevention")
               \union If(_detect(order, FALSE), "cross_account_collision")
  /\ open_orders' = open_orders \union {order}
  /\ onVenue' = onVenue \union {order}
  /\ submitted' = submitted \union {<<order.account, now, order.id>>}
  /\ UNCHANGED <<now, cancels, recent_fills, cancelled, filled>>

\* record_cancel: forget the order, count the cancel.
record_cancel(order) ==
  LET times == _trim_times(Append(cancels[order.account], now), now - CancelWindow) IN
  /\ order \in onVenue
  /\ open_orders' = open_orders \ {order}
  /\ onVenue' = onVenue \ {order}
  /\ cancels' = [cancels EXCEPT ![order.account] = times]
  /\ alerts' = If(Len(times) > MaxPerWindow, "excessive_cancel")
  /\ cancelled' = cancelled \union {<<order.account, now, order.id>>}
  /\ UNCHANGED <<now, order_times, recent_fills, submitted, filled>>

\* record_fill: open_orders is left alone, whether or not the fill was the
\* order's last.  (The alert on a single large notional is left out.)
record_fill(order, counterparty, last) ==
  LET a == order.account
      fill == [account |-> a, side |-> order.side, price |-> order.price, at |-> now]
      fills == TrimFills(Append(recent_fills[a], fill), now - FillWindow)
      same == {i \in DOMAIN fills : fills[i].price = fill.price /\ fills[i].side = fill.side}
  IN
  /\ order \in onVenue /\ Cardinality(filled) < MaxExecutions
  /\ recent_fills' = [recent_fills EXCEPT ![a] = fills]
  /\ alerts' = If(counterparty = a, "wash_trade")
               \union If(Cardinality(same) >= Cluster, "abnormal_execution")
  /\ onVenue' = IF last THEN onVenue \ {order} ELSE onVenue
  /\ filled' = filled \union {<<Cardinality(filled), fill>>}
  /\ UNCHANGED <<now, open_orders, order_times, cancels, submitted, cancelled>>

\* The venue or the operator takes the order down: the engine is not told.
Vanish(order) ==
  /\ order \in onVenue /\ onVenue' = onVenue \ {order}
  /\ UNCHANGED <<now, open_orders, order_times, cancels, recent_fills, alerts, events>>

TimePasses ==
  /\ now < MaxNow /\ now' = now + 1 /\ alerts' = {}
  /\ UNCHANGED <<open_orders, order_times, cancels, recent_fills, onVenue, events>>

WatchNext ==
  \/ \E order \in SurveillanceOrders : record_order(order)
  \/ \E order \in onVenue : record_cancel(order) \/ Vanish(order)
  \/ \E order \in onVenue, last \in BOOLEAN, c \in Accounts \union {"outside"} :
       record_fill(order, c, last)
  \/ TimePasses

WatchSpec == WatchInit /\ [][WatchNext]_watchVars

-----------------------------------------------------------------------------
(* What the alerts of a step should be, from the whole history. *)

\* Events of an account in the window that ends now.
Recent(history, a, window) ==
  Cardinality({e \in history : e[1] = a /\ e[2] >= now - window})

(***************************************************************************)
(* Whatever was filled, cancelled or vanished before, an order that meets  *)
(* an opposite order of its own account resting at its price raises the    *)
(* self-trade alert, and one of another managed account the collision      *)
(* alert: the engine never forgets an order that rests.                    *)
(***************************************************************************)
EqualPriceAlerted ==
  \A order \in onVenue' \ onVenue : \A o \in onVenue :
       o.side # order.side /\ o.price = order.price =>
         (IF o.account = order.account THEN "self_trade_prevention"
          ELSE "cross_account_collision") \in alerts'

(***************************************************************************)
(* order_spam and excessive_cancel are raised exactly when the account     *)
(* made more orders, or cancels, than allowed in the window that ends with *)
(* this one: trimming drops neither a timestamp still inside the window    *)
(* nor keeps one outside it.                                               *)
(***************************************************************************)
RatesExact ==
  \A a \in Accounts :
       /\ (\E e \in submitted' \ submitted : e[1] = a) =>
            (("order_spam" \in alerts') <=>
               Recent(submitted', a, OrderWindow) > MaxPerWindow)
       /\ (\E e \in cancelled' \ cancelled : e[1] = a) =>
            (("excessive_cancel" \in alerts') <=>
               Recent(cancelled', a, CancelWindow) > MaxPerWindow)

(***************************************************************************)
(* An execution is called abnormal exactly when its account had `Cluster`  *)
(* fills at the same price and side in the window that ends with it.       *)
(***************************************************************************)
ClustersExact ==
  \A e \in filled' \ filled :
       LET like == {f \in filled' : /\ f[2].account = e[2].account /\ f[2].side = e[2].side
                                    /\ f[2].price = e[2].price /\ f[2].at >= now - FillWindow} IN
       ("abnormal_execution" \in alerts') <=> Cardinality(like) >= Cluster

\* AntiManipulationEngine: an order that meets an opposite one resting at its price
\* raises the alert, whatever was filled, cancelled or vanished before; rate and
\* cluster alerts are raised exactly when the account has more orders, cancels or
\* equal fills than allowed in the window that ends now.
AlertsExact == [][EqualPriceAlerted /\ RatesExact /\ ClustersExact]_watchVars
=============================================================================
