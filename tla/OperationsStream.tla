-------------------------- MODULE OperationsStream --------------------------
(***************************************************************************)
(* /ws/operations: the stream the dashboard watches.  Every two seconds    *)
(* _send_operation_events polls Redis and the database and sends what this *)
(* connection has not seen: an event per grown counter, one per new row of *)
(* the latest QueryLimit orders and trades, a snapshot of the latest risk  *)
(* events.  The engines write between its queries, stop, restart with      *)
(* their counters at zero, and the dashboard reconnects.                   *)
(*                                                                         *)
(* Rows are numbered in the order of their timestamps; the four counters,  *)
(* read and compared alike, are one.                                       *)
(***************************************************************************)
EXTENDS Integers

CONSTANTS
  QueryLimit,    \* rows a query returns (50)
  Burst,         \* bound: rows a table gains between two polls of it
  MaxRows,       \* bound: rows of a table
  MaxCount,      \* bound: the engine's counter
  MaxConnects,   \* bound: connections of the dashboard
  MaxStops       \* bound: stops of the engine

ASSUME StreamAssumption ==
  /\ QueryLimit \in Nat \ {0}
  /\ {Burst, MaxRows, MaxCount, MaxConnects, MaxStops} \subseteq Nat

Tables == {"orders", "trades", "risk_events"}

VARIABLES
  tableRows,    \* rows of each table
  up, counted,  \* the engine and its counter in memory
  reported,     \* the counter in engine:health:<engine>, 0 without the key
  poll,         \* the connection: off, sleep, or the next query of the poll
  known,        \* last_seen of the row tables
  seenCount,    \* last_seen of the counter
  first,        \* rows each table had when the dashboard connected
  polled,       \* and when this connection last queried it
  shown,        \* the risk events on the dashboard
  connects, stops

streamVars == <<tableRows, up, counted, reported, poll, known, seenCount, polled, first,
                shown, connects, stops>>
engineVars == <<up, counted, reported, stops>>
connectionVars == <<poll, known, seenCount, polled, first, shown, connects>>

StreamTypeOK ==
  /\ tableRows \in [Tables -> 0..MaxRows]
  /\ up \in BOOLEAN
  /\ counted \in 0..MaxCount /\ reported \in 0..MaxCount /\ seenCount \in 0..MaxCount
  /\ poll \in {"off", "sleep", "counters"} \union Tables
  /\ \A t \in Tables : /\ known[t] \subseteq 1..tableRows[t]
                       /\ polled[t] \in 0..tableRows[t] /\ first[t] \in 0..polled[t]
  /\ shown \subseteq known["risk_events"] \union (1..tableRows["risk_events"])
  /\ connects \in 0..MaxConnects /\ stops \in 0..MaxStops

NoRows == [t \in Tables |-> 0]

StreamInit ==
  /\ tableRows = NoRows
  /\ up = TRUE /\ counted = 0 /\ reported = 0
  /\ poll = "off" /\ known = [t \in Tables |-> {}] /\ seenCount = 0
  /\ polled = NoRows /\ first = NoRows /\ shown = {}
  /\ connects = 0 /\ stops = 0

-----------------------------------------------------------------------------
(* The engines, as the stream meets them. *)

\* A row is committed to a table.  Burst bounds how far the connection's last
\* query of that table may fall behind.
InsertRow(t) ==
  /\ up /\ tableRows[t] < MaxRows
  /\ poll # "off" => tableRows[t] - polled[t] < Burst
  /\ tableRows' = [tableRows EXCEPT ![t] = @ + 1]
  /\ UNCHANGED <<engineVars, connectionVars>>

\* metrics.increment in the running engine.
Count ==
  /\ up /\ counted < MaxCount /\ counted' = counted + 1
  /\ UNCHANGED <<tableRows, up, reported, stops, connectionVars>>

\* The engine writes its health key; the key expires when it no longer does.
EngineBeat ==
  /\ up /\ reported' = counted
  /\ UNCHANGED <<tableRows, up, counted, stops, connectionVars>>

Expire ==
  /\ ~up /\ reported' = 0
  /\ UNCHANGED <<tableRows, up, counted, stops, connectionVars>>

StopEngine ==
  /\ up /\ stops < MaxStops /\ up' = FALSE /\ stops' = stops + 1
  /\ UNCHANGED <<tableRows, counted, reported, connectionVars>>

Restart ==
  /\ ~up /\ up' = TRUE /\ counted' = 0
  /\ UNCHANGED <<tableRows, reported, stops, connectionVars>>

-----------------------------------------------------------------------------
(* operations_stream *)

\* websocket.accept() and a fresh last_seen.
StreamConnect ==
  /\ poll = "off" /\ connects < MaxConnects /\ connects' = connects + 1
  /\ poll' = "counters" /\ polled' = tableRows /\ first' = tableRows
  /\ UNCHANGED <<tableRows, engineVars, known, seenCount, shown>>

\* WebSocketDisconnect out of any send: last_seen goes with the connection.
StreamDisconnect ==
  /\ poll # "off" /\ poll' = "off"
  /\ known' = [t \in Tables |-> {}] /\ seenCount' = 0
  /\ polled' = NoRows /\ first' = NoRows /\ shown' = {}
  /\ UNCHANGED <<tableRows, engineVars, connects>>

\* asyncio.sleep(2) ends.
Wake ==
  /\ poll = "sleep" /\ poll' = "counters"
  /\ UNCHANGED <<tableRows, engineVars, known, seenCount, polled, first, shown,
                 connects>>

-----------------------------------------------------------------------------
(* _send_operation_events *)

\* An event is sent, and remembered, when the counter has grown.
Counters ==
  /\ poll = "counters" /\ poll' = "orders"
  /\ seenCount' = IF reported > seenCount THEN reported ELSE seenCount
  /\ UNCHANGED <<tableRows, engineVars, known, polled, first, shown,
                 connects>>

\* SELECT ... ORDER BY <time> DESC LIMIT 50
Latest(t) == {i \in 1..tableRows[t] : i > tableRows[t] - QueryLimit}

\* A row event for every row not yet sent; each is remembered.
SendRows(t, next) ==
  /\ poll = t /\ poll' = next
  /\ known' = [known EXCEPT ![t] = @ \union Latest(t)]
  /\ polled' = [polled EXCEPT ![t] = tableRows[t]]
  /\ UNCHANGED <<tableRows, engineVars, seenCount, first, shown, connects>>

SendOrders == SendRows("orders", "trades")
SendTrades == SendRows("trades", "risk_events")

\* Mutant of SendRisk: nothing is remembered.
SendRiskAll ==
  LET new == Latest("risk_events") \ known["risk_events"] IN
  /\ poll = "risk_events" /\ poll' = "sleep"
  /\ IF new = {} THEN UNCHANGED <<known, shown>>
     ELSE shown' = Latest("risk_events") /\ UNCHANGED known
  /\ polled' = [polled EXCEPT !["risk_events"] = tableRows["risk_events"]]
  /\ UNCHANGED <<tableRows, engineVars, seenCount, first, connects>>

\* Mutant of SendRisk: only the new ones are sent.
SendRiskNew ==
  LET new == Latest("risk_events") \ known["risk_events"] IN
  /\ poll = "risk_events" /\ poll' = "sleep"
  /\ shown' = new
  /\ known' = [known EXCEPT !["risk_events"] = @ \union new]
  /\ polled' = [polled EXCEPT !["risk_events"] = tableRows["risk_events"]]
  /\ UNCHANGED <<tableRows, engineVars, seenCount, first, connects>>

\* The newest risk event not yet sent makes the whole list be sent; only that
\* one is remembered before the break.
SendRisk ==
  LET new == Latest("risk_events") \ known["risk_events"] IN
  /\ poll = "risk_events" /\ poll' = "sleep"
  /\ IF new = {} THEN UNCHANGED <<known, shown>>
     ELSE \E i \in new :
            /\ \A j \in new : j <= i
            /\ shown' = Latest("risk_events")
            /\ known' = [known EXCEPT !["risk_events"] = @ \union {i}]
  /\ polled' = [polled EXCEPT !["risk_events"] = tableRows["risk_events"]]
  /\ UNCHANGED <<tableRows, engineVars, seenCount, first, connects>>

Poll == Counters \/ SendOrders \/ SendTrades \/ SendRisk

StreamNext ==
  \/ \E t \in Tables : InsertRow(t)
  \/ Count \/ EngineBeat \/ Expire \/ StopEngine \/ Restart
  \/ StreamConnect \/ StreamDisconnect \/ Wake \/ Poll

StreamSpec == StreamInit /\ [][StreamNext]_streamVars

-----------------------------------------------------------------------------
(* Properties. *)

\* As long as no table gains more rows between two polls than a query returns, an
\* order or a trade the poll has passed was sent: a row is lost only when the
\* query's limit cut it off.
NoRowLost ==
  Burst <= QueryLimit /\ poll # "off" =>
    \A t \in {"orders", "trades"} : \A i \in 1..polled[t] : i > first[t] => i \in known[t]

\* After every poll the dashboard shows the latest risk events, although one of
\* them at a time is remembered.
RiskListCurrent ==
  poll \in {"sleep", "counters", "orders", "trades"} =>
    {i \in 1..polled["risk_events"] :
       i > first["risk_events"] /\ i > polled["risk_events"] - QueryLimit} \subseteq shown

\* _send_operation_events, both: what the polls have passed was sent, and the
\* dashboard shows the latest risk events after each of them.
DashboardCurrent == NoRowLost /\ RiskListCurrent

\* A connected dashboard has nothing more to be told: every latest row has been
\* remembered and the last counter sent is not below the running engine's (it may be
\* above: a restarted engine counts from zero and is not heard until it passes the
\* old value).
Settled ==
  poll # "off" =>
    /\ \A t \in Tables : Latest(t) \subseteq known[t]
    /\ up => seenCount >= counted
=============================================================================
