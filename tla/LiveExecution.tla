---------------------------- MODULE LiveExecution ---------------------------
(***************************************************************************)
(* Live orders on Coinstore: what the venue holds, what the engine is told *)
(* and what it writes down (execution/coinstore.py with its safety checks, *)
(* REST client, private stream and reconciliation).                        *)
(*                                                                         *)
(* Three tasks of one event loop use one database session:                 *)
(*   - the tick task places orders, reconciles, commits or rolls back;     *)
(*   - the consumer task cancels all orders;                               *)
(*   - the stream task writes the matches the private websocket delivers.  *)
(* A request to the venue is answered, or lost before or after the venue   *)
(* has acted on it.  Quantities are counted in matches.                    *)
(***************************************************************************)
EXTENDS Reconciliation, FiniteSets, SequencesExt

CONSTANTS
    Orders,       \* client order ids, fresh uuids: each is placed once
    Side,         \* Side[o]: "buy" or "sell"
    Price,        \* Price[o]
    Size,         \* matches that fill an order
    BalanceRows,  \* what client.sync_balances gives reconcile_live, see SyncBalances
    Deduplicates, \* the venue refuses a client order id it has already accepted
    MaxLost,      \* bound on requests that are not answered
    MaxDrops,     \* bound on disconnections of the private stream
    MaxFailures,  \* bound on database calls that raise
    Reconciles,   \* RECONCILIATION_INTERVAL_SECONDS elapses during the run
    MaxRestarts   \* bound on restarts of the engine process

Attempts == 3  \* stop_after_attempt of _signed_request

-----------------------------------------------------------------------------
(* Status conversions.                                                     *)

NormalizedOrderStatus ==
    {"new", "open", "partially_filled", "filled", "cancelled", "rejected", "expired", "unknown"}

\* _coinstore_order_status and PrivateRestExecutionClient._parse_status: the
\* venue's numeric states.
CoinstoreOrderStatus(code) ==
    CASE code = 0 -> "new"
      [] code \in {1, 2, 7} -> "open"
      [] code = 3 -> "partially_filled"
      [] code = 4 -> "filled"
      [] code \in {5, 6} -> "cancelled"
      [] code \in {8, 11, 12} -> "rejected"
      [] OTHER -> "unknown"

ASSUME LiveAssumption ==
    /\ Side \in [Orders -> {"buy", "sell"}]
    /\ Price \in [Orders -> Nat]
    /\ Size \in Nat \ {0}
    /\ BalanceRows \in BOOLEAN /\ Deduplicates \in BOOLEAN
    /\ {MaxLost, MaxDrops, MaxFailures, MaxRestarts} \subseteq Nat
    /\ Reconciles \in BOOLEAN
    /\ \A code \in 0..12 : CoinstoreOrderStatus(code) \in NormalizedOrderStatus

\* Mutant of OrderStatus: the names of the two enumerations are not translated.
OrderStatusUnmapped(s) == s

\* _order_status: the status column of the orders table.
OrderStatus(s) ==
    CASE s = "new" -> "created"
      [] s = "unknown" -> "submitted"
      [] OTHER -> s

RowStatus == {"created", "submitted", "open", "partially_filled", "filled", "cancelled", "rejected", "expired"}

\* The rows _assert_no_self_trade and detect_stale_and_orphan_orders look at.
RestingStatus == {"open", "submitted", "partially_filled"}

-----------------------------------------------------------------------------
VARIABLES
    venue,     \* venue[o]: times accepted, whether it rests, matches so far
    feed,      \* matches the private stream has still to deliver
    link,      \* the private stream is connected
    db,        \* rows as the session sees them
    disk,      \* rows that are committed
    asked,     \* orders ever handed to place_order
    pc,        \* where the tick task is
    cur,       \* what it works on: the order, the answer, the snapshot
    tries,     \* attempts of the request it waits for
    con,       \* where the consumer task is
    conTries,  \* attempts of its request
    acks,      \* cancelled orders it has still to write
    due,       \* the reconciliation interval has passed
    canary,    \* the canary controller is shut down
    unheard,   \* history: accepted, but the engine was not told or could not write it
    lost, drops, failures, restarts

taskVars  == <<pc, cur, tries>>
conVars   == <<con, conTries, acks>>
venueVars == <<venue, feed, link>>
faultVars == <<lost, drops, failures, restarts>>
vars == <<venueVars, db, disk, asked, taskVars, conVars, due, canary, unheard, faultVars>>

Trade == Orders \X (1..Size)

\* An ExecutionOrder: the order, the venue's code and the filled quantity.
Reply == [order : Orders, code : 0..12, filled : 0..Size]

NoRow == [status |-> "none", filled |-> 0]
Rows == [status : RowStatus, filled : 0..Size] \cup {NoRow}
Tables == [row : [Orders -> Rows], trades : SUBSET Trade]

\* Type invariant: rows only hold statuses of the status column, counters stay
\* within their bounds.
TypeOK ==
    /\ venue \in [Orders -> [n : Nat, rests : BOOLEAN, matched : 0..Size]]
    /\ feed \in Seq(Trade) /\ link \in BOOLEAN
    /\ db \in Tables /\ disk \in Tables
    /\ asked \subseteq Orders /\ unheard \subseteq Orders
    /\ pc \in {"idle", "send", "write", "reconcile", "apply", "commit"}
    /\ tries \in 0..Attempts /\ conTries \in 0..Attempts
    /\ con \in {"idle", "send", "write"} /\ acks \subseteq Reply
    /\ due \in BOOLEAN /\ canary \in BOOLEAN

Nothing == [row |-> [o \in Orders |-> NoRow], trades |-> {}]

Init ==
    /\ venue = [o \in Orders |-> [n |-> 0, rests |-> FALSE, matched |-> 0]]
    /\ feed = <<>> /\ link = TRUE
    /\ db = Nothing /\ disk = Nothing
    /\ asked = {} /\ unheard = {}
    /\ pc = "idle" /\ cur = {} /\ tries = 0
    /\ con = "idle" /\ conTries = 0 /\ acks = {}
    /\ due = FALSE /\ canary = FALSE
    /\ lost = 0 /\ drops = 0 /\ failures = 0 /\ restarts = 0

-----------------------------------------------------------------------------
(* Writing.                                                                *)

\* The columns persist_order assigns.
RowOf(r) == [status |-> OrderStatus(CoinstoreOrderStatus(r.code)), filled |-> r.filled]

\* persist_order: whichever update comes last decides status and quantity.
PersistOrder(t, r) == [t EXCEPT !.row[r.order] = RowOf(r)]

\* _execution_order_from_payload of the k-th match of an order.
MatchPayload(m) == [order |-> m[1], code |-> IF m[2] = Size THEN 4 ELSE 3, filled |-> m[2]]

\* persist_fill_update: the order once more, and the trade unless its id is known.
PersistFillUpdate(t, m) ==
    [PersistOrder(t, MatchPayload(m)) EXCEPT !.trades = @ \cup {m}]

DatabaseRaises == failures < MaxFailures /\ failures' = failures + 1

-----------------------------------------------------------------------------
(* Requests: _signed_request and the venue (external).                     *)

\* The venue's view of an order it still holds.
OpenReply(o) == [order |-> o, code |-> IF venue[o].matched = 0 THEN 1 ELSE 3, filled |-> venue[o].matched]

Unanswered == lost < MaxLost /\ lost' = lost + 1

\* Kinds of answers with an error status: a deterministic reject, a ban, the
\* rate limit, a server error.
HttpError == {"400", "418", "429", "5xx"}

\* normalize_exchange_error
Retryable(e) == e \in {"429", "5xx"}

\* raise_normalized_error
Raised(e) ==
    CASE e = "429" -> "RateLimitExceededError"
      [] e # "429" /\ ~Retryable(e) -> "NonRetryableExchangeExecutionError"
      [] OTHER -> "ExchangeError"

\* retry_if_exception_type of _signed_request, whose ExchangeError includes its
\* subclass.
Retried == {"ExchangeError", "NonRetryableExchangeExecutionError", "RateLimitExceededError", "TransportError"}

Retry(n, error, again, raised) ==
    IF error \in Retried /\ n + 1 < Attempts THEN again ELSE raised

Accepts(o) == ~(Deduplicates /\ venue[o].n > 0)

\* A second acceptance of the same client order id is a second order.
AcceptedBy(o) == [venue EXCEPT ![o] = [n |-> @.n + 1, rests |-> TRUE, matched |-> @.matched]]

-----------------------------------------------------------------------------
(* The tick task.                                                          *)

Crosses(o, p) ==
    /\ Side[o] # Side[p]
    /\ IF Side[o] = "buy" THEN Price[o] >= Price[p] ELSE Price[o] <= Price[p]

\* _assert_no_self_trade: rows that are only "created" do not count.
SelfTrade(o) == \E p \in Orders : db.row[p].status \in RestingStatus /\ Crosses(o, p)

\* _submit_quotes reaches _place_live_order and place_order runs up to the
\* request: account, precision, assert_order_safe.  A fresh client order id is
\* never a duplicate.
PlaceOrder(o) ==
    /\ pc = "idle" /\ ~canary /\ o \notin asked
    /\ asked' = asked \cup {o}
    /\ IF SelfTrade(o)
       THEN UNCHANGED taskVars
       ELSE pc' = "send" /\ cur' = {o} /\ tries' = 0
    /\ UNCHANGED <<venueVars, db, disk, conVars, due, canary, unheard, faultVars>>

\* One attempt to place: answered with an acknowledgement in state new or open.
PlaceAnswered(o) ==
    /\ pc = "send" /\ o \in cur /\ Accepts(o)
    /\ venue' = AcceptedBy(o)
    /\ \E code \in {0, 1} : cur' = {[order |-> o, code |-> code, filled |-> 0]}
    /\ pc' = "write" /\ tries' = 0
    /\ UNCHANGED <<feed, link, db, disk, asked, conVars, due, canary, unheard, faultVars>>

\* Mutant of PlaceFails: the request is repeated without end.
PlaceFailsAgain(o) ==
    /\ pc = "send" /\ o \in cur
    /\ Unanswered
    /\ Accepts(o) /\ venue' = AcceptedBy(o) /\ unheard' = unheard \cup {o}
    /\ UNCHANGED <<feed, link, db, disk, asked, taskVars, conVars, due, canary, drops, failures, restarts>>

\* The attempt fails, with or without the venue having accepted the order.
PlaceFails(o) ==
    /\ pc = "send" /\ o \in cur
    /\ Unanswered
    /\ venue' \in {venue} \cup (IF Accepts(o) THEN {AcceptedBy(o)} ELSE {})
    /\ unheard' = IF venue'[o].n > 0 THEN unheard \cup {o} ELSE unheard
    /\ Retry(tries, "TransportError",
             pc' = "send" /\ tries' = tries + 1 /\ UNCHANGED cur,
             pc' = "idle" /\ tries' = 0 /\ cur' = {})
    /\ UNCHANGED <<feed, link, db, disk, asked, conVars, due, canary, drops, failures, restarts>>

\* The venue answers with an error, as it does to a client order id it knows.
PlaceRefused(o) ==
    /\ pc = "send" /\ o \in cur
    /\ \E e \in HttpError :
          Retry(tries, Raised(e),
                pc' = "send" /\ tries' = tries + 1 /\ UNCHANGED cur,
                pc' = "idle" /\ tries' = 0 /\ cur' = {})
    /\ UNCHANGED <<venueVars, db, disk, asked, conVars, due, canary, unheard, faultVars>>

\* Mutant of WriteAcknowledgement: the acknowledgement is not persisted.
ForgetAcknowledgement ==
    /\ pc = "write" /\ pc' = "idle" /\ cur' = {}
    /\ UNCHANGED <<venueVars, db, disk, asked, tries, conVars, due, canary, unheard, faultVars>>

\* place_order continues with persist_order; an exception is caught by
\* _submit_quotes.
WriteAcknowledgement ==
    /\ pc = "write" /\ pc' = "idle" /\ cur' = {}
    /\ \E r \in cur :
          \/ db' = PersistOrder(db, r) /\ unheard' = unheard \ {r.order} /\ UNCHANGED failures
          \/ DatabaseRaises /\ unheard' = unheard \cup {r.order} /\ UNCHANGED db
    /\ UNCHANGED <<venueVars, disk, asked, tries, conVars, due, canary, lost, drops, restarts>>

Resting == {o \in Orders : venue[o].rests}
Matches == {m \in Trade : m[2] <= venue[m[1]].matched}

\* The tick is through its symbols: _maybe_reconcile, then the daemon commits.
QuotesDone ==
    /\ pc = "idle" /\ pc' = (IF due THEN "reconcile" ELSE "commit")
    /\ due' = FALSE
    /\ UNCHANGED <<venueVars, db, disk, asked, cur, tries, conVars, canary, unheard, faultVars>>

Commit ==
    /\ pc = "commit" /\ pc' = "idle"
    /\ disk' = db
    /\ UNCHANGED <<venueVars, db, asked, cur, tries, conVars, due, canary, unheard, faultVars>>

\* The rows of orders the venue holds that a rollback undoes.
Undone == {o \in Orders : db.row[o] # NoRow /\ disk.row[o] = NoRow}

\* EngineDaemon.run catches an exception of the tick.
Rollback ==
    /\ db' = disk /\ unheard' = unheard \cup Undone
    /\ pc' = "idle" /\ cur' = {} /\ tries' = 0

\* client.sync_balances: `A or B or payload if isinstance(payload, list) else []`
\* is [] for every object the venue can send, and a list has no get.  With no
\* rows verify_balance_response raises.  BalanceRows stands for a client that
\* does return them, as the one in the tests does.
SyncBalancesRaises == ~BalanceRows

\* reconcile_live up to the last request: open orders and fills of the venue.
\* Any of its requests may raise.
FetchVenueState ==
    /\ pc = "reconcile"
    /\ \/ /\ SyncBalancesRaises /\ Rollback /\ UNCHANGED lost
       \/ /\ Unanswered /\ Rollback
       \/ /\ ~SyncBalancesRaises
          /\ pc' = "apply" /\ cur' = {[orders |-> {OpenReply(o) : o \in Resting}, fills |-> Matches]}
          /\ UNCHANGED <<db, unheard, tries, lost>>
    /\ UNCHANGED <<venueVars, disk, asked, conVars, due, canary, drops, failures, restarts>>

\* The last update reconcile_live writes for order o: the latest of its fills, or
\* else what the venue lists of it.
LastUpdate(v, o) ==
    LET fills == {m \in v.fills : m[1] = o} IN
    IF fills = {} THEN {r \in v.orders : r.order = o}
    ELSE {MatchPayload(m) : m \in {k \in fills : \A n \in fills : n[2] <= k[2]}}

\* Mutant of PersistVenueState: the fills are not written.
PersistVenueOrdersOnly(t, v) ==
    [t EXCEPT !.row = [o \in Orders |->
        IF \E r \in v.orders : r.order = o THEN RowOf(CHOOSE r \in v.orders : r.order = o) ELSE t.row[o]]]

\* The writes of reconcile_live: open orders, then every fill of the symbol.
PersistVenueState(t, v) ==
    [row |-> [o \in Orders |->
                IF LastUpdate(v, o) = {} THEN t.row[o] ELSE RowOf(CHOOSE r \in LastUpdate(v, o) : TRUE)],
     trades |-> t.trades \cup v.fills]

\* _exchange_snapshot: the venue's open orders and fills.
ExchangeSnapshot(v) ==
    [EmptySnapshot EXCEPT
        !.orders = SetToSeq({[client_order_id |-> r.order, status |-> CoinstoreOrderStatus(r.code),
                              filled_quantity |-> r.filled] : r \in v.orders}),
        !.fills = SetToSeq({[trade_id |-> m] : m \in v.fills})]

\* _internal_snapshot: ALL rows of the account, closed orders included.
InternalSnapshot(t) ==
    [EmptySnapshot EXCEPT
        !.orders = SetToSeq({[client_order_id |-> o, status |-> t.row[o].status,
                              filled_quantity |-> t.row[o].filled] : o \in {o \in Orders : t.row[o] # NoRow}}),
        !.fills = SetToSeq({[trade_id |-> m] : m \in t.trades})]

\* detect_stale_and_orphan_orders: a row that should rest and does not.
Orphans(t, v) ==
    {o \in Orders : t.row[o].status \in RestingStatus /\ ~\E r \in v.orders : r.order = o}

\* CoinstoreLiveReconciler.reconcile
Mismatch(t, v) ==
    \/ \E e \in {ExchangeSnapshot(v)}, i \in {InternalSnapshot(t)} : Reconcile(e, i) # {}
    \/ Orphans(t, v) # {}

\* The snapshot is written and compared; a mismatch, or a row that has gone
\* stale, shuts the canary controller down.
ApplyVenueState ==
    /\ pc = "apply"
    /\ \E v \in cur :
          \/ /\ db' = PersistVenueState(db, v)
             /\ unheard' = {o \in unheard : db'.row[o] = NoRow}
             /\ canary' \in {canary \/ Mismatch(db', v), TRUE}
             /\ pc' = "commit" /\ cur' = {} /\ UNCHANGED <<tries, failures>>
          \/ DatabaseRaises /\ Rollback /\ UNCHANGED canary
    /\ UNCHANGED <<venueVars, disk, asked, conVars, due, lost, drops, restarts>>

TickStep ==
    \/ \E o \in Orders : PlaceOrder(o) \/ PlaceAnswered(o) \/ PlaceFails(o) \/ PlaceRefused(o)
    \/ WriteAcknowledgement \/ QuotesDone \/ Commit \/ FetchVenueState \/ ApplyVenueState

IntervalElapses ==
    /\ Reconciles /\ ~due /\ due' = TRUE
    /\ UNCHANGED <<venueVars, db, disk, asked, taskVars, conVars, canary, unheard, faultVars>>

-----------------------------------------------------------------------------
(* The consumer task: _cancel_all_orders.                                  *)

CancelAll ==
    /\ con = "idle" /\ con' = "send" /\ conTries' = 0
    /\ \E o \in Orders : venue[o].rests
    /\ UNCHANGED <<venueVars, db, disk, asked, taskVars, acks, due, canary, unheard, faultVars>>

CancelledAtVenue == [o \in Orders |-> [n |-> venue[o].n, rests |-> FALSE, matched |-> venue[o].matched]]

\* One attempt: the answer lists the orders this request has cancelled.
CancelAllAnswered ==
    /\ con = "send" /\ con' = "write"
    /\ venue' = CancelledAtVenue
    /\ acks' = {[order |-> o, code |-> 5, filled |-> venue[o].matched] : o \in Resting}
    /\ UNCHANGED <<feed, link, db, disk, asked, taskVars, conTries, due, canary, unheard, faultVars>>

CancelAllFails ==
    /\ con = "send" /\ Unanswered
    /\ venue' \in {venue, CancelledAtVenue}
    /\ Retry(conTries, "TransportError", con' = "send" /\ conTries' = conTries + 1, con' = "idle" /\ UNCHANGED conTries)
    /\ UNCHANGED <<feed, link, db, disk, asked, taskVars, acks, due, canary, unheard, drops, failures, restarts>>

\* cancel_all_orders writes the orders of the answer one by one.
WriteCancelled ==
    /\ con = "write"
    /\ \/ \E r \in acks : db' = PersistOrder(db, r) /\ acks' = acks \ {r} /\ UNCHANGED <<con, failures>>
       \/ acks = {} /\ con' = "idle" /\ UNCHANGED <<db, acks, failures>>
       \/ acks # {} /\ DatabaseRaises /\ con' = "idle" /\ acks' = {} /\ UNCHANGED db
    /\ UNCHANGED <<venueVars, disk, asked, taskVars, conTries, due, canary, unheard, lost, drops, restarts>>

ConsumerStep == CancelAllAnswered \/ CancelAllFails \/ WriteCancelled

-----------------------------------------------------------------------------
(* The venue's matches and the private stream.                             *)

\* A resting order is matched; the message is lost while the stream is down.
Match(o) ==
    /\ venue[o].rests /\ venue[o].matched < Size
    /\ venue' = [venue EXCEPT ![o] = [n |-> @.n, rests |-> @.matched + 1 < Size, matched |-> @.matched + 1]]
    /\ feed' = IF link THEN Append(feed, <<o, venue[o].matched + 1>>) ELSE feed
    /\ UNCHANGED <<link, db, disk, asked, taskVars, conVars, due, canary, unheard, faultVars>>

\* handle_private_message: a match is an order payload and a fill payload.  An
\* exception, before or after the order's row is written, ends the connection.
HandlePrivateMessage ==
    /\ link /\ feed # <<>>
    /\ LET m == Head(feed) IN
       \/ db' = PersistFillUpdate(db, m) /\ feed' = Tail(feed) /\ UNCHANGED <<link, failures>>
       \/ /\ DatabaseRaises /\ link' = FALSE /\ feed' = <<>>
          /\ db' \in {db, PersistOrder(db, MatchPayload(m))}
    /\ UNCHANGED <<venue, disk, asked, taskVars, conVars, due, canary, unheard, lost, drops, restarts>>

\* CoinstorePrivateWebSocketClient.run: what was sent meanwhile is not sent again.
Disconnect ==
    /\ link /\ drops < MaxDrops /\ drops' = drops + 1
    /\ link' = FALSE /\ feed' = <<>>
    /\ UNCHANGED <<venue, db, disk, asked, taskVars, conVars, due, canary, unheard, lost, failures, restarts>>

Reconnect ==
    /\ ~link /\ link' = TRUE
    /\ UNCHANGED <<venue, feed, db, disk, asked, taskVars, conVars, due, canary, unheard, faultVars>>

StreamStep == HandlePrivateMessage \/ Reconnect

\* The process restarts: the session's work and the canary latch are lost.
Restart ==
    /\ restarts < MaxRestarts /\ restarts' = restarts + 1
    /\ db' = disk /\ pc' = "idle" /\ cur' = {} /\ tries' = 0
    /\ unheard' = unheard \cup Undone \cup {o \in asked : venue[o].n > 0 /\ db.row[o] = NoRow}
    /\ con' = "idle" /\ conTries' = 0 /\ acks' = {}
    /\ link' = FALSE /\ feed' = <<>>
    /\ due' = FALSE /\ canary' = FALSE
    /\ UNCHANGED <<venue, disk, asked, lost, drops, failures>>

Next ==
    \/ TickStep \/ ConsumerStep \/ StreamStep
    \/ IntervalElapses \/ CancelAll \/ Disconnect \/ Restart
    \/ \E o \in Orders : Match(o)

\* Coroutines are resumed, the interval elapses, the stream reconnects.  The
\* tick ends although there are orders it could still place.
Fairness ==
    /\ WF_vars(TickStep) /\ WF_vars(QuotesDone) /\ WF_vars(ConsumerStep)
    /\ WF_vars(StreamStep) /\ WF_vars(IntervalElapses)

Spec == Init /\ [][Next]_vars

FairSpec == Spec /\ Fairness

-----------------------------------------------------------------------------
(* Properties.                                                             *)

\* However the answers get lost, one place_order leaves at most three orders at
\* a venue that does not deduplicate.
DuplicatesBounded == \A o \in Orders : venue[o].n <= Attempts

\* The tick task is placing order o, or about to write the answer.
Placing(o) == (pc = "send" /\ o \in cur) \/ (pc = "write" /\ \E r \in cur : r.order = o)

\* An order the venue has accepted has a row, unless its placement is still running
\* or the engine was not told of it, could not write it or rolled it back: neither
\* the stream's, the consumer's nor the reconciliation's writes ever remove one.
AcceptedOrdersKnown ==
    \A o \in Orders : venue[o].n > 0 => db.row[o] # NoRow \/ o \in unheard \/ Placing(o)

\* Every match of the venue ends up as a committed trade, although the stream
\* drops, writes fail, the tick's rollback undoes what the stream has written
\* and the process restarts.
Recorded(m) == m \in Matches => m \in disk.trades
MatchesEventuallyRecorded == \A m \in Trade : []<>Recorded(m)
=============================================================================
