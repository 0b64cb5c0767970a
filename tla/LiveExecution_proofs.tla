------------------------ MODULE LiveExecution_proofs ------------------------
(***************************************************************************)
(* Proofs about LiveExecution, for every set of orders and every bound on  *)
(* lost answers, dropped connections, failing writes and restarts.         *)
(***************************************************************************)
EXTENDS LiveExecution, TLAPS

\* What FetchVenueState hands to ApplyVenueState.
VenueState == [orders : SUBSET Reply, fills : SUBSET Trade]

\* What the tick task works on, by where it is.
CurOK ==
    /\ pc = "send" => \E o \in asked : cur = {o}
    /\ pc = "write" => \E r \in Reply : cur = {r} /\ r.order \in asked
    /\ pc = "apply" => \E v \in VenueState : cur = {v}

LiveInv == TypeOK /\ CurOK

-----------------------------------------------------------------------------
(* What the operators return.                                              *)

LEMMA SizePositive == Size \in Nat /\ Size > 0
  BY LiveAssumption DEF LiveAssumption

\* The row persist_order writes is one of the table, and a row.
LEMMA RowOfTyped ==
    ASSUME NEW r \in Reply
    PROVE  RowOf(r) \in Rows /\ RowOf(r) # NoRow
  <1>1. r.code \in 0..12 /\ r.filled \in 0..Size
    BY DEF Reply
  <1>2. CoinstoreOrderStatus(r.code) \in NormalizedOrderStatus
    BY <1>1, LiveAssumption DEF LiveAssumption
  <1>3. OrderStatus(CoinstoreOrderStatus(r.code)) \in RowStatus
    BY <1>2 DEF OrderStatus, NormalizedOrderStatus, RowStatus
  <1> QED
    BY <1>1, <1>3 DEF RowOf, Rows, NoRow, RowStatus

\* persist_order changes one row and removes none.
LEMMA PersistOrderTyped ==
    ASSUME NEW t \in Tables, NEW r \in Reply
    PROVE  /\ PersistOrder(t, r) \in Tables
           /\ PersistOrder(t, r).row[r.order] # NoRow
           /\ \A o \in Orders : t.row[o] # NoRow => PersistOrder(t, r).row[o] # NoRow
  <1>1. r.order \in Orders /\ RowOf(r) \in Rows /\ RowOf(r) # NoRow
    BY RowOfTyped DEF Reply
  <1>2. t.row \in [Orders -> Rows] /\ t.trades \in SUBSET Trade
    BY DEF Tables
  <1>3. PersistOrder(t, r) = [row |-> [t.row EXCEPT ![r.order] = RowOf(r)], trades |-> t.trades]
    BY DEF PersistOrder, Tables
  <1> QED
    BY <1>1, <1>2, <1>3 DEF Tables

\* The order payload of a match.
LEMMA MatchPayloadTyped ==
    ASSUME NEW m \in Trade
    PROVE  MatchPayload(m) \in Reply
  BY SizePositive DEF MatchPayload, Trade, Reply

\* persist_fill_update writes a row and removes none.
LEMMA PersistFillTyped ==
    ASSUME NEW t \in Tables, NEW m \in Trade
    PROVE  /\ PersistFillUpdate(t, m) \in Tables
           /\ \A o \in Orders : t.row[o] # NoRow => PersistFillUpdate(t, m).row[o] # NoRow
  <1>1. MatchPayload(m) \in Reply
    BY MatchPayloadTyped
  <1> DEFINE u == PersistOrder(t, MatchPayload(m))
  <1>2. u \in Tables /\ \A o \in Orders : t.row[o] # NoRow => u.row[o] # NoRow
    BY <1>1, PersistOrderTyped
  <1>3. PersistFillUpdate(t, m) = [u EXCEPT !.trades = @ \cup {m}]
    BY DEF PersistFillUpdate
  <1> HIDE DEF u
  <1>4. PersistFillUpdate(t, m) = [row |-> u.row, trades |-> u.trades \cup {m}]
    BY <1>2, <1>3 DEF Tables
  <1> QED
    BY <1>2, <1>4 DEF Tables

\* The writes of reconcile_live fill rows in and remove none.
LEMMA PersistVenueTyped ==
    ASSUME NEW t \in Tables, NEW v \in VenueState
    PROVE  /\ PersistVenueState(t, v) \in Tables
           /\ \A o \in Orders : t.row[o] # NoRow => PersistVenueState(t, v).row[o] # NoRow
  <1>1. v.orders \subseteq Reply /\ v.fills \subseteq Trade
    BY DEF VenueState
  <1>2. \A o \in Orders : LastUpdate(v, o) \subseteq Reply
    BY <1>1, MatchPayloadTyped DEF LastUpdate
  <1>3. \A o \in Orders : LastUpdate(v, o) # {} =>
          LET r == CHOOSE r \in LastUpdate(v, o) : TRUE IN RowOf(r) \in Rows /\ RowOf(r) # NoRow
    <2> SUFFICES ASSUME NEW o \in Orders, LastUpdate(v, o) # {}
                 PROVE  LET r == CHOOSE r \in LastUpdate(v, o) : TRUE IN RowOf(r) \in Rows /\ RowOf(r) # NoRow
      OBVIOUS
    <2>1. (CHOOSE r \in LastUpdate(v, o) : TRUE) \in Reply
      BY <1>2
    <2> QED
      BY <2>1, RowOfTyped
  <1>4. t.row \in [Orders -> Rows] /\ t.trades \subseteq Trade
    BY DEF Tables
  <1> QED
    BY <1>1, <1>3, <1>4 DEF PersistVenueState, Tables
-----------------------------------------------------------------------------
(* Types.                                                                  *)

VenueRecord == [n : Nat, rests : BOOLEAN, matched : 0..Size]

\* The parts of the type invariant: the venue, the flags, the rest.
VenueOK == venue \in [Orders -> VenueRecord]
FlagsOK == link \in BOOLEAN /\ due \in BOOLEAN /\ canary \in BOOLEAN
DataOK ==
    /\ feed \in Seq(Trade)
    /\ db \in Tables /\ disk \in Tables
    /\ asked \subseteq Orders /\ unheard \subseteq Orders
    /\ pc \in {"idle", "send", "write", "reconcile", "apply", "commit"}
    /\ tries \in 0..Attempts /\ conTries \in 0..Attempts
    /\ con \in {"idle", "send", "write"} /\ acks \subseteq Reply

LEMMA TypeParts == (TypeOK <=> VenueOK /\ FlagsOK /\ DataOK) /\ (TypeOK' <=> VenueOK' /\ FlagsOK' /\ DataOK')
  BY Zenon DEF TypeOK, VenueOK, VenueRecord, FlagsOK, DataOK

LEMMA InitLive == Init => LiveInv
  <1> SUFFICES ASSUME Init PROVE LiveInv
    OBVIOUS
  <1>1. FlagsOK
    BY Zenon DEF Init, FlagsOK
  <1>2. DataOK
    <2>1. Nothing \in Tables
      BY DEF Nothing, Tables, Rows
    <2> QED
      BY <2>1 DEF Init, DataOK, Attempts
  <1>3. VenueOK
    <2>1. 0 \in Nat /\ 0 \in 0..Size
      BY SizePositive
    <2>2. [n |-> 0, rests |-> FALSE, matched |-> 0] \in VenueRecord
      BY <2>1, Zenon DEF VenueRecord
    <2> QED
      BY <2>2 DEF Init, VenueOK
  <1>4. CurOK
    BY DEF Init, CurOK
  <1> QED
    BY <1>1, <1>2, <1>3, <1>4, TypeParts DEF LiveInv

\* What the venue does to an order keeps its record one.
LEMMA VenueRecords ==
    ASSUME VenueOK, NEW o \in Orders
    PROVE  /\ venue[o].n \in Nat /\ venue[o].rests \in BOOLEAN /\ venue[o].matched \in 0..Size
           /\ AcceptedBy(o) \in [Orders -> VenueRecord]
           /\ Match(o) => VenueOK'
  <1>1. \A p \in Orders : venue[p] \in VenueRecord
    BY DEF VenueOK
  <1>2. \A p \in Orders : venue[p].n \in Nat /\ venue[p].rests \in BOOLEAN /\ venue[p].matched \in 0..Size
    BY <1>1, Zenon DEF VenueRecord
  <1>3. AcceptedBy(o) \in [Orders -> VenueRecord]
    <2>1. venue[o].n + 1 \in Nat
      BY <1>2
    <2>2. [n |-> venue[o].n + 1, rests |-> TRUE, matched |-> venue[o].matched] \in VenueRecord
      BY <1>2, <2>1, Zenon DEF VenueRecord
    <2> QED
      BY <1>1, <2>2 DEF AcceptedBy, VenueOK
  <1>5. ASSUME Match(o) PROVE VenueOK'
    <2>1. venue[o].matched + 1 \in 0..Size /\ (venue[o].matched + 1 < Size) \in BOOLEAN
      BY <1>2, <1>5, SizePositive DEF Match
    <2>2. [n |-> venue[o].n, rests |-> venue[o].matched + 1 < Size, matched |-> venue[o].matched + 1] \in VenueRecord
      BY <1>2, <2>1, Zenon DEF VenueRecord
    <2> QED
      BY <1>5, <2>2 DEF Match, VenueOK
  <1> QED
    BY <1>2, <1>3, <1>5

LEMMA CancelledRecords ==
    ASSUME VenueOK
    PROVE  CancelledAtVenue \in [Orders -> VenueRecord]
  <1>1. \A p \in Orders : venue[p].n \in Nat /\ venue[p].matched \in 0..Size
    BY VenueRecords
  <1>2. \A p \in Orders : [n |-> venue[p].n, rests |-> FALSE, matched |-> venue[p].matched] \in VenueRecord
    BY <1>1, Zenon DEF VenueRecord
  <1> QED
    BY <1>2 DEF CancelledAtVenue

\* Every step keeps the venue's records.
LEMMA VenueStep ==
    ASSUME VenueOK, [Next]_vars
    PROVE  VenueOK'
  <1> USE DEF VenueOK, venueVars
  <1>1. ASSUME NEW o \in Orders, PlaceOrder(o) \/ PlaceAnswered(o) \/ PlaceFails(o) \/ PlaceRefused(o) PROVE VenueOK'
    <2>1. AcceptedBy(o) \in [Orders -> VenueRecord]
      BY VenueRecords
    <2> QED
      BY <1>1, <2>1 DEF PlaceOrder, PlaceAnswered, PlaceFails, PlaceRefused
  <1>2. CASE WriteAcknowledgement \/ QuotesDone \/ Commit \/ FetchVenueState \/ ApplyVenueState \/ IntervalElapses
    BY <1>2 DEF WriteAcknowledgement, QuotesDone, Commit, FetchVenueState, ApplyVenueState, IntervalElapses
  <1>3. CASE CancelAllAnswered \/ CancelAllFails
    BY <1>3, CancelledRecords DEF CancelAllAnswered, CancelAllFails
  <1>4. CASE WriteCancelled \/ StreamStep \/ CancelAll \/ Disconnect \/ Restart
    BY <1>4 DEF WriteCancelled, StreamStep, HandlePrivateMessage, Reconnect, CancelAll, Disconnect, Restart
  <1>5. ASSUME NEW o \in Orders, Match(o) PROVE VenueOK'
    BY <1>5, VenueRecords
  <1>6. CASE UNCHANGED vars
    BY <1>6 DEF vars
  <1> QED
    BY <1>1, <1>2, <1>3, <1>4, <1>5, <1>6 DEF Next, TickStep, ConsumerStep

\* Every step keeps the flags Boolean.
LEMMA FlagsStep ==
    ASSUME FlagsOK, [Next]_vars
    PROVE  FlagsOK'
  <1> USE DEF venueVars
  <1>1. link' = link \/ link' = TRUE \/ link' = FALSE
    BY DEF Next, TickStep, ConsumerStep, StreamStep, PlaceOrder, PlaceAnswered, PlaceFails, PlaceRefused,
           WriteAcknowledgement, QuotesDone, Commit, FetchVenueState, ApplyVenueState, IntervalElapses,
           CancelAll, CancelAllAnswered, CancelAllFails, WriteCancelled, HandlePrivateMessage, Reconnect,
           Disconnect, Restart, Match, vars
  <1>2. due' = due \/ due' = TRUE \/ due' = FALSE
    BY DEF Next, TickStep, ConsumerStep, StreamStep, PlaceOrder, PlaceAnswered, PlaceFails, PlaceRefused,
           WriteAcknowledgement, QuotesDone, Commit, FetchVenueState, ApplyVenueState, IntervalElapses,
           CancelAll, CancelAllAnswered, CancelAllFails, WriteCancelled, HandlePrivateMessage, Reconnect,
           Disconnect, Restart, Match, vars
  <1>3. canary' = canary \/ canary' = TRUE \/ canary' = FALSE \/ \E v : canary' = (canary \/ Mismatch(db', v))
    BY DEF Next, TickStep, ConsumerStep, StreamStep, PlaceOrder, PlaceAnswered, PlaceFails, PlaceRefused,
           WriteAcknowledgement, QuotesDone, Commit, FetchVenueState, ApplyVenueState, IntervalElapses,
           CancelAll, CancelAllAnswered, CancelAllFails, WriteCancelled, HandlePrivateMessage, Reconnect,
           Disconnect, Restart, Match, vars
  <1> QED
    BY <1>1, <1>2, <1>3, Zenon DEF FlagsOK

\* The requests and writes of the tick task that place an order.
LEMMA PlaceStep ==
    ASSUME LiveInv,
           \/ \E o \in Orders : PlaceOrder(o) \/ PlaceAnswered(o) \/ PlaceFails(o) \/ PlaceRefused(o)
           \/ WriteAcknowledgement
    PROVE  DataOK' /\ CurOK'
  <1> USE TypeParts DEF LiveInv, DataOK, CurOK, taskVars, conVars, venueVars, faultVars, Attempts
  <1>1. ASSUME NEW o \in Orders, PlaceOrder(o) PROVE DataOK' /\ CurOK'
    <2>1. CASE SelfTrade(o)
      BY <1>1, <2>1 DEF PlaceOrder
    <2>2. CASE ~SelfTrade(o)
      BY <1>1, <2>2 DEF PlaceOrder
    <2> QED
      BY <2>1, <2>2
  <1>2. ASSUME NEW o \in Orders, PlaceAnswered(o) PROVE DataOK' /\ CurOK'
    <2>1. PICK code \in {0, 1} : cur' = {[order |-> o, code |-> code, filled |-> 0]}
      BY <1>2 DEF PlaceAnswered
    <2>2. [order |-> o, code |-> code, filled |-> 0] \in Reply
      BY SizePositive DEF Reply
    <2>3. o \in asked
      BY <1>2 DEF PlaceAnswered
    <2> QED
      BY <1>2, <2>1, <2>2, <2>3 DEF PlaceAnswered
  <1>3. ASSUME NEW o \in Orders, PlaceFails(o) PROVE DataOK' /\ CurOK'
    <2>1. /\ unheard' \subseteq Orders /\ UNCHANGED <<feed, db, disk, asked, conVars>>
          /\ \/ pc' = "send" /\ tries' = tries + 1 /\ tries + 1 < Attempts /\ UNCHANGED cur /\ pc = "send"
             \/ pc' = "idle" /\ tries' = 0 /\ cur' = {}
      BY <1>3 DEF PlaceFails, Retry
    <2> QED
      BY <2>1
  <1>4. ASSUME NEW o \in Orders, PlaceRefused(o) PROVE DataOK' /\ CurOK'
    <2>1. /\ UNCHANGED <<venueVars, db, disk, asked, conVars, unheard>>
          /\ \/ pc' = "send" /\ tries' = tries + 1 /\ tries + 1 < Attempts /\ UNCHANGED cur /\ pc = "send"
             \/ pc' = "idle" /\ tries' = 0 /\ cur' = {}
      BY <1>4 DEF PlaceRefused, Retry
    <2> QED
      BY <2>1
  <1>5. CASE WriteAcknowledgement
    <2>1. db' \in Tables /\ unheard' \subseteq Orders
      <3>1. PICK r \in Reply : cur = {r} /\ r.order \in asked
        BY <1>5 DEF WriteAcknowledgement
      <3>2. PersistOrder(db, r) \in Tables
        BY PersistOrderTyped
      <3> QED
        BY <1>5, <3>1, <3>2 DEF WriteAcknowledgement
    <2> QED
      BY <1>5, <2>1 DEF WriteAcknowledgement
  <1> QED
    BY <1>1, <1>2, <1>3, <1>4, <1>5

\* The rest of the tick, the reconciliation included.
LEMMA ReconcileStep ==
    ASSUME LiveInv,
           QuotesDone \/ Commit \/ FetchVenueState \/ ApplyVenueState \/ IntervalElapses
    PROVE  DataOK' /\ CurOK'
  <1> USE TypeParts DEF LiveInv, DataOK, CurOK, taskVars, conVars, venueVars, faultVars
  <1>1. CASE QuotesDone \/ Commit \/ IntervalElapses
    BY <1>1 DEF QuotesDone, Commit, IntervalElapses
  <1>2. ASSUME Rollback PROVE /\ db' \in Tables /\ unheard' \subseteq Orders /\ tries' \in 0..Attempts
                             /\ pc' = "idle"
    BY <1>2 DEF Rollback, Undone, Attempts
  <1>3. CASE FetchVenueState
    <2>1. /\ UNCHANGED <<venueVars, disk, asked, conVars>>
          /\ \/ Rollback
             \/ /\ pc' = "apply" /\ cur' = {[orders |-> {OpenReply(o) : o \in Resting}, fills |-> Matches]}
                /\ UNCHANGED <<db, unheard, tries>>
      BY <1>3 DEF FetchVenueState
    <2>2. CASE Rollback
      BY <1>2, <2>1, <2>2
    <2>3. CASE /\ pc' = "apply" /\ cur' = {[orders |-> {OpenReply(o) : o \in Resting}, fills |-> Matches]}
               /\ UNCHANGED <<db, unheard, tries>>
      <3>1. \A o \in Orders : OpenReply(o) \in Reply
        BY VenueRecords DEF OpenReply, Reply
      <3>2. [orders |-> {OpenReply(o) : o \in Resting}, fills |-> Matches] \in VenueState
        BY <3>1 DEF Resting, Matches, VenueState
      <3> QED
        BY <2>1, <2>3, <3>2
    <2> QED
      BY <2>1, <2>2, <2>3
  <1>4. CASE ApplyVenueState
    <2>1. PICK v \in VenueState : cur = {v}
      BY <1>4 DEF ApplyVenueState
    <2>2. /\ UNCHANGED <<venueVars, disk, asked, conVars>>
          /\ \/ /\ db' = PersistVenueState(db, v)
                /\ unheard' = {o \in unheard : db'.row[o] = NoRow}
                /\ pc' = "commit" /\ UNCHANGED tries
             \/ Rollback
      BY <1>4, <2>1 DEF ApplyVenueState
    <2>3. PersistVenueState(db, v) \in Tables
      BY PersistVenueTyped
    <2> QED
      BY <1>2, <2>2, <2>3
  <1> QED
    BY <1>1, <1>3, <1>4

\* The consumer, the stream, the venue and the supervisor.
LEMMA OtherStep ==
    ASSUME LiveInv,
           \/ ConsumerStep \/ StreamStep \/ CancelAll \/ Disconnect \/ Restart
           \/ \E o \in Orders : Match(o)
    PROVE  DataOK' /\ CurOK'
  <1> USE TypeParts DEF LiveInv, DataOK, CurOK, taskVars, conVars, venueVars, faultVars, Attempts
  <1>a. <<>> \in Seq(Trade)
    OBVIOUS
  <1>1. CASE CancelAll \/ Disconnect \/ Reconnect
    <2>1. UNCHANGED <<db, disk, asked, taskVars, acks, unheard>> /\ feed' \in Seq(Trade)
      BY <1>1, <1>a DEF CancelAll, Disconnect, Reconnect
    <2>2. con' \in {"idle", "send", "write"} /\ conTries' \in 0..Attempts
      BY <1>1 DEF CancelAll, Disconnect, Reconnect
    <2> QED
      BY <2>1, <2>2
  <1>2. CASE CancelAllAnswered
    <2>1. acks' \subseteq Reply
      BY <1>2, VenueRecords DEF CancelAllAnswered, Resting, Reply
    <2> QED
      BY <1>2, <2>1 DEF CancelAllAnswered
  <1>3. CASE CancelAllFails
    <2>1. /\ UNCHANGED <<feed, db, disk, asked, taskVars, acks, unheard>>
          /\ \/ con' = "send" /\ conTries' = conTries + 1 /\ conTries + 1 < Attempts
             \/ con' = "idle" /\ UNCHANGED conTries
      BY <1>3 DEF CancelAllFails, Retry
    <2> QED
      BY <2>1
  <1>4. CASE WriteCancelled
    <2>1. /\ UNCHANGED <<venueVars, disk, asked, taskVars, conTries, unheard>>
          /\ acks' \subseteq acks /\ con' \in {"write", "idle"}
          /\ (\E r \in acks : db' = PersistOrder(db, r)) \/ UNCHANGED db
      BY <1>4 DEF WriteCancelled
    <2>2. db' \in Tables
      BY <2>1, PersistOrderTyped
    <2> QED
      BY <2>1, <2>2
  <1>5. CASE HandlePrivateMessage
    <2>1. Head(feed) \in Trade /\ Tail(feed) \in Seq(Trade)
      BY <1>5 DEF HandlePrivateMessage
    <2>2. /\ PersistFillUpdate(db, Head(feed)) \in Tables
          /\ PersistOrder(db, MatchPayload(Head(feed))) \in Tables
      BY <2>1, PersistFillTyped, MatchPayloadTyped, PersistOrderTyped
    <2>3. UNCHANGED <<disk, asked, taskVars, conVars, unheard>>
      BY <1>5 DEF HandlePrivateMessage
    <2>4. db' \in Tables /\ feed' \in Seq(Trade)
      BY <1>a, <1>5, <2>1, <2>2 DEF HandlePrivateMessage
    <2> QED
      BY <2>3, <2>4
  <1>6. ASSUME NEW o \in Orders, Match(o) PROVE DataOK' /\ CurOK'
    <2>1. venue[o].matched + 1 \in 1..Size
      BY <1>6, VenueRecords, SizePositive DEF Match
    <2>2. feed' \in Seq(Trade)
      BY <1>6, <2>1 DEF Match, Trade
    <2> QED
      BY <1>6, <2>2 DEF Match
  <1>7. CASE Restart
    <2>1. unheard' \subseteq Orders
      BY <1>7 DEF Restart, Undone
    <2> QED
      BY <1>7, <2>1 DEF Restart
  <1> QED
    BY <1>1, <1>2, <1>3, <1>4, <1>5, <1>6, <1>7 DEF ConsumerStep, StreamStep

LEMMA LiveInvariant == Spec => []LiveInv
  <1>1. LiveInv /\ [Next]_vars => LiveInv'
    <2> SUFFICES ASSUME LiveInv, [Next]_vars PROVE LiveInv'
      OBVIOUS
    <2>1. VenueOK' /\ FlagsOK'
      BY VenueStep, FlagsStep, TypeParts DEF LiveInv
    <2>2. DataOK' /\ CurOK'
      <3>1. CASE UNCHANGED vars
        BY <3>1, TypeParts DEF LiveInv, DataOK, CurOK, vars, venueVars, taskVars, conVars
      <3>2. CASE Next
        BY <3>2, PlaceStep, ReconcileStep, OtherStep DEF Next, TickStep
      <3> QED
        BY <3>1, <3>2
    <2> QED
      BY <2>1, <2>2, TypeParts DEF LiveInv
  <1> QED
    BY InitLive, <1>1, PTL DEF Spec

\* Type correctness of live execution: the rows only hold statuses of the status
\* column, whatever the venue answers.
THEOREM LiveTypeCorrect == Spec => []TypeOK
  <1>1. LiveInv => TypeOK
    BY DEF LiveInv
  <1> QED
    BY LiveInvariant, <1>1, PTL
-----------------------------------------------------------------------------
(***************************************************************************)
(* Retries.  DuplicatesBounded is not inductive: a venue could have taken  *)
(* an order three times already while its first attempt is on its way.     *)
(* What holds is that no attempt of the request under way has led to more  *)
(* than one order, and that an order nobody asked for is not at the venue. *)
(***************************************************************************)
AttemptsInv ==
    \A o \in Orders :
        /\ o \notin asked => venue[o].n = 0
        /\ pc = "send" /\ o \in cur => venue[o].n <= tries /\ tries < Attempts
        /\ venue[o].n <= Attempts

\* What a step can do to the number of times an order was accepted, and to the
\* request under way.
LEMMA AcceptanceStep ==
    ASSUME LiveInv, [Next]_vars, NEW o \in Orders
    PROVE  \/ /\ venue'[o].n = venue[o].n /\ asked' = asked
              /\ \/ pc' # "send"
                 \/ pc = "send" /\ UNCHANGED <<cur, tries>>
                 \/ pc = "send" /\ cur' = cur /\ tries' = tries + 1 /\ tries + 1 < Attempts
           \/ /\ venue'[o].n = venue[o].n
              /\ \E p \in Orders : /\ p \notin asked /\ asked' = asked \cup {p}
                                   /\ pc' # "send" \/ (cur' = {p} /\ tries' = 0)
           \/ /\ pc = "send" /\ o \in cur /\ venue'[o].n = venue[o].n + 1 /\ asked' = asked
              /\ \/ pc' # "send"
                 \/ cur' = cur /\ tries' = tries + 1 /\ tries + 1 < Attempts
  <1> USE TypeParts DEF LiveInv, VenueOK, venueVars, taskVars
  <1>1. CASE \/ CancelAll \/ Disconnect \/ StreamStep \/ WriteCancelled \/ IntervalElapses \/ UNCHANGED vars
    BY <1>1 DEF CancelAll, Disconnect, StreamStep, HandlePrivateMessage, Reconnect, WriteCancelled, IntervalElapses, vars
  <1>2. CASE \/ WriteAcknowledgement \/ QuotesDone \/ Commit \/ FetchVenueState \/ ApplyVenueState \/ Restart
    BY <1>2 DEF WriteAcknowledgement, QuotesDone, Commit, FetchVenueState, ApplyVenueState, Rollback, Restart
  <1>3. CASE CancelAllAnswered \/ CancelAllFails
    <2>1. UNCHANGED <<asked, taskVars>> /\ venue' \in {venue, CancelledAtVenue}
      BY <1>3 DEF CancelAllAnswered, CancelAllFails
    <2> QED
      BY <2>1 DEF CancelledAtVenue
  <1>4. ASSUME NEW p \in Orders, Match(p) PROVE venue'[o].n = venue[o].n /\ UNCHANGED <<asked, taskVars>>
    <2>1. CASE o = p
      BY <1>4, <2>1 DEF Match
    <2>2. CASE o # p
      BY <1>4, <2>2 DEF Match
    <2> QED
      BY <2>1, <2>2
  <1>5. ASSUME NEW p \in Orders, PlaceOrder(p)
        PROVE  /\ venue' = venue /\ p \notin asked /\ asked' = asked \cup {p}
               /\ pc' # "send" \/ (cur' = {p} /\ tries' = 0)
    BY <1>5 DEF PlaceOrder
  <1>6. ASSUME NEW p \in Orders
        PROVE  /\ o = p => AcceptedBy(p)[o].n = venue[o].n + 1
               /\ o # p => AcceptedBy(p)[o].n = venue[o].n
    BY DEF AcceptedBy
  <1>7. ASSUME NEW p \in Orders, PlaceAnswered(p)
        PROVE  pc = "send" /\ p \in cur /\ venue' = AcceptedBy(p) /\ asked' = asked /\ pc' # "send"
    BY <1>7 DEF PlaceAnswered
  <1>8. ASSUME NEW p \in Orders, PlaceFails(p)
        PROVE  /\ pc = "send" /\ p \in cur /\ asked' = asked
               /\ venue' = venue \/ venue' = AcceptedBy(p)
               /\ pc' # "send" \/ (cur' = cur /\ tries' = tries + 1 /\ tries + 1 < Attempts)
    BY <1>8 DEF PlaceFails, Retry
  <1>9. ASSUME NEW p \in Orders, PlaceRefused(p)
        PROVE  /\ pc = "send" /\ UNCHANGED <<venue, asked>>
               /\ pc' # "send" \/ (cur' = cur /\ tries' = tries + 1 /\ tries + 1 < Attempts)
    BY <1>9 DEF PlaceRefused, Retry
  <1> QED
    BY <1>1, <1>2, <1>3, <1>4, <1>5, <1>6, <1>7, <1>8, <1>9 DEF Next, TickStep, ConsumerStep

LEMMA AttemptsStep == LiveInv /\ AttemptsInv /\ [Next]_vars => AttemptsInv'
  <1> SUFFICES ASSUME LiveInv, AttemptsInv, [Next]_vars, NEW o \in Orders
               PROVE  /\ o \notin asked' => venue'[o].n = 0
                      /\ pc' = "send" /\ o \in cur' => venue'[o].n <= tries' /\ tries' < Attempts
                      /\ venue'[o].n <= Attempts
    BY DEF AttemptsInv
  <1>1. venue[o].n \in Nat /\ tries \in 0..Attempts /\ asked \subseteq Orders
    BY VenueRecords, TypeParts DEF LiveInv, DataOK
  <1>2. pc = "send" => cur \subseteq asked
    BY DEF LiveInv, CurOK
  <1> QED
    BY <1>1, <1>2, AcceptanceStep DEF AttemptsInv, Attempts

\* For every number of orders and of lost answers, over every restart: one place_order
\* leaves at most three orders at a venue that does not deduplicate.
THEOREM DuplicatesBoundedTheorem == Spec => []DuplicatesBounded
  <1>1. Init => AttemptsInv
    BY DEF Init, AttemptsInv, Attempts
  <1>2. AttemptsInv => DuplicatesBounded
    BY DEF AttemptsInv, DuplicatesBounded
  <1> QED
    BY LiveInvariant, AttemptsStep, <1>1, <1>2, PTL DEF Spec

-----------------------------------------------------------------------------
(***************************************************************************)
(* Orders the venue has accepted.  While a request is repeated, an earlier *)
(* attempt may have been accepted without an answer: then the engine was   *)
(* not told, which the final failure of the request must not forget.       *)
(***************************************************************************)
KnownInv ==
    /\ AcceptedOrdersKnown
    /\ \A o \in Orders : pc = "send" /\ o \in cur /\ venue[o].n > 0 => o \in unheard

\* No write removes a row, except a rollback, which says so.
LEMMA RowsStay ==
    ASSUME LiveInv, [Next]_vars, NEW o \in Orders, db.row[o] # NoRow
    PROVE  db'.row[o] # NoRow \/ o \in unheard'
  <1> USE TypeParts DEF LiveInv, DataOK, venueVars, taskVars
  <1>1. ASSUME Rollback PROVE db'.row[o] # NoRow \/ o \in unheard'
    BY <1>1 DEF Rollback, Undone
  <1>2. CASE WriteAcknowledgement
    <2>1. PICK r \in Reply : cur = {r} /\ r.order \in asked
      BY <1>2 DEF WriteAcknowledgement, CurOK
    <2>2. PersistOrder(db, r).row[o] # NoRow
      BY PersistOrderTyped
    <2> QED
      BY <1>2, <2>1, <2>2 DEF WriteAcknowledgement
  <1>3. CASE FetchVenueState
    BY <1>1, <1>3 DEF FetchVenueState
  <1>4. CASE ApplyVenueState
    <2>1. PICK v \in VenueState : cur = {v}
      BY <1>4 DEF ApplyVenueState, CurOK
    <2>2. PersistVenueState(db, v).row[o] # NoRow
      BY PersistVenueTyped
    <2> QED
      BY <1>1, <1>4, <2>1, <2>2 DEF ApplyVenueState
  <1>5. CASE WriteCancelled
    <2>1. (\E r \in acks : db' = PersistOrder(db, r)) \/ UNCHANGED db
      BY <1>5 DEF WriteCancelled
    <2> QED
      BY <2>1, PersistOrderTyped
  <1>6. CASE HandlePrivateMessage
    <2>1. Head(feed) \in Trade
      BY <1>6 DEF HandlePrivateMessage
    <2>2. /\ PersistFillUpdate(db, Head(feed)).row[o] # NoRow
          /\ PersistOrder(db, MatchPayload(Head(feed))).row[o] # NoRow
      BY <2>1, PersistFillTyped, MatchPayloadTyped, PersistOrderTyped
    <2> QED
      BY <1>6, <2>2 DEF HandlePrivateMessage
  <1>7. CASE Restart
    BY <1>7 DEF Restart, Undone
  <1>8. CASE \/ \E p \in Orders : PlaceOrder(p) \/ PlaceAnswered(p) \/ PlaceFails(p) \/ PlaceRefused(p) \/ Match(p)
             \/ QuotesDone \/ Commit \/ IntervalElapses \/ CancelAll \/ CancelAllAnswered \/ CancelAllFails
             \/ Reconnect \/ Disconnect \/ UNCHANGED vars
    <2>1. UNCHANGED db
      BY <1>8 DEF PlaceOrder, PlaceAnswered, PlaceFails, PlaceRefused, Match, QuotesDone, Commit, IntervalElapses,
                  CancelAll, CancelAllAnswered, CancelAllFails, Reconnect, Disconnect, vars
    <2> QED
      BY <2>1
  <1> QED
    BY <1>2, <1>3, <1>4, <1>5, <1>6, <1>7, <1>8 DEF Next, TickStep, ConsumerStep, StreamStep

\* The engine forgets that it was not told of an order only when it has its row.
LEMMA UnheardStays ==
    ASSUME LiveInv, [Next]_vars, NEW o \in Orders, o \in unheard
    PROVE  o \in unheard' \/ db'.row[o] # NoRow
  <1> USE TypeParts DEF LiveInv, DataOK, venueVars, taskVars
  <1>1. CASE WriteAcknowledgement
    <2>1. PICK r \in Reply : cur = {r} /\ r.order \in asked
      BY <1>1 DEF WriteAcknowledgement, CurOK
    <2>2. PersistOrder(db, r).row[r.order] # NoRow
      BY PersistOrderTyped
    <2> QED
      BY <1>1, <2>1, <2>2 DEF WriteAcknowledgement
  <1>2. CASE FetchVenueState \/ ApplyVenueState
    BY <1>2 DEF FetchVenueState, ApplyVenueState, Rollback
  <1>3. CASE Restart \/ \E p \in Orders : PlaceFails(p)
    BY <1>3 DEF Restart, PlaceFails
  <1>4. CASE \/ \E p \in Orders : PlaceOrder(p) \/ PlaceAnswered(p) \/ PlaceRefused(p) \/ Match(p)
             \/ QuotesDone \/ Commit \/ IntervalElapses \/ CancelAll \/ CancelAllAnswered \/ CancelAllFails
             \/ WriteCancelled \/ StreamStep \/ Disconnect \/ UNCHANGED vars
    BY <1>4 DEF PlaceOrder, PlaceAnswered, PlaceRefused, Match, QuotesDone, Commit, IntervalElapses, CancelAll,
                CancelAllAnswered, CancelAllFails, WriteCancelled, StreamStep, HandlePrivateMessage, Reconnect, Disconnect, vars
  <1> QED
    BY <1>1, <1>2, <1>3, <1>4 DEF Next, TickStep, ConsumerStep

\* What happens to an order that is newly accepted, or whose answer is to be written.
LEMMA PlacingStep ==
    ASSUME LiveInv, [Next]_vars, NEW o \in Orders, venue'[o].n > 0, db.row[o] = NoRow, o \notin unheard,
           venue[o].n = 0 \/ (pc = "write" /\ \E r \in cur : r.order = o)
    PROVE  db'.row[o] # NoRow \/ o \in unheard' \/ Placing(o)'
  <1> USE TypeParts DEF LiveInv, DataOK, venueVars, taskVars, Placing
  <1>1. CASE pc = "write" /\ \E r \in cur : r.order = o
    <2>1. PICK r \in Reply : cur = {r} /\ r.order \in asked
      BY <1>1 DEF CurOK
    <2>2. r.order = o
      BY <1>1, <2>1
    <2>3. CASE WriteAcknowledgement
      <3>1. PersistOrder(db, r).row[r.order] # NoRow
        BY PersistOrderTyped
      <3> QED
        BY <2>1, <2>2, <2>3, <3>1 DEF WriteAcknowledgement
    <2>4. CASE Restart
      BY <2>1, <2>2, <2>4 DEF Restart
    <2>5. CASE \/ \E p \in Orders : Match(p)
               \/ IntervalElapses \/ CancelAll \/ ConsumerStep \/ StreamStep \/ Disconnect \/ UNCHANGED vars
      <3>1. UNCHANGED <<pc, cur>>
        BY <2>5 DEF Match, IntervalElapses, CancelAll, ConsumerStep, CancelAllAnswered, CancelAllFails, WriteCancelled,
                    StreamStep, HandlePrivateMessage, Reconnect, Disconnect, vars
      <3> QED
        BY <1>1, <3>1
    <2>6. ~ \/ \E p \in Orders : PlaceOrder(p) \/ PlaceAnswered(p) \/ PlaceFails(p) \/ PlaceRefused(p)
            \/ QuotesDone \/ Commit \/ FetchVenueState \/ ApplyVenueState
      BY <1>1 DEF PlaceOrder, PlaceAnswered, PlaceFails, PlaceRefused, QuotesDone, Commit, FetchVenueState, ApplyVenueState
    <2> QED
      BY <2>3, <2>4, <2>5, <2>6 DEF Next, TickStep
  <1>2. CASE venue[o].n = 0
    <2>1. pc = "send" /\ o \in cur
      BY <1>2, AcceptanceStep
    <2>2. CASE WriteAcknowledgement \/ QuotesDone \/ Commit \/ FetchVenueState \/ ApplyVenueState \/ Restart
      <3>1. UNCHANGED venue
        BY <2>2 DEF WriteAcknowledgement, QuotesDone, Commit, FetchVenueState, ApplyVenueState, Restart
      <3> QED
        BY <1>2, <3>1
    <2>3. CASE \/ \E p \in Orders : Match(p)
               \/ IntervalElapses \/ CancelAll \/ ConsumerStep \/ StreamStep \/ Disconnect \/ UNCHANGED vars
      <3>1. UNCHANGED <<pc, cur>>
        BY <2>3 DEF Match, IntervalElapses, CancelAll, ConsumerStep, CancelAllAnswered, CancelAllFails, WriteCancelled,
                    StreamStep, HandlePrivateMessage, Reconnect, Disconnect, vars
      <3> QED
        BY <2>1, <3>1
    <2>4. ASSUME NEW p \in Orders, PlaceOrder(p) \/ PlaceAnswered(p) \/ PlaceFails(p) \/ PlaceRefused(p)
          PROVE  o \in unheard' \/ Placing(o)'
      <3>1. p \in cur => p = o
        BY <2>1 DEF CurOK
      <3>2. CASE PlaceOrder(p) \/ PlaceRefused(p)
        BY <1>2, <3>2 DEF PlaceOrder, PlaceRefused
      <3>3. CASE PlaceAnswered(p)
        BY <3>1, <3>3 DEF PlaceAnswered
      <3>4. CASE PlaceFails(p)
        BY <3>1, <3>4 DEF PlaceFails
      <3> QED
        BY <2>4, <3>2, <3>3, <3>4
    <2> QED
      BY <2>2, <2>3, <2>4 DEF Next, TickStep
  <1> QED
    BY <1>1, <1>2

\* While a request is under way nothing that was not told is forgotten.
LEMMA SendStep ==
    ASSUME LiveInv, AttemptsInv, KnownInv, [Next]_vars, NEW o \in Orders,
           pc' = "send", o \in cur', venue'[o].n > 0
    PROVE  o \in unheard'
  <1> USE TypeParts DEF LiveInv, DataOK, venueVars, taskVars
  <1>1. CASE WriteAcknowledgement \/ QuotesDone \/ Commit \/ FetchVenueState \/ ApplyVenueState \/ Restart
    <2>1. pc' # "send"
      BY <1>1 DEF WriteAcknowledgement, QuotesDone, Commit, FetchVenueState, ApplyVenueState, Rollback, Restart
    <2> QED
      BY <2>1
  <1>2. CASE \/ \E p \in Orders : Match(p)
             \/ IntervalElapses \/ CancelAll \/ ConsumerStep \/ StreamStep \/ Disconnect \/ UNCHANGED vars
    <2>1. UNCHANGED <<pc, cur, tries, unheard>>
      BY <1>2 DEF Match, IntervalElapses, CancelAll, ConsumerStep, CancelAllAnswered, CancelAllFails, WriteCancelled,
                  StreamStep, HandlePrivateMessage, Reconnect, Disconnect, vars
    <2>2. UNCHANGED asked
      BY <1>2 DEF Match, IntervalElapses, CancelAll, ConsumerStep, CancelAllAnswered, CancelAllFails, WriteCancelled,
                  StreamStep, HandlePrivateMessage, Reconnect, Disconnect, vars
    <2>3. tries \in 0..Attempts
      OBVIOUS
    <2>4. venue'[o].n = venue[o].n
      <3>1. ~(tries' = tries + 1)
        BY <2>1, <2>3 DEF Attempts
      <3> QED
        BY <2>1, <2>2, <3>1, AcceptanceStep
    <2> QED
      BY <2>1, <2>4 DEF KnownInv
  <1>3. ASSUME NEW p \in Orders, PlaceOrder(p) PROVE o \in unheard'
    <2>1. p \notin asked /\ cur' = {p} /\ venue' = venue
      BY <1>3 DEF PlaceOrder
    <2> QED
      BY <2>1 DEF AttemptsInv
  <1>4. ASSUME NEW p \in Orders, PlaceAnswered(p) \/ PlaceFails(p) \/ PlaceRefused(p) PROVE o \in unheard'
    <2>1. pc = "send" /\ cur' = cur /\ p \in cur
      BY <1>4 DEF PlaceAnswered, PlaceFails, PlaceRefused, Retry
    <2>2. p = o
      BY <2>1 DEF CurOK
    <2>3. CASE PlaceFails(p)
      BY <2>2, <2>3 DEF PlaceFails
    <2>4. CASE PlaceRefused(p)
      BY <2>1, <2>2, <2>4 DEF PlaceRefused, KnownInv
    <2>5. ~PlaceAnswered(p)
      BY DEF PlaceAnswered
    <2> QED
      BY <1>4, <2>3, <2>4, <2>5
  <1> QED
    BY <1>1, <1>2, <1>3, <1>4 DEF Next, TickStep

LEMMA KnownStep == LiveInv /\ AttemptsInv /\ KnownInv /\ [Next]_vars => KnownInv'
  <1> SUFFICES ASSUME LiveInv, AttemptsInv, KnownInv, [Next]_vars PROVE KnownInv'
    OBVIOUS
  <1>1. ASSUME NEW o \in Orders, venue'[o].n > 0
        PROVE  db'.row[o] # NoRow \/ o \in unheard' \/ Placing(o)'
    <2>1. CASE db.row[o] # NoRow
      BY <2>1, RowsStay
    <2>2. CASE o \in unheard
      BY <2>2, UnheardStays
    <2>3. CASE db.row[o] = NoRow /\ o \notin unheard
      <3>1. venue[o].n \in Nat
        BY VenueRecords, TypeParts DEF LiveInv
      <3>2. venue[o].n > 0 => pc = "write" /\ \E r \in cur : r.order = o
        BY <2>3 DEF KnownInv, AcceptedOrdersKnown, Placing
      <3> QED
        BY <1>1, <2>3, <3>1, <3>2, PlacingStep
    <2> QED
      BY <2>1, <2>2, <2>3
  <1>2. ASSUME NEW o \in Orders, pc' = "send", o \in cur', venue'[o].n > 0 PROVE o \in unheard'
    BY <1>2, SendStep
  <1>3. AcceptedOrdersKnown'
    BY <1>1 DEF AcceptedOrdersKnown
  <1> QED
    BY <1>2, <1>3 DEF KnownInv

\* For every number of orders and faults: an order the venue has accepted has a row,
\* unless its placement is running or the engine was not told of it, could not write
\* it or rolled it back.
THEOREM AcceptedOrdersKnownTheorem == Spec => []AcceptedOrdersKnown
  <1>1. Init => AttemptsInv /\ KnownInv
    BY DEF Init, AttemptsInv, KnownInv, AcceptedOrdersKnown, Attempts
  <1>2. KnownInv => AcceptedOrdersKnown
    BY DEF KnownInv
  <1> QED
    BY LiveInvariant, AttemptsStep, KnownStep, <1>1, <1>2, PTL DEF Spec
=============================================================================
