--------------------------- MODULE MarketDataFeed ---------------------------
(***************************************************************************)
(* The public market data path: a venue's websocket, the connector that    *)
(* reconnects, subscribes and checks sequence numbers, and the runtime's   *)
(* handler, which publishes what it understood to the cache the market     *)
(* maker quotes from (latest:marketdata:<kind>:<venue>:<symbol>).          *)
(*                                                                         *)
(* A message is its kind, the symbol it is about and, for an order book,   *)
(* its sequence number and that of the update before it, where the venue   *)
(* sends one.  A connection delivers in order and loses what is under way  *)
(* when it drops.  The handler runs to its end before the next message; an *)
(* exception in it ends the connection, with what it had published by then *)
(* staying published.                                                      *)
(***************************************************************************)
EXTENDS Integers, Sequences, FiniteSets

CONSTANTS
  Subscriptions,  \* sequence of [symbol, kind]: symbols times streams
  Coinstore,      \* the venue wants subscriptions after its greeting
  SendsPrevious,  \* order book updates carry the previous sequence number
  MaxUpdates,     \* bound: order book updates per symbol
  MaxMessages,    \* bound: messages under way
  FeedFaults      \* bound: disconnects and failing handlers

NoSequence == 0
Symbols == {Subscriptions[i].symbol : i \in DOMAIN Subscriptions}

VARIABLES
  venueSeq,       \* the venue's last order book sequence number, by symbol
  messages,       \* messages under way on the connection
  link,           \* "down", "open" or "subscribed"
  connected,      \* the connector's flag of that name
  last,           \* last_sequence of the first order book subscription
  latest,         \* the cached order book, by the symbol of its key
  ticker,         \* likewise the symbol of the cached ticker
  taken,          \* history: sequence numbers of the order books handled
  feedFaults

feedVars == <<venueSeq, messages, link, connected, last, latest, ticker, taken, feedFaults>>

NoBook == [kind |-> "none", symbol |-> "none", seq |-> NoSequence, prev |-> NoSequence]

----------------------------------------------------------------------------
(* The venue.                                                              *)

Send(m) == messages' = IF link = "subscribed" THEN Append(messages, m) ELSE messages

\* An order book update, whether or not the client is there to receive it.
EmitBook(s) ==
  /\ venueSeq[s] < MaxUpdates
  /\ Len(messages) < MaxMessages
  /\ venueSeq' = [venueSeq EXCEPT ![s] = @ + 1]
  /\ Send([kind |-> "orderbook", symbol |-> s, seq |-> venueSeq[s] + 1,
           prev |-> IF SendsPrevious THEN venueSeq[s] ELSE NoSequence])
  /\ UNCHANGED <<link, connected, last, latest, ticker, taken, feedFaults>>

\* A ticker; it has no sequence number.
EmitTicker(s) ==
  /\ link = "subscribed"
  /\ Len(messages) < MaxMessages
  /\ Send([NoBook EXCEPT !.kind = "ticker", !.symbol = s])
  /\ UNCHANGED <<venueSeq, link, connected, last, latest, ticker, taken, feedFaults>>

----------------------------------------------------------------------------
(* The connector.                                                          *)

\* One more round of connect(): every venue but Coinstore is subscribed to
\* at once; Coinstore greets first.
ConnectVenue ==
  /\ link = "down"
  /\ connected' = TRUE
  /\ link' = IF Coinstore THEN "open" ELSE "subscribed"
  /\ messages' = IF Coinstore THEN <<[NoBook EXCEPT !.kind = "established"]>> ELSE <<>>
  /\ UNCHANGED <<venueSeq, last, latest, ticker, taken, feedFaults>>

\* The connection drops; after a clean close the loop over its messages ends
\* without an exception and the flag stays up.
DropLink(clean) ==
  /\ link # "down"
  /\ feedFaults < FeedFaults
  /\ feedFaults' = feedFaults + 1
  /\ link' = "down"
  /\ messages' = <<>>
  /\ connected' = (connected /\ clean)
  /\ UNCHANGED <<venueSeq, last, latest, ticker, taken>>

\* Mutant of Accepts: the previous sequence number is not compared.
AcceptsAnyNewer(sequence, previous) == last = NoSequence \/ sequence > last

\* SequenceState.validate, of the first order book subscription's state.
Accepts(sequence, previous) ==
  \/ last = NoSequence
  \/ (previous = NoSequence \/ previous = last) /\ sequence > last

\* _gap_detected: any message with a sequence number, whatever its symbol,
\* is checked against the state of the first order book subscription.
GapDetected(m) == m.seq # NoSequence /\ ~Accepts(m.seq, m.prev)

\* _handle_message for the first n subscriptions: the message is published
\* under the symbol of each of them.
Published(m, kind, old, n) ==
  [s \in Symbols |->
     IF m.kind = kind /\ \E i \in 1..n : Subscriptions[i].symbol = s THEN m ELSE old[s]]

\* The handler of _run_connector stops at subscription n + 1 when something
\* it calls fails: a crossed or one-sided book, Redis, the database.
Handle(m, n) ==
  /\ latest' = Published(m, "orderbook", latest, n)
  /\ ticker' = Published(m, "ticker", ticker, n)
  /\ IF n = Len(Subscriptions)
     THEN /\ messages' = Tail(messages)
          /\ UNCHANGED <<link, connected, feedFaults>>
     ELSE /\ feedFaults < FeedFaults
          /\ feedFaults' = feedFaults + 1
          /\ messages' = <<>>
          /\ link' = "down"
          /\ connected' = FALSE

\* Coinstore's greeting: subscribe; the normalizer then drops it.
ReceiveGreeting ==
  /\ messages # <<>>
  /\ Head(messages).kind = "established"
  /\ link' = "subscribed"
  /\ messages' = Tail(messages)
  /\ UNCHANGED <<venueSeq, connected, last, latest, ticker, taken, feedFaults>>

\* A gap: the message is dropped, every subscription is sent again, and no
\* snapshot is fetched, since _run_connector passes no recover_snapshot.
ReceiveGap ==
  /\ messages # <<>>
  /\ GapDetected(Head(messages))
  /\ messages' = Tail(messages)
  /\ UNCHANGED <<venueSeq, link, connected, last, latest, ticker, taken, feedFaults>>

\* last_sequence once the message was accepted.
Advanced(m) == IF m.seq = NoSequence THEN last ELSE m.seq

\* Any other message goes to the handler.
Receive ==
  /\ messages # <<>>
  /\ LET m == Head(messages)
     IN  /\ m.kind # "established"
         /\ ~GapDetected(m)
         /\ last' = Advanced(m)
         /\ taken' = IF m.seq = NoSequence THEN taken ELSE taken \cup {m.seq}
         /\ \E n \in 0..Len(Subscriptions) : Handle(m, n)
  /\ UNCHANGED venueSeq

----------------------------------------------------------------------------
FeedInit ==
  /\ venueSeq = [s \in Symbols |-> 0]
  /\ messages = <<>>
  /\ link = "down"
  /\ connected = FALSE
  /\ last = NoSequence
  /\ latest = [s \in Symbols |-> NoBook]
  /\ ticker = [s \in Symbols |-> NoBook]
  /\ taken = {}
  /\ feedFaults = 0

FeedNext ==
  \/ \E s \in Symbols : EmitBook(s) \/ EmitTicker(s)
  \/ ConnectVenue
  \/ \E clean \in BOOLEAN : DropLink(clean)
  \/ ReceiveGreeting
  \/ ReceiveGap
  \/ Receive

FeedSpec == FeedInit /\ [][FeedNext]_feedVars

----------------------------------------------------------------------------
(* Properties.                                                             *)

\* Only what the venue sent is cached, and the sequence state never runs
\* ahead of the venue.
FeedTypeOK ==
  /\ link \in {"down", "open", "subscribed"}
  /\ connected \in BOOLEAN
  /\ \A s \in Symbols : latest[s].seq \in 0..MaxUpdates /\ ticker[s].seq = NoSequence
  /\ \E s \in Symbols : last <= venueSeq[s]
  /\ feedFaults \in 0..FeedFaults

\* With previous sequence numbers on the wire, the updates of a symbol that
\* reach the handler are a run without a hole, over every disconnect: the
\* market maker never quotes from a book with a missed update in it.
NoSilentGap == SendsPrevious => \A a, b \in taken : a..b \subseteq taken

\* The connector receives what it subscribed to.
Subscribed == link = "subscribed"
=============================================================================
