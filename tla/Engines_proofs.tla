--------------------------- MODULE Engines_proofs ---------------------------
(***************************************************************************)
(* Proofs about what the two engines are built on: the loop of             *)
(* EngineDaemon.run, the order book the market data engine rebuilds, the   *)
(* feed that reaches its handlers and the rows they store.                 *)
(***************************************************************************)
EXTENDS EngineDaemon, OrderBookReconstruction, MarketData, SequenceTheorems, TLAPS

-----------------------------------------------------------------------------
(* The engine loop.                                                        *)

Places == {"ended", "loop", "start", "engine", "commit", "beat", "rollback", "degraded", "shutdown"}

\* The session holds rows of the current tick from the engine's tick to its commit
\* or rollback, and only then: that is why a commit is never torn.
SessionOfTick ==
  /\ session \in {"clean", "tick"}
  /\ session = "tick" => pc \in {"commit", "rollback"}

DaemonInv ==
  /\ pc \in Places
  /\ DaemonTypeOK
  /\ SessionOfTick
  /\ LoopHonest

\* cap: consecutive_errors stays in its range.
LEMMA CapInRange ==
  ASSUME NEW n \in Nat
  PROVE  Cap(n) \in 0..MaxErrors
BY DaemonAssumption DEF Cap

LEMMA DaemonStart == DaemonInit => DaemonInv
BY DaemonAssumption DEF DaemonInit, DaemonInv, Places, DaemonTypeOK, SessionOfTick, LoopHonest, NoTornCommit, HealthyIsWhole

LEMMA DaemonKeeps ==
  ASSUME DaemonInv, [DaemonNext]_daemonVars
  PROVE  DaemonInv'
<1> USE DEF DaemonInv, Places, DaemonTypeOK, SessionOfTick, LoopHonest, NoTornCommit, HealthyIsWhole, world, bus
<1>1. CASE Boot
  BY <1>1, DaemonAssumption DEF Boot
<1>2. CASE CheckDependencies
  BY <1>2 DEF CheckDependencies
<1>3. CASE EnsureStarted
  BY <1>3 DEF EnsureStarted
<1>4. CASE EngineTick
  BY <1>4 DEF EngineTick
<1>5. CASE CommitTick
  BY <1>5 DEF CommitTick
<1>6. CASE Heartbeat
  BY <1>6, DaemonAssumption DEF Heartbeat
<1>7. CASE Rollback
  BY <1>7, CapInRange, DaemonAssumption DEF Rollback
<1>8. CASE HeartbeatDegraded
  BY <1>8 DEF HeartbeatDegraded
<1>9. CASE Shutdown
  BY <1>9 DEF Shutdown
<1>10. CASE Outage
  BY <1>10 DEF Outage
<1>11. CASE Repair
  BY <1>11 DEF Repair
<1>12. CASE BeatExpires
  BY <1>12 DEF BeatExpires
<1>13. CASE UNCHANGED daemonVars
  BY <1>13 DEF daemonVars
<1> QED
  BY <1>1, <1>2, <1>3, <1>4, <1>5, <1>6, <1>7, <1>8, <1>9, <1>10, <1>11, <1>12, <1>13 DEF DaemonNext, DaemonStep

\* EngineDaemon.run, for any number of outages: rows of a failing tick are never
\* committed by a later one, and the health file says healthy only after a whole
\* turn of the loop and before the next failing one.
THEOREM LoopHonestTheorem == DaemonSpec => []LoopHonest
<1>1. DaemonInit => DaemonInv
  BY DaemonStart
<1>2. DaemonInv /\ [DaemonNext]_daemonVars => DaemonInv'
  BY DaemonKeeps
<1>3. DaemonInv => LoopHonest
  BY DEF DaemonInv
<1> QED
  BY <1>1, <1>2, <1>3, PTL DEF DaemonSpec

-----------------------------------------------------------------------------
(* The rebuilt order book.                                                 *)

\* The sizes a book can have, and every history of them by sequence number.
SizesAtPrices == [Prices -> Sizes \cup {Zero}]
Histories == [Nat -> SizesAtPrices]

\* What a delta carries, and what it does to the venue's sizes.
OneLevel(p, z) == [q \in {p} |-> z]
Changed(f, p, z) == [f EXCEPT ![p] = z]

\* A message tells the truth about the venue's past h: a snapshot is the whole book
\* of its sequence number, a delta the one change that led to it.
Truthful(h, m) ==
  /\ m.seq \in 0..venue.seq
  /\ \/ m.kind = "snapshot" /\ m.sizes = Level(h[m.seq])
     \/ /\ m.kind = "delta" /\ m.prev \in Nat /\ m.seq = m.prev + 1
        /\ \E p \in Prices, z \in Sizes \cup {Zero} :
             m.sizes = OneLevel(p, z) /\ h[m.seq] = Changed(h[m.prev], p, z)

\* The rebuilt book is the venue's book of an earlier moment: h is the past in which
\* that holds, and no variable keeps it.
PastExplains(h) ==
  /\ h[venue.seq] = venue.sizes
  /\ \A m \in wire : Truthful(h, m)
  /\ have => sequence \in 0..venue.seq /\ book = Level(h[sequence])

BookInv ==
  /\ venue \in [seq : Nat, sizes : SizesAtPrices]
  /\ have \in BOOLEAN
  /\ ~have => sequence = NoSeq /\ book = <<>>
  /\ \E h \in Histories : PastExplains(h)

\* to_snapshot: a level of size zero is no level.
LEMMA LevelOf ==
  ASSUME NEW f \in SizesAtPrices
  PROVE  /\ \A q : q \in DOMAIN Level(f) <=> q \in Prices /\ f[q] # Zero
         /\ \A q \in DOMAIN Level(f) : Level(f)[q] = f[q] /\ f[q] \in Sizes
BY DEF Level, SizesAtPrices

\* apply_delta on the book of f gives the book of f with one size changed.
LEMMA MergedIsLevel ==
  ASSUME NEW f \in SizesAtPrices, NEW p \in Prices, NEW z \in Sizes \cup {Zero}, NEW m,
         book = Level(f), m.sizes = OneLevel(p, z)
  PROVE  Merged(m) = Level(Changed(f, p, z))
<1> DEFINE g == Changed(f, p, z)
           b == [q \in DOMAIN book \cup DOMAIN m.sizes |->
                   IF q \in DOMAIN m.sizes THEN m.sizes[q] ELSE book[q]]
<1>1. /\ \A q : q \in DOMAIN book <=> q \in Prices /\ f[q] # Zero
      /\ \A q \in DOMAIN book : book[q] = f[q]
  BY LevelOf
<1>2. DOMAIN m.sizes = {p} /\ m.sizes[p] = z
  BY DEF OneLevel
<1>3. g \in [Prices -> Sizes \cup {Zero}] /\ g[p] = z /\ \A q \in Prices : q # p => g[q] = f[q]
  BY DEF SizesAtPrices, Changed
<1>4. DOMAIN b = DOMAIN book \cup {p}
  BY <1>2
<1>5. \A q \in DOMAIN b : q \in Prices /\ b[q] = g[q]
  BY <1>1, <1>2, <1>3, <1>4
<1>6. {q \in DOMAIN b : b[q] # Zero} = {q \in Prices : g[q] # Zero}
  <2>1. \A q \in Prices : g[q] # Zero => q \in DOMAIN b
    BY <1>1, <1>3, <1>4
  <2> HIDE DEF b, g
  <2> QED
    BY <2>1, <1>5
<1>7. Level(b) = [q \in {r \in DOMAIN b : b[r] # Zero} |-> b[q]]
  BY DEF Level
<1>8. Level(g) = [q \in {r \in Prices : g[r] # Zero} |-> g[q]]
  BY <1>3 DEF Level
<1>9. Merged(m) = Level(b)
  BY DEF Merged
<1> HIDE DEF b, g
<1>10. Level(b) = Level(g)
  BY <1>5, <1>6, <1>7, <1>8
<1> QED
  BY <1>9, <1>10 DEF g

LEMMA BookStart == BookInit => BookInv
<1> SUFFICES ASSUME BookInit PROVE BookInv
  OBVIOUS
<1> DEFINE h == [n \in Nat |-> [p \in Prices |-> Zero]]
<1>1. h \in Histories
  BY DEF Histories, SizesAtPrices
<1>2. PastExplains(h)
  BY DEF BookInit, PastExplains
<1>3. have \in BOOLEAN /\ (~have => sequence = NoSeq /\ book = <<>>)
  BY DEF BookInit
<1>4. venue \in [seq : Nat, sizes : SizesAtPrices]
  BY DEF BookInit, SizesAtPrices
<1> QED
  BY <1>1, <1>2, <1>3, <1>4 DEF BookInv

\* The past of a change is the past with one more book.
LEMMA ChangeKeeps ==
  ASSUME BookInv, NEW p \in Prices, NEW size \in Sizes \cup {Zero}, Change(p, size)
  PROVE  BookInv'
<1> PICK h \in Histories : PastExplains(h)
  BY DEF BookInv
<1> DEFINE n == venue.seq + 1
           now == Changed(venue.sizes, p, size)
<1>1. venue.seq \in Nat /\ venue.sizes \in SizesAtPrices /\ venue' = [seq |-> n, sizes |-> now]
  BY DEF BookInv, Change, Changed
<1>2. now \in SizesAtPrices
  BY <1>1 DEF SizesAtPrices, Changed
<1>3. PICK next \in Histories : next[n] = now /\ \A k \in 0..venue.seq : next[k] = h[k]
  <2>1. [h EXCEPT ![n] = now] \in Histories
    BY <1>1, <1>2 DEF Histories
  <2> WITNESS [h EXCEPT ![n] = now] \in Histories
  <2> QED
    BY <1>1 DEF Histories
<1>4. UNCHANGED <<book, have, sequence, gaps>>
  BY DEF Change
<1>5. \A m \in wire : Truthful(next, m)'
  <2> TAKE m \in wire
  <2>1. Truthful(h, m)
    BY DEF PastExplains
  <2>2. m.seq \in 0..venue.seq /\ m.seq \in 0..venue'.seq /\ next[m.seq] = h[m.seq]
    BY <2>1, <1>1, <1>3 DEF Truthful
  <2>3. m.kind = "delta" /\ m.prev \in Nat /\ m.seq = m.prev + 1 => next[m.prev] = h[m.prev]
    BY <2>2, <1>1, <1>3
  <2> QED
    BY <2>1, <2>2, <2>3 DEF Truthful
<1> PICK new : new = [kind |-> "delta", seq |-> n, prev |-> venue.seq, sizes |-> OneLevel(p, size)]
  OBVIOUS
<1>6. Truthful(next, new)'
  <2>1. new.seq \in 0..venue'.seq /\ new.kind = "delta" /\ new.prev \in Nat /\ new.seq = new.prev + 1
    BY <1>1
  <2>2. next[new.seq] = Changed(next[new.prev], p, size)
    BY <1>1, <1>3 DEF PastExplains
  <2>3. new.sizes = OneLevel(p, size)
    OBVIOUS
  <2> QED
    BY <2>1, <2>2, <2>3 DEF Truthful
<1>7. wire' = wire \cup {new}
  BY DEF Change, OneLevel
<1>8. PastExplains(next)'
  <2>1. next[venue'.seq] = venue'.sizes
    BY <1>1, <1>3
  <2>2. have' => sequence' \in 0..venue'.seq /\ book' = Level(next[sequence'])
    BY <1>1, <1>3, <1>4 DEF PastExplains
  <2> QED
    BY <2>1, <2>2, <1>5, <1>6, <1>7 DEF PastExplains
<1>9. venue' \in [seq : Nat, sizes : SizesAtPrices]
  BY <1>1, <1>2
<1> QED
  BY <1>3, <1>4, <1>8, <1>9 DEF BookInv

\* Messages lost, repeated and overtaken leave the past alone.
LEMMA MessagesKeep ==
  ASSUME BookInv, Snapshot \/ \E m \in wire : Lose(m) \/ ApplySnapshot(m) \/ ApplyDelta(m)
  PROVE  BookInv'
<1> PICK h \in Histories : PastExplains(h)
  BY DEF BookInv
<1>1. UNCHANGED venue
  BY DEF Snapshot, Lose, ApplySnapshot, ApplyDelta
<1>2. venue.seq \in Nat /\ venue.sizes \in SizesAtPrices
  BY DEF BookInv
<1>3. \A m : Truthful(h, m) => Truthful(h, m)'
  BY <1>1 DEF Truthful
<1>4. CASE Snapshot
  <2> DEFINE new == [kind |-> "snapshot", seq |-> venue.seq, prev |-> NoSeq, sizes |-> Level(venue.sizes)]
  <2>1. wire' = wire \cup {new} /\ UNCHANGED <<book, have, sequence>>
    BY <1>4 DEF Snapshot
  <2>2. Truthful(h, new)
    BY <1>2 DEF Truthful, PastExplains
  <2> HIDE DEF new
  <2>3. PastExplains(h)'
    BY <2>1, <2>2, <1>1, <1>3 DEF PastExplains
  <2> QED
    BY <2>1, <2>3, <1>1 DEF BookInv
<1>5. ASSUME NEW m \in wire, Lose(m)
      PROVE  BookInv'
  <2>1. wire' \subseteq wire /\ UNCHANGED <<book, have, sequence>>
    BY <1>5 DEF Lose
  <2>2. PastExplains(h)'
    BY <2>1, <1>1, <1>3 DEF PastExplains
  <2> QED
    BY <2>1, <2>2, <1>1 DEF BookInv
<1>6. ASSUME NEW m \in wire, ApplySnapshot(m)
      PROVE  BookInv'
  <2>1. wire' \subseteq wire /\ have' = TRUE /\ sequence' = m.seq /\ book' = m.sizes /\ m.kind = "snapshot"
    BY <1>6 DEF ApplySnapshot
  <2>2. m.seq \in 0..venue.seq /\ m.sizes = Level(h[m.seq])
    BY <2>1 DEF PastExplains, Truthful
  <2>3. PastExplains(h)'
    BY <2>1, <2>2, <1>1, <1>3 DEF PastExplains
  <2> QED
    BY <2>1, <2>3, <1>1 DEF BookInv
<1>7. ASSUME NEW m \in wire, ApplyDelta(m)
      PROVE  BookInv'
  <2>1. wire' \subseteq wire /\ have' = have /\ m.kind = "delta"
    BY <1>7 DEF ApplyDelta
  <2>2. CASE have /\ Validate(m.seq, m.prev)
    <3>1. book' = Merged(m) /\ sequence' = m.seq /\ m.prev = sequence
      BY <1>7, <2>2 DEF ApplyDelta, Validate
    <3>2. Truthful(h, m)
      BY DEF PastExplains
    <3>3. m.seq \in 0..venue.seq
      BY <3>2 DEF Truthful
    <3>4. PICK p \in Prices, z \in Sizes \cup {Zero} :
            m.sizes = OneLevel(p, z) /\ h[m.seq] = Changed(h[m.prev], p, z)
      BY <3>2, <2>1 DEF Truthful
    <3>5. book = Level(h[m.prev]) /\ h[m.prev] \in SizesAtPrices
      BY <3>1, <2>2, <1>2 DEF PastExplains, Histories
    <3>6. book' = Level(h[m.seq])
      BY <3>1, <3>4, <3>5, MergedIsLevel
    <3>7. PastExplains(h)'
      BY <2>1, <3>1, <3>3, <3>6, <1>1, <1>3 DEF PastExplains
    <3> QED
      BY <2>1, <2>2, <3>7, <1>1 DEF BookInv
  <2>3. CASE ~(have /\ Validate(m.seq, m.prev))
    <3>1. UNCHANGED <<book, sequence>>
      BY <1>7, <2>3 DEF ApplyDelta
    <3>2. PastExplains(h)'
      BY <2>1, <3>1, <1>1, <1>3 DEF PastExplains
    <3> QED
      BY <2>1, <3>1, <3>2, <1>1 DEF BookInv
  <2> QED
    BY <2>2, <2>3
<1> QED
  BY <1>4, <1>5, <1>6, <1>7

LEMMA BookKeeps ==
  ASSUME BookInv, [BookNext]_bookVars
  PROVE  BookInv'
<1>1. CASE UNCHANGED bookVars
  BY <1>1 DEF BookInv, PastExplains, Truthful, bookVars
<1> QED
  BY <1>1, ChangeKeeps, MessagesKeep DEF BookNext

\* A rebuilt book never runs ahead of the venue and holds positive sizes at known
\* prices only.
THEOREM BookTypeCorrect == BookSpec => []BookTypeOK
<1>1. BookInv => BookTypeOK
  <2> SUFFICES ASSUME BookInv PROVE BookTypeOK
    OBVIOUS
  <2> PICK h \in Histories : PastExplains(h)
    BY DEF BookInv
  <2>1. CASE ~have
    BY <2>1 DEF BookInv, BookTypeOK, NoSeq
  <2>2. CASE have
    <3>1. sequence \in 0..venue.seq /\ book = Level(h[sequence]) /\ venue.seq \in Nat
      BY <2>2 DEF BookInv, PastExplains
    <3>2. h[sequence] \in SizesAtPrices
      BY <3>1 DEF Histories
    <3>3. \A p \in DOMAIN book : p \in Prices /\ book[p] \in Sizes
      BY <3>1, <3>2, LevelOf
    <3>4. sequence <= venue.seq /\ sequence # NoSeq
      BY <3>1 DEF NoSeq
    <3> QED
      BY <2>2, <3>3, <3>4 DEF BookTypeOK
  <2> QED
    BY <2>1, <2>2
<1> QED
  BY <1>1, BookStart, BookKeeps, PTL DEF BookSpec

\* OrderBookReconstructor, for every set of prices and sizes and any number of
\* changes: whatever was lost, repeated or reordered on the way, a book that has
\* reached the venue's sequence number is the venue's book, level by level.
THEOREM BookIsVenueBookTheorem == BookSpec => []BookIsVenueBook
<1>1. BookInv => BookIsVenueBook
  BY DEF BookInv, PastExplains, BookIsVenueBook
<1> QED
  BY <1>1, BookStart, BookKeeps, PTL DEF BookSpec

-----------------------------------------------------------------------------
(* The feed.                                                               *)

\* What a venue puts on the wire: an update that carries a previous sequence number
\* carries the one just before its own.
WireMessages ==
  {m \in [kind : {"none", "orderbook", "ticker", "established"}, symbol : Symbols \union {"none"}, seq : Nat, prev : Nat] :
     SendsPrevious /\ m.seq # NoSequence => m.prev = m.seq - 1}

FeedTypes ==
  /\ venueSeq \in [Symbols -> Nat]
  /\ messages \in Seq(WireMessages)
  /\ last \in Nat

\* The updates handled are all those from some first one to last_sequence.
TakenIsRun ==
  SendsPrevious =>
    \/ last = NoSequence /\ taken = {}
    \/ \E low \in 1..last : taken = low..last

FeedInv == FeedTypes /\ TakenIsRun

LEMMA FeedStart == FeedInit => FeedInv
BY DEF FeedInit, FeedInv, FeedTypes, TakenIsRun, NoSequence

\* A message is put on the wire, or lost before it.
LEMMA SendKeeps ==
  ASSUME FeedTypes, NEW m \in WireMessages, Send(m)
  PROVE  messages' \in Seq(WireMessages)
BY DEF FeedTypes, Send

LEMMA EmitKeeps ==
  ASSUME FeedInv, NEW s \in Symbols, EmitBook(s) \/ EmitTicker(s)
  PROVE  FeedInv'
<1>1. UNCHANGED <<last, taken>>
  BY DEF EmitBook, EmitTicker
<1>2. venueSeq[s] \in Nat
  BY DEF FeedInv, FeedTypes
<1>3. CASE EmitBook(s)
  <2> DEFINE m == [kind |-> "orderbook", symbol |-> s, seq |-> venueSeq[s] + 1,
                   prev |-> IF SendsPrevious THEN venueSeq[s] ELSE NoSequence]
  <2>1. m \in WireMessages
    BY <1>2 DEF WireMessages, NoSequence
  <2>2. Send(m) /\ venueSeq' = [venueSeq EXCEPT ![s] = @ + 1]
    BY <1>3 DEF EmitBook
  <2>3. messages' \in Seq(WireMessages)
    BY <2>1, <2>2, SendKeeps DEF FeedInv
  <2> QED BY <2>2, <2>3, <1>1, <1>2 DEF FeedInv, FeedTypes, TakenIsRun
<1>4. CASE EmitTicker(s)
  <2> DEFINE m == [NoBook EXCEPT !.kind = "ticker", !.symbol = s]
  <2>1. m \in WireMessages
    BY DEF WireMessages, NoSequence, NoBook
  <2>2. Send(m) /\ venueSeq' = venueSeq
    BY <1>4 DEF EmitTicker
  <2>3. messages' \in Seq(WireMessages)
    BY <2>1, <2>2, SendKeeps DEF FeedInv
  <2> QED BY <2>2, <2>3, <1>1 DEF FeedInv, FeedTypes, TakenIsRun
<1> QED BY <1>3, <1>4

\* SequenceState.validate accepts the first update, and then the next one only.
LEMMA AcceptsNext ==
  ASSUME FeedInv, SendsPrevious, NEW m \in WireMessages, m.seq # NoSequence, Accepts(m.seq, m.prev), last # NoSequence
  PROVE  m.seq = last + 1
BY DEF Accepts, FeedInv, FeedTypes, WireMessages, NoSequence

LEMMA ReceiveKeeps ==
  ASSUME FeedInv, Receive
  PROVE  FeedInv'
<1> DEFINE m == Head(messages)
<1>1. messages \in Seq(WireMessages) /\ messages # <<>> /\ last \in Nat
  BY DEF Receive, FeedInv, FeedTypes
<1>2. m \in WireMessages /\ Tail(messages) \in Seq(WireMessages)
  BY <1>1, HeadTailProperties
<1>3. /\ venueSeq' = venueSeq
      /\ ~GapDetected(m) /\ last' = Advanced(m)
      /\ taken' = IF m.seq = NoSequence THEN taken ELSE taken \cup {m.seq}
      /\ messages' \in {Tail(messages), <<>>}
  BY DEF Receive, Handle
<1>4. FeedTypes'
  <2>1. m.seq \in Nat
    BY <1>2 DEF WireMessages
  <2>2. last' \in Nat
    BY <2>1, <1>1, <1>3 DEF Advanced
  <2>3. <<>> \in Seq(WireMessages)
    OBVIOUS
  <2>4. messages' \in Seq(WireMessages)
    BY <2>3, <1>2, <1>3, Zenon
  <2> QED BY <2>2, <2>4, <1>3 DEF FeedInv, FeedTypes
<1>5. CASE m.seq = NoSequence
  BY <1>3, <1>4, <1>5 DEF FeedInv, TakenIsRun, Advanced
<1>6. CASE m.seq # NoSequence
  <2>1. m.seq \in Nat /\ Accepts(m.seq, m.prev) /\ last' = m.seq /\ taken' = taken \cup {m.seq}
    BY <1>2, <1>3, <1>6 DEF GapDetected, Advanced, WireMessages
  <2>2. ASSUME SendsPrevious PROVE \E low \in 1..last' : taken' = low..last'
    <3>1. CASE last = NoSequence
      <4>1. taken = {}
        BY <3>1, <2>2 DEF FeedInv, TakenIsRun, NoSequence
      <4>2. m.seq \in 1..m.seq /\ taken' = m.seq..m.seq
        BY <4>1, <2>1, <1>6 DEF NoSequence
      <4> QED BY <4>2, <2>1
    <3>2. CASE last # NoSequence
      <4>1. PICK low \in 1..last : taken = low..last
        BY <3>2, <2>2 DEF FeedInv, TakenIsRun
      <4>2. m.seq = last + 1
        BY <3>2, <2>1, <2>2, <1>2, <1>6, AcceptsNext
      <4>3. low \in 1..last' /\ taken' = low..last'
        BY <4>1, <4>2, <2>1, <1>1
      <4> QED BY <4>3
    <3> QED BY <3>1, <3>2
  <2> QED BY <2>2, <1>4 DEF FeedInv, TakenIsRun
<1> QED BY <1>5, <1>6

LEMMA FeedKeeps ==
  ASSUME FeedInv, [FeedNext]_feedVars
  PROVE  FeedInv'
<1>1. ASSUME NEW s \in Symbols, EmitBook(s) \/ EmitTicker(s) PROVE FeedInv'
  BY <1>1, EmitKeeps
<1>2. CASE ConnectVenue
  <2>1. [NoBook EXCEPT !.kind = "established"] \in WireMessages
    BY DEF NoBook, WireMessages, NoSequence
  <2>2. messages' \in Seq(WireMessages)
    BY <1>2, <2>1 DEF ConnectVenue
  <2> QED BY <1>2, <2>2 DEF ConnectVenue, FeedInv, FeedTypes, TakenIsRun
<1>3. ASSUME NEW clean \in BOOLEAN, DropLink(clean) PROVE FeedInv'
  BY <1>3 DEF DropLink, FeedInv, FeedTypes, TakenIsRun
<1>4. CASE ReceiveGreeting \/ ReceiveGap
  <2>1. messages \in Seq(WireMessages) /\ messages # <<>> /\ messages' = Tail(messages) /\ UNCHANGED <<venueSeq, last, taken>>
    BY <1>4 DEF ReceiveGreeting, ReceiveGap, FeedInv, FeedTypes
  <2>2. messages' \in Seq(WireMessages)
    BY <2>1, HeadTailProperties
  <2> QED BY <2>1, <2>2 DEF FeedInv, FeedTypes, TakenIsRun
<1>5. CASE Receive
  BY <1>5, ReceiveKeeps
<1>6. CASE UNCHANGED feedVars
  BY <1>6 DEF feedVars, FeedInv, FeedTypes, TakenIsRun
<1> QED BY <1>1, <1>2, <1>3, <1>4, <1>5, <1>6 DEF FeedNext

LEMMA RunHasNoGap == FeedInv => NoSilentGap
<1> SUFFICES ASSUME FeedInv, SendsPrevious, NEW a \in taken, NEW b \in taken
             PROVE  a..b \subseteq taken
  BY DEF NoSilentGap
<1>1. PICK low \in 1..last : taken = low..last
  BY DEF FeedInv, TakenIsRun
<1> QED BY <1>1 DEF FeedInv, FeedTypes

-----------------------------------------------------------------------------
(* The store.                                                              *)

TaskPlaces == {"idle", "persist", "ensure", "create", "insert"}
RowKinds == {"ticker", "order_book", "liquidity", "volatility"}
Tasks == [pc : TaskPlaces, todo : Seq(RowKinds), pair : Pairs]

\* Types; a connector that is not idle has a row left to write.
StoreTypes ==
  /\ task \in [Connectors -> Tasks]
  /\ \A c \in Connectors : task[c].pc # "idle" => task[c].todo # <<>>
  /\ active \in BOOLEAN
  /\ stored \in [Connectors -> Pairs] /\ fresh \in [Connectors -> {NoPair, "own"}]
  /\ cache \in [Connectors -> Pairs]
  /\ harmed \subseteq Connectors

\* A pair is created in the open transaction only while no committed one exists: the
\* unique key makes every other process wait.
FreshNotStored == \A c \in Connectors : fresh[c] # NoPair => stored[c] = NoPair

\* A connector that nobody harmed since its lookup has a session that works and, on
\* its way to the insert, a pair that session still finds.
UnharmedReady ==
  \A c \in Connectors \ harmed :
    /\ task[c].pc \in {"create", "insert"} => active
    /\ task[c].pc = "insert" => task[c].pair # NoPair /\ Find(c) = task[c].pair

StoreInv == StoreTypes /\ FreshNotStored /\ UnharmedReady /\ FailuresExplained

\* _ensure_trading_pair: the cached id, where it is used, is what a search finds.
LEMMA LookupFinds ==
  ASSUME StoreTypes, FreshNotStored, NEW c \in Connectors
  PROVE  Lookup(c) = Find(c) /\ Lookup(c) \in Pairs
BY DEF Lookup, Find, FreshNotStored, StoreTypes, Pairs, NoPair

LEMMA StoreStart == StoreInit => StoreInv
BY DEF StoreInit, StoreInv, StoreTypes, FreshNotStored, UnharmedReady, FailuresExplained, Idle, NoPairs, Tasks, TaskPlaces, Pairs

LEMMA IdleTyped == Idle \in Tasks
BY DEF Idle, Tasks, TaskPlaces, Pairs

\* What is left of a message is a task between two rows, or none.
LEMMA RestTyped ==
  ASSUME StoreTypes, NEW c \in Connectors, task[c].pc # "idle"
  PROVE  RestOf(c) \in Tasks /\ RestOf(c).pc \in {"idle", "persist"} /\ (RestOf(c).pc # "idle" => RestOf(c).todo # <<>>)
<1> DEFINE t == task[c]
<1>1. t \in Tasks /\ t.todo # <<>>
  BY DEF StoreTypes
<1>2. CASE Len(t.todo) = 1
  BY <1>2, IdleTyped DEF RestOf, Idle
<1>3. CASE Len(t.todo) # 1
  <2>1. t.todo \in Seq(RowKinds) /\ t.pair \in Pairs
    BY <1>1 DEF Tasks
  <2>2. Tail(t.todo) \in Seq(RowKinds) /\ Tail(t.todo) # <<>>
    <3>1. Len(t.todo) \in Nat /\ Len(t.todo) # 0
      BY <2>1, <1>1
    <3>2. Tail(t.todo) \in Seq(RowKinds) /\ Len(Tail(t.todo)) = Len(t.todo) - 1
      BY <2>1, <1>1
    <3>3. ASSUME Tail(t.todo) = <<>> PROVE FALSE
      <4>1. Len(Tail(t.todo)) = Len(<<>>)
        BY <3>3, Zenon
      <4>2. Len(<<>>) = 0
        BY EmptySeq, Zenon
      <4> QED BY <4>1, <4>2, <3>1, <3>2, <1>3
    <3> QED BY <3>2, <3>3, Zenon
  <2>3. RestOf(c) = [pc |-> "persist", todo |-> Tail(t.todo), pair |-> NoPair]
    BY <1>1, <1>3 DEF RestOf, Tasks
  <2> QED BY <2>2, <2>3 DEF Tasks, TaskPlaces, Pairs
<1> QED BY <1>2, <1>3

\* A step of one connector that neither touches the session nor the pairs, and leaves
\* the connector outside lookup and insert.
LEMMA TaskMovesOn ==
  ASSUME StoreInv, NEW c \in Connectors, NEW t \in Tasks, task' = [task EXCEPT ![c] = t],
         t.pc \notin {"create", "insert"}, t.pc # "idle" => t.todo # <<>>,
         UNCHANGED <<active, stored, fresh, cache, harmed, failed>>
  PROVE  StoreInv'
BY DEF StoreInv, StoreTypes, FreshNotStored, UnharmedReady, FailuresExplained, Find

LEMMA TakeKeeps ==
  ASSUME StoreInv, NEW c \in Connectors, NEW kind \in MessageKinds, Take(c, kind)
  PROVE  StoreInv'
<1>1. Persists(kind) \in Seq(RowKinds) /\ Persists(kind) # <<>>
  <2>1. kind \in {"ticker", "orderbook", "kline"}
    BY PersistAssumption
  <2>2. CASE kind = "ticker"
    BY <2>2 DEF Persists, RowKinds
  <2>3. CASE kind = "orderbook"
    BY <2>3 DEF Persists, RowKinds
  <2>4. CASE kind = "kline"
    BY <2>4 DEF Persists, RowKinds
  <2> QED BY <2>1, <2>2, <2>3, <2>4
<1>2. [pc |-> "persist", todo |-> Persists(kind), pair |-> NoPair] \in Tasks
  BY <1>1 DEF Tasks, TaskPlaces, Pairs
<1> QED BY <1>1, <1>2, TaskMovesOn DEF Take

LEMMA MaybePersistKeeps ==
  ASSUME StoreInv, NEW c \in Connectors, MaybePersist(c)
  PROVE  StoreInv'
<1>1. task[c] \in Tasks /\ task[c].pc = "persist" /\ task[c].todo # <<>>
  BY DEF MaybePersist, StoreInv, StoreTypes
<1>2. [task[c] EXCEPT !.pc = "ensure"] \in Tasks
  BY <1>1 DEF Tasks, TaskPlaces
<1>3. CASE Due(counter + 1)
  BY <1>1, <1>2, <1>3, TaskMovesOn DEF MaybePersist, Tasks
<1>4. CASE ~Due(counter + 1)
  BY <1>1, <1>4, RestTyped, TaskMovesOn DEF MaybePersist, StoreInv
<1> QED BY <1>3, <1>4

\* The session is rolled back: every connector between lookup and insert is harmed.
LEMMA RollbackKeeps ==
  ASSUME StoreInv, RolledBack, UNCHANGED <<task, stored, failed>>
  PROVE  StoreInv'
BY DEF StoreInv, RolledBack, NoPairs, Midway, StoreTypes, FreshNotStored, UnharmedReady, FailuresExplained, Find, Pairs, Tasks

\* An insert raised in a connector that was harmed.
LEMMA RaiseKeeps ==
  ASSUME StoreInv, NEW c \in harmed, Raise(c), UNCHANGED <<stored, fresh, cache>>
  PROVE  StoreInv'
<1>1. c \in Connectors
  BY DEF StoreInv, StoreTypes
<1> QED BY <1>1, IdleTyped DEF Raise, Midway, Idle, StoreInv, StoreTypes, FreshNotStored, UnharmedReady, FailuresExplained, Find

LEMMA EnsureKeeps ==
  ASSUME StoreInv, NEW c \in Connectors, Ensure(c)
  PROVE  StoreInv'
<1>1. CASE ~active
  BY <1>1, RollbackKeeps DEF Ensure
<1>2. CASE active
  <2> DEFINE t == [task[c] EXCEPT !.pc = AfterLookup(Lookup(c)), !.pair = Lookup(c)]
  <2>1. /\ task' = [task EXCEPT ![c] = t] /\ cache' = [cache EXCEPT ![c] = Lookup(c)]
        /\ harmed' = harmed \ {c} /\ UNCHANGED <<active, fresh, stored, failed>>
    BY <1>2 DEF Ensure, StoreInv, StoreTypes, Tasks
  <2>2. task[c] \in Tasks /\ task[c].todo # <<>> /\ Lookup(c) = Find(c) /\ Lookup(c) \in Pairs
    BY LookupFinds DEF Ensure, StoreInv, StoreTypes
  <2>3. t \in Tasks /\ t.todo # <<>> /\ t.pair = Find(c) /\ (t.pc = "insert" => Find(c) # NoPair)
    BY <2>2 DEF Tasks, TaskPlaces, AfterLookup
  <2> HIDE DEF t
  <2>4. StoreTypes'
    BY <2>1, <2>2, <2>3 DEF StoreInv, StoreTypes
  <2>5. UnharmedReady'
    BY <2>1, <2>3, <1>2 DEF StoreInv, StoreTypes, UnharmedReady, Find
  <2> QED BY <2>1, <2>4, <2>5 DEF StoreInv, FreshNotStored, FailuresExplained
<1> QED BY <1>1, <1>2

LEMMA CreateKeeps ==
  ASSUME StoreInv, NEW c \in Connectors, Create(c)
  PROVE  StoreInv'
<1>1. CASE ~active
  <2>1. c \in harmed
    BY <1>1 DEF Create, StoreInv, UnharmedReady
  <2> QED BY <2>1, <1>1, RaiseKeeps DEF Create
<1>2. CASE active
  <2> DEFINE id == IF stored[c] # NoPair THEN stored[c] ELSE "own"
             t == [task[c] EXCEPT !.pc = "insert", !.pair = id]
             f == IF stored[c] # NoPair THEN NoPair ELSE id
  <2>1. /\ task' = [task EXCEPT ![c] = t] /\ cache' = [cache EXCEPT ![c] = id]
        /\ fresh' = [fresh EXCEPT ![c] = f]
        /\ UNCHANGED <<active, harmed, stored, failed>>
    BY <1>2 DEF Create, StoreInv, StoreTypes, Tasks
  <2>2. task[c] \in Tasks /\ task[c].todo # <<>> /\ id \in Pairs \ {NoPair} /\ f \in {NoPair, "own"}
        /\ (f # NoPair => stored[c] = NoPair) /\ id = IF f # NoPair THEN f ELSE stored[c]
    BY DEF Create, StoreInv, StoreTypes, Pairs, NoPair
  <2> HIDE DEF id, f
  <2>3. t \in Tasks /\ t.todo # <<>> /\ t.pair = id /\ t.pc = "insert"
    BY <2>2 DEF Tasks, TaskPlaces
  <2> HIDE DEF t
  <2>4. StoreTypes'
    BY <2>1, <2>2, <2>3 DEF StoreInv, StoreTypes
  <2>5. FreshNotStored'
    BY <2>1, <2>2 DEF StoreInv, StoreTypes, FreshNotStored
  <2>6. UnharmedReady'
    BY <2>1, <2>2, <2>3, <1>2 DEF StoreInv, StoreTypes, UnharmedReady, Find
  <2> QED BY <2>1, <2>4, <2>5, <2>6 DEF StoreInv, FailuresExplained
<1> QED BY <1>1, <1>2

LEMMA FlushRowKeeps ==
  ASSUME StoreInv, NEW c \in Connectors, FlushRow(c)
  PROVE  StoreInv'
<1>1. CASE active /\ Find(c) = task[c].pair
  <2>1. task[c].pc # "idle"
    BY DEF FlushRow
  <2> QED BY <1>1, <2>1, RestTyped, TaskMovesOn DEF FlushRow, StoreInv
<1>2. CASE ~(active /\ Find(c) = task[c].pair)
  <2>1. c \in harmed
    BY <1>2 DEF FlushRow, StoreInv, UnharmedReady
  <2> QED BY <2>1, <1>2, RaiseKeeps DEF FlushRow
<1> QED BY <1>1, <1>2

LEMMA StoreKeeps ==
  ASSUME StoreInv, [StoreNext]_storeVars
  PROVE  StoreInv'
<1>1. ASSUME NEW c \in Connectors, Connector(c) PROVE StoreInv'
  BY <1>1, TakeKeeps, MaybePersistKeeps, EnsureKeeps, CreateKeeps, FlushRowKeeps
     DEF Connector, InsertMarketData, InsertLiquidity, InsertVolatility
<1>2. ASSUME NEW c \in Connectors, OtherProcess(c) PROVE StoreInv'
  <2>1. fresh[c] = NoPair
    BY <1>2 DEF OtherProcess, Find
  <2> QED BY <1>2, <2>1 DEF OtherProcess, StoreInv, StoreTypes, FreshNotStored, UnharmedReady, FailuresExplained, Find, Pairs, Tasks
<1>3. CASE DaemonCommit
  BY <1>3 DEF DaemonCommit, NoPairs, StoreInv, StoreTypes, FreshNotStored, UnharmedReady, FailuresExplained, Find, Pairs, Tasks
<1>4. CASE DaemonRollback
  BY <1>4, RollbackKeeps DEF DaemonRollback
<1>5. CASE UNCHANGED storeVars
  BY <1>5 DEF storeVars, StoreInv, StoreTypes, FreshNotStored, UnharmedReady, FailuresExplained, Find
<1> QED BY <1>1, <1>2, <1>3, <1>4, <1>5 DEF StoreNext

-----------------------------------------------------------------------------
\* _gap_detected and _ensure_trading_pair: for any subscriptions, any number of
\* connectors and any interleaving of messages, drops, commits, rollbacks and other
\* processes, the order books taken have no hole, and an insert raises only in a
\* connector whose session was rolled back or broke after its lookup.
THEOREM MarketDataWholeAlways == MarketDataSpec => []MarketDataWhole
<1>1. FeedInv /\ [FeedNext]_feedVars => FeedInv'
  BY FeedKeeps
<1>2. FeedSpec => []NoSilentGap
  BY <1>1, FeedStart, RunHasNoGap, PTL DEF FeedSpec
<1>3. StoreInv /\ [StoreNext]_storeVars => StoreInv'
  BY StoreKeeps
<1>4. StoreInv => FailuresExplained
  BY DEF StoreInv
<1>5. StoreSpec => []FailuresExplained
  BY <1>3, <1>4, StoreStart, PTL DEF StoreSpec
<1>6. NoSilentGap /\ FailuresExplained => MarketDataWhole
  BY DEF MarketDataWhole
<1> QED BY <1>2, <1>5, <1>6, PTL DEF MarketDataSpec
=============================================================================
