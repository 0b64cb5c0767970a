---------------------- MODULE OrderBookReconstruction ----------------------
(***************************************************************************)
(* OrderBookReconstructor: one side of one book, rebuilt from a snapshot   *)
(* and deltas whose sequence numbers it checks.  The venue changes its     *)
(* book one price at a time, numbers the changes, and a change may be      *)
(* lost, repeated or overtaken on the way.                                 *)
(***************************************************************************)
EXTENDS Integers, FiniteSets, Functions

CONSTANTS
  Prices, Sizes,  \* price levels, and the sizes at them
  MaxSeq,         \* bound: changes of the book
  MaxWire         \* bound: messages under way

ASSUME BookAssumption == Sizes \subseteq Nat \ {0} /\ MaxSeq \in Nat /\ MaxWire \in Nat

NoSeq == -1

VARIABLES
  venue,     \* the venue's book: [seq, sizes by price]
  wire,      \* messages under way, in no particular order
  book,      \* books[key].bids, or <<>> with have = FALSE
  have,      \* key in self.books
  sequence,  \* SequenceState.last_sequence
  gaps       \* SequenceState.gaps_detected > 0

bookVars == <<venue, wire, book, have, sequence, gaps>>

Zero == 0

Level(f) == [p \in {q \in DOMAIN f : f[q] # Zero} |-> f[p]]

\* The venue changes the size at a price (zero removes it) and says so.
Change(p, size) ==
  /\ venue.seq < MaxSeq
  /\ Cardinality(wire) < MaxWire
  /\ venue' = [seq |-> venue.seq + 1, sizes |-> [venue.sizes EXCEPT ![p] = size]]
  /\ wire' = wire \cup {[kind |-> "delta", seq |-> venue.seq + 1, prev |-> venue.seq,
                         sizes |-> [q \in {p} |-> size]]}
  /\ UNCHANGED <<book, have, sequence, gaps>>

\* A snapshot is taken of the whole book.
Snapshot ==
  /\ Cardinality(wire) < MaxWire
  /\ wire' = wire \cup {[kind |-> "snapshot", seq |-> venue.seq, prev |-> NoSeq,
                         sizes |-> Level(venue.sizes)]}
  /\ UNCHANGED <<venue, book, have, sequence, gaps>>

Lose(m) == wire' = wire \ {m} /\ UNCHANGED <<venue, book, have, sequence, gaps>>

\* apply_snapshot replaces the book and the sequence state.
ApplySnapshot(m) ==
  /\ m.kind = "snapshot"
  /\ wire' \in {wire, wire \ {m}}
  /\ book' = m.sizes
  /\ have' = TRUE
  /\ sequence' = m.seq
  /\ gaps' = FALSE
  /\ UNCHANGED venue

\* Mutant: the previous number is not compared.
ValidateNewer(seq, prev) == seq > sequence

\* SequenceState.validate with a sequence number and a previous one.
Validate(seq, prev) == prev = sequence /\ seq > sequence

\* The delta's levels over the book's; a size of zero removes the level.
Merged(m) == Level([q \in DOMAIN book \cup DOMAIN m.sizes |->
                      IF q \in DOMAIN m.sizes THEN m.sizes[q] ELSE book[q]])

\* apply_delta: nothing without a book, and nothing after a gap.
ApplyDelta(m) ==
  /\ m.kind = "delta"
  /\ wire' \in {wire, wire \ {m}}
  /\ IF have /\ Validate(m.seq, m.prev)
     THEN book' = Merged(m) /\ sequence' = m.seq /\ UNCHANGED gaps
     ELSE gaps' = (gaps \/ have) /\ UNCHANGED <<book, sequence>>
  /\ UNCHANGED <<venue, have>>

BookInit ==
  /\ venue = [seq |-> 0, sizes |-> [p \in Prices |-> Zero]]
  /\ wire = {}
  /\ book = <<>>
  /\ have = FALSE
  /\ sequence = NoSeq
  /\ gaps = FALSE

BookNext ==
  \/ \E p \in Prices, size \in Sizes \cup {Zero} : Change(p, size)
  \/ Snapshot
  \/ \E m \in wire : Lose(m) \/ ApplySnapshot(m) \/ ApplyDelta(m)

BookSpec == BookInit /\ [][BookNext]_bookVars

----------------------------------------------------------------------------
\* A rebuilt book holds positive sizes only and is never ahead of the venue.
BookTypeOK ==
  /\ sequence <= venue.seq
  /\ have = (sequence # NoSeq)
  /\ \A p \in DOMAIN book : p \in Prices /\ book[p] \in Sizes

\* A book that has reached the venue's sequence number is the venue's book,
\* level by level, whatever was lost, repeated or reordered before.
BookIsVenueBook == have /\ sequence = venue.seq => book = Level(venue.sizes)

=============================================================================
