---------------------------- MODULE Redis_proofs ----------------------------
(***************************************************************************)
(* Proofs about what the bot keeps in Redis: the distributed lock, for any *)
(* set of clients, any time to live, and any number of acquires, lost      *)
(* answers and late commands; and the API's rate counter, for any set of   *)
(* requests, any limit and any window.                                     *)
(***************************************************************************)
EXTENDS RedisLock, RedisCounter, FiniteSetTheorems, TLAPS

-----------------------------------------------------------------------------
(* The lock.                                                               *)

\* c has been told, or is being told, that it owns the lock, and has not begun to
\* give it back.
Owns(c) ==
  \/ call[c].op = "set" /\ call[c].at = "answered" /\ call[c].ok
  \/ token[c] /= NoToken /\ token[c] \notin gone

\* Such a client's token is in the key for a time to live after it asked, and the
\* key has at least that time left.
HeldLongEnough ==
  \A c \in Clients : Owns(c) /\ now < asked[c] + TTL => key = Mine(c) /\ left >= asked[c] + TTL - now

\* What a client's call and its token say of each other.
CallsFit ==
  \A c \in Clients :
    /\ asked[c] <= now
    /\ call[c].op = "none" => call[c].at = "client"
    /\ call[c].op = "del" => token[c] /= NoToken /\ token[c] \in gone
    /\ call[c].op = "set" => token[c] = NoToken /\ count[c] \in 1..MaxAcquires
    /\ token[c] /= NoToken => token[c] = Mine(c)

\* The token of an acquire under way is with its client alone, and until the SET is
\* executed it is not in the key.
SetOnce ==
  \A c \in Clients : call[c].op = "set" =>
    /\ Mine(c) \notin gone
    /\ \A s \in stray : s[2] /= Mine(c)
    /\ call[c].at = "sent" => key /= Mine(c)

\* A token no acquire has drawn yet is nowhere.
FutureUnused ==
  \A c \in Clients, n \in 1..MaxAcquires : n > count[c] =>
    /\ <<c, n>> \notin gone /\ key /= <<c, n>>
    /\ \A s \in stray : s[2] /= <<c, n>>

\* A release that comes late names a token whose release was asked for.
StraysRelease == \A s \in stray : s[1] = "del" => s[2] \in gone

LockInv == LockTypeOK /\ CallsFit /\ SetOnce /\ FutureUnused /\ StraysRelease /\ HeldLongEnough

-----------------------------------------------------------------------------
(* Tokens.                                                                 *)

\* A uuid is no None, and two clients never draw the same one.
LEMMA TokensDiffer ==
  /\ NoToken \notin Tokens
  /\ \A c \in Clients, n \in 1..MaxAcquires : <<c, n>> \in Tokens
  /\ \A c, d, m, n : <<c, m>> = <<d, n>> <=> c = d /\ m = n
BY DEF NoToken, Tokens

\* A client with a call of acquire, or with a token, has drawn a token.
LEMMA MineIsToken ==
  ASSUME LockInv, NEW c \in Clients, call[c].op = "set" \/ token[c] /= NoToken
  PROVE  Mine(c) \in Tokens
<1>1. CASE call[c].op = "set"
  BY <1>1, TokensDiffer DEF LockInv, CallsFit, Mine
<1>2. CASE token[c] /= NoToken
  BY <1>2 DEF LockInv, CallsFit, LockTypeOK
<1> QED
  BY <1>1, <1>2

LEMMA LockStart == LockInit => LockInv
<1> SUFFICES ASSUME LockInit PROVE LockInv
  OBVIOUS
<1>1. LockTypeOK
  BY LockAssumption DEF LockInit, LockTypeOK, IdleCall
<1>2. CallsFit /\ SetOnce /\ HeldLongEnough
  BY DEF LockInit, CallsFit, SetOnce, HeldLongEnough, Owns, IdleCall
<1>3. FutureUnused /\ StraysRelease
  BY DEF LockInit, FutureUnused, StraysRelease, NoToken
<1> QED
  BY <1>1, <1>2, <1>3 DEF LockInv

-----------------------------------------------------------------------------
(* One lemma per command.                                                  *)

\* acquire draws a token nobody has seen.
LEMMA AcquireKeeps ==
  ASSUME LockInv, NEW c \in Clients, Acquire(c)
  PROVE  LockInv'
<1> USE DEF Acquire
<1>1. LockTypeOK'
  BY LockAssumption DEF LockInv, LockTypeOK
<1>2. CallsFit'
  BY LockAssumption DEF LockInv, CallsFit, LockTypeOK, Mine
<1>3. SetOnce'
  BY LockAssumption DEF LockInv, SetOnce, FutureUnused, LockTypeOK, Mine
<1>4. FutureUnused'
  BY DEF LockInv, FutureUnused, LockTypeOK
<1>5. StraysRelease'
  BY DEF LockInv, StraysRelease
<1>6. HeldLongEnough'
  BY DEF LockInv, HeldLongEnough, Owns, IdleCall, Mine
<1> QED
  BY <1>1, <1>2, <1>3, <1>4, <1>5, <1>6 DEF LockInv

\* SET NX PX: the key is taken for a whole time to live, or left alone.
LEMMA ExecuteSetKeeps ==
  ASSUME LockInv, NEW c \in Clients, ExecuteSet(c)
  PROVE  LockInv'
<1> USE DEF ExecuteSet
<1>1. LockTypeOK'
  BY TokensDiffer, LockAssumption DEF LockInv, CallsFit, LockTypeOK, Mine, SetIfAbsent
<1>2. CallsFit'
  BY DEF LockInv, CallsFit, Mine
<1>3. SetOnce'
  BY DEF LockInv, SetOnce, LockTypeOK, Mine, SetIfAbsent
<1>4. FutureUnused'
  BY MineIsToken DEF LockInv, FutureUnused, Mine, SetIfAbsent
<1>5. StraysRelease'
  BY DEF LockInv, StraysRelease
<1>6. HeldLongEnough'
  <2>0. /\ UNCHANGED <<now, token, count, asked, gone>>
        /\ \A d \in Clients : Mine(d)' = Mine(d) /\ (d /= c => call'[d] = call[d])
    BY DEF LockInv, LockTypeOK, Mine
  <2>1. ASSUME NEW d \in Clients, Owns(d)', now' < asked'[d] + TTL, d /= c
        PROVE  key' = Mine(d) /\ left' >= asked[d] + TTL - now
    <3>1. Owns(d) /\ Mine(d) \in Tokens
      BY <2>1, MineIsToken DEF Owns
    <3>2. key = Mine(d) /\ left >= asked[d] + TTL - now
      BY <2>1, <3>1 DEF LockInv, HeldLongEnough
    <3> QED
      BY <3>1, <3>2, TokensDiffer DEF SetIfAbsent
  <2>2. ASSUME Owns(c)', now' < asked'[c] + TTL
        PROVE  key' = Mine(c) /\ left' >= asked[c] + TTL - now
    <3>1. token[c] = NoToken /\ key /= Mine(c) /\ asked[c] <= now
      BY DEF LockInv, CallsFit, SetOnce
    <3>2. key' = Mine(c)
      BY <2>2, <3>1 DEF Owns, LockInv, LockTypeOK
    <3>3. left' = TTL
      BY <3>1, <3>2 DEF SetIfAbsent
    <3>4. asked[c] \in Nat /\ now \in Nat /\ TTL \in Nat
      BY LockAssumption DEF LockInv, LockTypeOK
    <3> QED
      BY <3>1, <3>2, <3>3, <3>4
  <2> QED
    BY <2>0, <2>1, <2>2 DEF HeldLongEnough
<1> QED
  BY <1>1, <1>2, <1>3, <1>4, <1>5, <1>6 DEF LockInv

\* The answer makes the token the client's.
LEMMA AcquireReturnsKeeps ==
  ASSUME LockInv, NEW c \in Clients, AcquireReturns(c)
  PROVE  LockInv'
<1> USE DEF AcquireReturns
<1>1. LockTypeOK'
  BY MineIsToken DEF LockInv, LockTypeOK, IdleCall
<1>2. CallsFit'
  BY DEF LockInv, CallsFit, LockTypeOK, IdleCall, Mine
<1>3. SetOnce'
  BY DEF LockInv, SetOnce, IdleCall, Mine
<1>4. FutureUnused'
  BY DEF LockInv, FutureUnused
<1>5. StraysRelease'
  BY DEF LockInv, StraysRelease
<1>6. HeldLongEnough'
  BY DEF LockInv, HeldLongEnough, Owns, IdleCall, Mine
<1> QED
  BY <1>1, <1>2, <1>3, <1>4, <1>5, <1>6 DEF LockInv

\* From here on the token counts as given back.
LEMMA ReleaseKeeps ==
  ASSUME LockInv, NEW c \in Clients, Release(c)
  PROVE  LockInv'
<1> USE DEF Release
<1>1. LockTypeOK'
  BY DEF LockInv, LockTypeOK
<1>2. CallsFit'
  BY DEF LockInv, CallsFit, Mine
<1>3. SetOnce'
  BY DEF LockInv, CallsFit, SetOnce, Mine
<1>4. FutureUnused'
  BY DEF LockInv, CallsFit, FutureUnused, Mine
<1>5. StraysRelease'
  BY DEF LockInv, StraysRelease
<1>6. HeldLongEnough'
  BY DEF LockInv, HeldLongEnough, Owns, Mine
<1> QED
  BY <1>1, <1>2, <1>3, <1>4, <1>5, <1>6 DEF LockInv

\* The script deletes the caller's own token or nothing.
LEMMA ExecuteDeleteKeeps ==
  ASSUME LockInv, NEW c \in Clients, ExecuteDelete(c)
  PROVE  LockInv'
<1> USE DEF ExecuteDelete
<1>1. LockTypeOK'
  BY LockAssumption DEF LockInv, LockTypeOK, DeleteIfMine
<1>2. CallsFit'
  BY DEF LockInv, CallsFit, Mine
<1>3. SetOnce'
  BY TokensDiffer, MineIsToken, LockAssumption DEF LockInv, CallsFit, SetOnce, Mine, DeleteIfMine
<1>4. FutureUnused'
  BY TokensDiffer, MineIsToken DEF LockInv, FutureUnused, DeleteIfMine
<1>5. StraysRelease'
  BY DEF LockInv, StraysRelease
<1>6. HeldLongEnough'
  BY DEF LockInv, CallsFit, HeldLongEnough, Owns, Mine, DeleteIfMine
<1> QED
  BY <1>1, <1>2, <1>3, <1>4, <1>5, <1>6 DEF LockInv

\* The client forgets the token.
LEMMA ReleaseReturnsKeeps ==
  ASSUME LockInv, NEW c \in Clients, ReleaseReturns(c)
  PROVE  LockInv'
<1> USE DEF ReleaseReturns
<1>1. LockTypeOK'
  BY DEF LockInv, LockTypeOK, IdleCall
<1>2. CallsFit'
  BY DEF LockInv, CallsFit, LockTypeOK, IdleCall, Mine
<1>3. SetOnce'
  BY DEF LockInv, SetOnce, IdleCall, Mine
<1>4. FutureUnused'
  BY DEF LockInv, FutureUnused
<1>5. StraysRelease'
  BY DEF LockInv, StraysRelease
<1>6. HeldLongEnough'
  BY DEF LockInv, HeldLongEnough, Owns, IdleCall, Mine
<1> QED
  BY <1>1, <1>2, <1>3, <1>4, <1>5, <1>6 DEF LockInv

\* A command left behind names the token of its own call.
LEMMA AbandonKeeps ==
  ASSUME LockInv, NEW c \in Clients, Abandon(c)
  PROVE  LockInv'
<1> USE DEF Abandon
<1>1. LockTypeOK'
  BY MineIsToken DEF LockInv, CallsFit, LockTypeOK, IdleCall
<1>2. CallsFit'
  BY DEF LockInv, CallsFit, LockTypeOK, IdleCall, Mine
<1>3. SetOnce'
  BY DEF LockInv, SetOnce, LockTypeOK, IdleCall, Mine
<1>4. FutureUnused'
  BY DEF LockInv, FutureUnused, Mine
<1>5. StraysRelease'
  <2>1. call[c].op = "del" => Mine(c) \in gone
    BY DEF LockInv, CallsFit
  <2>2. UNCHANGED gone /\ \A s \in stray' : s \in stray \/ s = <<call[c].op, Mine(c)>>
    OBVIOUS
  <2> QED
    BY <2>1 DEF LockInv, StraysRelease
<1>6. HeldLongEnough'
  BY DEF LockInv, HeldLongEnough, Owns, IdleCall, Mine
<1> QED
  BY <1>1, <1>2, <1>3, <1>4, <1>5, <1>6 DEF LockInv

\* A late SET takes a free key with a token nobody waits for; a late release deletes
\* a token that is being given back.
LEMMA ExecuteStrayKeeps ==
  ASSUME LockInv, NEW s \in stray, ExecuteStray(s)
  PROVE  LockInv'
<1> USE DEF ExecuteStray
<1>0. s[1] \in {"set", "del"} /\ s[2] \in Tokens /\ (s[1] = "del" => s[2] \in gone)
  BY DEF LockInv, LockTypeOK, StraysRelease
<1>1. LockTypeOK'
  BY <1>0, TokensDiffer, LockAssumption DEF LockInv, LockTypeOK, SetIfAbsent, DeleteIfMine
<1>2. CallsFit'
  BY DEF LockInv, CallsFit, Mine
<1>3. SetOnce'
  BY <1>0, TokensDiffer, MineIsToken DEF LockInv, SetOnce, Mine, SetIfAbsent, DeleteIfMine
<1>4. FutureUnused'
  BY <1>0, TokensDiffer DEF LockInv, FutureUnused, SetIfAbsent, DeleteIfMine
<1>5. StraysRelease'
  BY DEF LockInv, StraysRelease
<1>6. HeldLongEnough'
  <2> SUFFICES ASSUME NEW c \in Clients, Owns(c), now < asked[c] + TTL
               PROVE  key' = Mine(c) /\ left' >= asked[c] + TTL - now
    BY DEF HeldLongEnough, Owns, Mine
  <2>1. key = Mine(c) /\ left >= asked[c] + TTL - now /\ Mine(c) \in Tokens
    BY MineIsToken DEF LockInv, HeldLongEnough, Owns
  <2>2. Mine(c) \notin gone
    BY DEF Owns, LockInv, SetOnce, CallsFit
  <2> QED
    BY <1>0, <2>1, <2>2, TokensDiffer DEF SetIfAbsent, DeleteIfMine
<1> QED
  BY <1>1, <1>2, <1>3, <1>4, <1>5, <1>6 DEF LockInv

\* A tick takes the same from the key and from what its owner counts on.
LEMMA TickKeeps ==
  ASSUME LockInv, Tick
  PROVE  LockInv'
<1> USE DEF Tick
<1>1. LockTypeOK'
  BY LockAssumption DEF LockInv, LockTypeOK
<1>2. CallsFit'
  BY LockAssumption DEF LockInv, LockTypeOK, CallsFit, Mine
<1>3. SetOnce'
  BY TokensDiffer, MineIsToken DEF LockInv, SetOnce, Mine
<1>4. FutureUnused'
  BY TokensDiffer DEF LockInv, FutureUnused
<1>5. StraysRelease'
  BY DEF LockInv, StraysRelease
<1>6. HeldLongEnough'
  <2> SUFFICES ASSUME NEW c \in Clients, Owns(c), now + 1 < asked[c] + TTL
               PROVE  key' = Mine(c) /\ left' >= asked[c] + TTL - (now + 1)
    BY DEF HeldLongEnough, Owns, Mine
  <2>1. asked[c] \in Nat /\ now \in Nat /\ TTL \in Nat /\ left \in Nat
    BY LockAssumption DEF LockInv, LockTypeOK
  <2>2. key = Mine(c) /\ left >= asked[c] + TTL - now
    BY <2>1 DEF LockInv, HeldLongEnough
  <2> QED
    BY <2>1, <2>2
<1> QED
  BY <1>1, <1>2, <1>3, <1>4, <1>5, <1>6 DEF LockInv

LEMMA LockKeeps ==
  ASSUME LockInv, [LockNext]_lockVars
  PROVE  LockInv'
<1>1. CASE Rest \/ UNCHANGED lockVars
  BY <1>1 DEF Rest, lockVars, LockInv, LockTypeOK, CallsFit, SetOnce, FutureUnused, StraysRelease,
              HeldLongEnough, Owns, Mine
<1> QED
  BY <1>1, TickKeeps, ExecuteStrayKeeps, AcquireKeeps, ExecuteSetKeeps, AcquireReturnsKeeps, ReleaseKeeps,
     ExecuteDeleteKeeps, ReleaseReturnsKeeps, AbandonKeeps DEF LockNext

-----------------------------------------------------------------------------

\* The key is set exactly while it has time left; clients and commands are what the
\* interface of DistributedLockManager allows.
THEOREM LockTypeCorrect == LockSpec => []LockTypeOK
<1>1. LockInv => LockTypeOK
  BY DEF LockInv
<1> QED
  BY <1>1, LockStart, LockKeeps, PTL DEF LockSpec

\* The owner is alone as long as it counts the time to live from before it asked.
LEMMA OwnerAlone ==
  ASSUME LockInv'
  PROVE  AloneWhileFresh'
BY DEF LockInv, HeldLongEnough, Owns, CallsFit, AloneWhileFresh

\* Only the script of the owner's own release and the end of the time to live take a
\* key away.
LEMMA StepExplained ==
  ASSUME LockInv, LockNext
  PROVE  LossExplained
<1>1. CASE Tick
  BY <1>1 DEF Tick, LossExplained, LockInv, LockTypeOK
<1>2. CASE Rest
  BY <1>2 DEF Rest, lockVars, LossExplained
<1>3. ASSUME NEW s \in stray, ExecuteStray(s)
      PROVE  LossExplained
  BY <1>3 DEF ExecuteStray, SetIfAbsent, DeleteIfMine, LossExplained, LockInv, StraysRelease
<1>4. ASSUME NEW c \in Clients, Acquire(c) \/ AcquireReturns(c) \/ Release(c) \/ ReleaseReturns(c) \/ Abandon(c)
      PROVE  LossExplained
  BY <1>4 DEF Acquire, AcquireReturns, Release, ReleaseReturns, Abandon, LossExplained
<1>5. ASSUME NEW c \in Clients, ExecuteSet(c)
      PROVE  LossExplained
  BY <1>5 DEF ExecuteSet, SetIfAbsent, LossExplained
<1>6. ASSUME NEW c \in Clients, ExecuteDelete(c)
      PROVE  LossExplained
  BY <1>6 DEF ExecuteDelete, DeleteIfMine, LossExplained, LockInv, CallsFit
<1> QED
  BY <1>1, <1>2, <1>3, <1>4, <1>5, <1>6 DEF LockNext

\* acquire and release, for any clients and any delays: a client that counts the
\* time to live from before it asked is alone with the lock until then or until it
\* releases, and no late command takes the key from its owner.
THEOREM LockHeldTheorem == LockSpec => LockHeld
<1>1. LockInv /\ LockInv' /\ [LockNext]_lockVars => [AloneWhileFresh' /\ LossExplained]_lockVars
  BY OwnerAlone, StepExplained
<1> QED
  BY <1>1, LockStart, LockKeeps, PTL DEF LockSpec, LockHeld

-----------------------------------------------------------------------------
(* The counter.                                                            *)

\* What a limiter has counted in window b.
Value(l, b) == IF l = "redis" THEN hits[b] ELSE buckets[b]

\* r has a number.
Counted(r) == request[r].state \in {"counted", "allowed", "refused"}

\* The requests of q that may have been counted by limiter l in window b.
Since(q, l, b) ==
    {s \in Requests : q[s].limiter = l /\ q[s].bucket = b /\ q[s].state \notin {"new", "named"}}

CounterTypes ==
    /\ clock \in 0..Horizon
    /\ hits \in [Buckets -> Nat] /\ ttl \in [Buckets -> Endless..Window] /\ buckets \in [Buckets -> Nat]
    /\ request \in [Requests -> [state : States, limiter : {"redis", "memory"}, bucket : Buckets,
                                 got : Nat, made : 0..Horizon]]

\* A request was made in the past, is counted in the window it was made in, and is
\* answered according to its number.
RequestsFit ==
    \A r \in Requests :
        /\ request[r].made <= clock
        /\ request[r].state \in {"new", "named"} => request[r].got = 0
        /\ request[r].state /= "new" => request[r].bucket = request[r].made \div Window
        /\ request[r].state \in {"named", "counted"} => request[r].limiter = "redis"
        /\ request[r].state = "counted" => request[r].got > 0
        /\ request[r].state = "allowed" => request[r].got \in 1..Limit
        /\ request[r].state = "refused" => request[r].got > Limit

\* The key of the current window lives to its end, those of later windows are not there.
KeyLives ==
    \A b \in Buckets : b >= Bucket /\ ttl[b] /= Endless => b = Bucket /\ clock + ttl[b] >= Window * b + Window

\* In the current window, no two requests have the same number.
NumbersDiffer ==
    /\ \A r \in Requests : Counted(r) /\ request[r].bucket = Bucket => request[r].got \in 1..Value(request[r].limiter, Bucket)
    /\ \A r, s \in Requests :
         Counted(r) /\ Counted(s) /\ request[r].bucket = Bucket /\ request[s].bucket = Bucket
           /\ request[r].limiter = request[s].limiter /\ request[r].got = request[s].got => r = s

\* No number is larger than the requests that were made in its window.
NumbersCovered ==
    /\ \A b \in Buckets, l \in {"redis", "memory"} : Value(l, b) <= Cardinality(Since(request, l, b))
    /\ \A r \in Requests : request[r].got <= Cardinality(Since(request, request[r].limiter, request[r].bucket))

CounterInv == CounterTypes /\ RequestsFit /\ KeyLives /\ NumbersDiffer /\ NumbersCovered

\* The window of a moment.
LEMMA WindowOf ==
  ASSUME NEW t \in Nat
  PROVE  t \div Window \in Nat /\ Window * (t \div Window) <= t /\ t < Window * (t \div Window) + Window
<1>1. t \div Window \in Nat
  BY CounterAssumption
<1>2. Window * (t \div Window) <= t
  BY CounterAssumption
<1>3. t < Window * (t \div Window) + Window
  BY CounterAssumption
<1> QED BY <1>1, <1>2, <1>3

LEMMA WindowsInOrder ==
  ASSUME NEW t \in Nat, NEW u \in Nat, t <= u
  PROVE  t \div Window <= u \div Window
BY CounterAssumption

\* Every moment is in a window.
LEMMA BucketTyped ==
  /\ Buckets \subseteq Nat
  /\ \A t \in 0..Horizon : t \div Window \in Buckets
<1>1. Horizon \in Nat /\ Horizon \div Window \in Nat
  BY WindowOf, CounterAssumption
<1>2. ASSUME NEW t \in 0..Horizon PROVE t \div Window \in Nat /\ t \div Window <= Horizon \div Window
  BY <1>1, WindowsInOrder, WindowOf
<1> QED BY <1>1, <1>2 DEF Buckets

LEMMA SinceFinite ==
  ASSUME NEW q, NEW l, NEW b
  PROVE  /\ IsFiniteSet(Since(q, l, b)) /\ Cardinality(Since(q, l, b)) \in Nat
         /\ Cardinality(Since(q, l, b)) <= Cardinality(Requests)
<1>1. Since(q, l, b) \in SUBSET Requests
  BY DEF Since
<1>2. IsFiniteSet(Since(q, l, b)) /\ Cardinality(Since(q, l, b)) <= Cardinality(Requests)
  BY <1>1, FS_Subset, CounterAssumption
<1> QED BY <1>2, FS_CardinalityType

LEMMA CounterStart == CounterInit => CounterInv
<1> SUFFICES ASSUME CounterInit PROVE CounterInv
  OBVIOUS
<1> USE DEF CounterInit, States, Endless
<1>1. 0 \in Buckets /\ 0 \in 0..Horizon /\ Endless \in Endless..Window
  BY WindowOf, CounterAssumption DEF Buckets
<1>2. CounterTypes
  BY <1>1 DEF CounterTypes
<1>3. RequestsFit /\ KeyLives
  BY DEF RequestsFit, KeyLives
<1>4. NumbersDiffer
  BY DEF NumbersDiffer, Counted
<1>5. NumbersCovered
  BY SinceFinite, <1>1 DEF NumbersCovered, Value
<1> QED BY <1>2, <1>3, <1>4, <1>5 DEF CounterInv

\* A step of the requests: none changes its limiter, and one that may have been
\* counted stays one in its window.
Onward ==
    \A s \in Requests :
        /\ request'[s].limiter = request[s].limiter
        /\ request[s].state \notin {"new", "named"} =>
             request'[s].state \notin {"new", "named"} /\ request'[s].bucket = request[s].bucket

LEMMA SinceGrows ==
  ASSUME Onward, NEW l, NEW b
  PROVE  Cardinality(Since(request, l, b)) <= Cardinality(Since(request', l, b))
<1>1. Since(request, l, b) \in SUBSET Since(request', l, b)
  BY DEF Since, Onward
<1> QED BY <1>1, SinceFinite, FS_Subset

LEMMA SinceAdds ==
  ASSUME Onward, NEW r \in Requests, request[r].state \in {"new", "named"}, request'[r].state \notin {"new", "named"}
  PROVE  LET l == request'[r].limiter
             b == request'[r].bucket
         IN  Cardinality(Since(request, l, b)) + 1 <= Cardinality(Since(request', l, b))
<1> DEFINE S == Since(request, request'[r].limiter, request'[r].bucket)
           T == Since(request', request'[r].limiter, request'[r].bucket)
<1>1. S \cup {r} \in SUBSET T /\ r \notin S
  BY DEF Since, Onward
<1>2. IsFiniteSet(S) /\ IsFiniteSet(T)
  BY SinceFinite
<1> HIDE DEF S, T
<1>3. Cardinality(S \cup {r}) = Cardinality(S) + 1
  BY <1>1, <1>2, FS_AddElement
<1>4. Cardinality(S \cup {r}) <= Cardinality(T)
  BY <1>1, <1>2, FS_Subset
<1> QED BY <1>3, <1>4 DEF S, T

\* Time passes: the key of a window is not dropped before the window ends.
LEMMA ClockKeeps ==
  ASSUME CounterInv, ClockTick
  PROVE  CounterInv'
<1> USE DEF CounterInv, ClockTick
<1>1. clock \in Nat /\ clock + 1 \in 0..Horizon /\ clock' = clock + 1 /\ clock \in 0..Horizon
  BY CounterAssumption DEF CounterTypes
<1>2. Bucket \in Nat /\ Bucket' \in Nat /\ Bucket <= Bucket' /\ clock + 1 < Window * Bucket' + Window
  BY <1>1, WindowOf, WindowsInOrder DEF Bucket
<1>3. Bucket \in Buckets /\ Bucket' \in Buckets
  BY <1>1, BucketTyped DEF Bucket
<1>4. CounterTypes'
  BY <1>1, CounterAssumption DEF CounterTypes, Endless
<1>5. RequestsFit'
  BY <1>1 DEF RequestsFit, CounterTypes
<1>6. KeyLives'
  <2> SUFFICES ASSUME NEW b \in Buckets, b >= Bucket', ttl'[b] /= Endless
               PROVE  b = Bucket' /\ clock' + ttl'[b] >= Window * b + Window
    BY DEF KeyLives
  <2>1. b \in Nat /\ ttl[b] \in Int
    BY BucketTyped, CounterAssumption DEF CounterTypes, Endless
  <2>2. ttl'[b] = ttl[b] - 1 /\ ttl[b] /= Endless
    BY <2>1
  <2>3. b = Bucket /\ clock + ttl[b] >= Window * b + Window
    BY <1>2, <2>1, <2>2 DEF KeyLives
  <2> QED BY <1>1, <1>2, <2>1, <2>2, <2>3, CounterAssumption
<1>7. NumbersDiffer'
  <2>1. CASE Bucket' = Bucket
    <3>1. ttl[Bucket] \in Int /\ Window \in Nat
      BY <1>3, CounterAssumption DEF CounterTypes, Endless
    <3>2. ttl[Bucket] /= 1
      BY <1>1, <1>2, <1>3, <2>1, <3>1 DEF KeyLives, Endless
    <3>3. hits'[Bucket] = hits[Bucket] /\ buckets' = buckets /\ request' = request
      BY <1>3, <3>2
    <3> QED BY <2>1, <3>3 DEF NumbersDiffer, Value, Counted
  <2>2. CASE Bucket' /= Bucket
    <3>1. ASSUME NEW r \in Requests, Counted(r)' PROVE request'[r].bucket /= Bucket'
      <4>1. request'[r].bucket = request[r].made \div Window /\ request[r].made <= clock /\ request[r].made \in Nat
        BY <3>1, CounterAssumption DEF RequestsFit, Counted, CounterTypes
      <4>2. request[r].made \div Window <= Bucket
        BY <4>1, <1>1, WindowsInOrder DEF Bucket
      <4> QED BY <1>2, <2>2, <4>1, <4>2, WindowOf
    <3> QED BY <3>1 DEF NumbersDiffer
  <2> QED BY <2>1, <2>2
<1>8. NumbersCovered'
  <2>1. \A l, b : Since(request', l, b) = Since(request, l, b)
    BY DEF Since
  <2>2. \A b \in Buckets : hits'[b] <= hits[b] /\ buckets'[b] = buckets[b]
    BY DEF CounterTypes
  <2>3. ASSUME NEW b \in Buckets, NEW l \in {"redis", "memory"} PROVE Value(l, b)' <= Cardinality(Since(request', l, b))
    <3>1. Value(l, b)' <= Value(l, b) /\ Value(l, b) <= Cardinality(Since(request, l, b))
      BY <2>2 DEF NumbersCovered, Value, CounterTypes
    <3>2. Value(l, b)' \in Nat /\ Value(l, b) \in Nat /\ Cardinality(Since(request, l, b)) \in Nat
      BY <1>4, SinceFinite DEF Value, CounterTypes
    <3> QED BY <2>1, <3>1, <3>2
  <2> QED BY <2>1, <2>3 DEF NumbersCovered
<1> QED BY <1>4, <1>5, <1>6, <1>7, <1>8

\* What holds of a request when a step begins.
LEMMA RequestTyped ==
  ASSUME CounterInv, NEW r \in Requests
  PROVE  /\ request[r] \in [state : States, limiter : {"redis", "memory"}, bucket : Buckets, got : Nat, made : 0..Horizon]
         /\ Bucket \in Buckets /\ clock \in 0..Horizon /\ request[r].bucket \in Nat /\ Bucket \in Nat
BY BucketTyped DEF CounterInv, CounterTypes, Bucket

\* A step leaves every number covered that it does not change, and every counter that
\* it does not move.
LEMMA StayCovered ==
  ASSUME CounterInv, Onward
  PROVE  /\ \A b \in Buckets, l \in {"redis", "memory"} :
              Value(l, b)' = Value(l, b) => Value(l, b)' <= Cardinality(Since(request', l, b))
         /\ \A s \in Requests : request'[s].got = request[s].got /\ request'[s].bucket = request[s].bucket =>
              request'[s].got <= Cardinality(Since(request', request'[s].limiter, request'[s].bucket))
<1> USE DEF CounterInv
<1>1. ASSUME NEW b \in Buckets, NEW l \in {"redis", "memory"}, Value(l, b)' = Value(l, b)
      PROVE  Value(l, b)' <= Cardinality(Since(request', l, b))
  <2>1. Value(l, b) \in Nat /\ Value(l, b) <= Cardinality(Since(request, l, b))
    BY DEF Value, CounterTypes, NumbersCovered
  <2> QED BY <1>1, <2>1, SinceGrows, SinceFinite
<1>2. ASSUME NEW s \in Requests, request'[s].got = request[s].got, request'[s].bucket = request[s].bucket
      PROVE  request'[s].got <= Cardinality(Since(request', request'[s].limiter, request'[s].bucket))
  <2> DEFINE l == request[s].limiter
             b == request[s].bucket
  <2>1. request[s].got \in Nat /\ request[s].got <= Cardinality(Since(request, l, b))
    BY RequestTyped DEF NumbersCovered
  <2>2. /\ Cardinality(Since(request, l, b)) <= Cardinality(Since(request', l, b))
        /\ Cardinality(Since(request, l, b)) \in Nat /\ Cardinality(Since(request', l, b)) \in Nat
    BY SinceGrows, SinceFinite
  <2>3. request'[s].limiter = l /\ request'[s].bucket = b
    BY <1>2 DEF Onward
  <2> HIDE DEF l, b
  <2> QED BY <1>2, <2>1, <2>2, <2>3
<1> QED BY <1>1, <1>2

\* A request that is not counted, and steps in which no counter moves.
LEMMA UncountedKeeps ==
  ASSUME CounterInv, NEW r \in Requests, Name(r) \/ Die(r)
  PROVE  CounterInv'
<1> USE RequestTyped DEF CounterInv
<1>1. UNCHANGED <<clock, hits, ttl, buckets>> /\ \A s \in Requests : s /= r => request'[s] = request[s]
  BY DEF Name, Die, CounterTypes
<1>2. /\ request'[r] \in [state : {"named", "dead"}, limiter : {"redis", "memory"}, bucket : Buckets, got : Nat, made : 0..Horizon]
      /\ request'[r].limiter = request[r].limiter /\ request'[r].got = request[r].got
      /\ request'[r].made <= clock /\ request'[r].bucket = request'[r].made \div Window
      /\ request'[r].state = "named" => request[r].state = "new" /\ request'[r].got = 0 /\ request'[r].limiter = "redis"
      /\ request'[r].state = "dead" => request[r].state /= "new" /\ request'[r].bucket = request[r].bucket
  BY DEF Name, Die, CounterTypes, RequestsFit, Bucket
<1>3. CounterTypes'
  <2>1. request' = [request EXCEPT ![r] = request'[r]] /\ request'[r] \in [state : States, limiter : {"redis", "memory"}, bucket : Buckets, got : Nat, made : 0..Horizon]
    BY <1>2 DEF Name, Die, CounterTypes, States
  <2> QED BY <1>1, <2>1 DEF CounterTypes
<1>4. RequestsFit'
  BY <1>1, <1>2 DEF RequestsFit
<1>5. KeyLives'
  BY <1>1 DEF KeyLives, Bucket
<1>6. NumbersDiffer'
  <2>1. ~Counted(r)' /\ \A s \in Requests : s /= r => Counted(s)' = Counted(s)
    BY <1>1, <1>2 DEF Counted
  <2> QED BY <1>1, <2>1 DEF NumbersDiffer, Bucket, Value
<1>7. Onward
  BY <1>1, <1>2 DEF Onward
<1>8. NumbersCovered'
  <2>1. \A b \in Buckets, l \in {"redis", "memory"} : Value(l, b)' = Value(l, b)
    BY <1>1 DEF Value
  <2>2. request'[r].got <= Cardinality(Since(request', request'[r].limiter, request'[r].bucket))
    <3>1. CASE request'[r].state = "named"
      BY <1>2, <3>1, SinceFinite
    <3>2. CASE request'[r].state = "dead"
      BY <1>2, <1>7, <3>2, StayCovered
    <3> QED BY <1>2, <3>1, <3>2
  <2> QED BY <1>1, <1>7, <2>1, <2>2, StayCovered DEF NumbersCovered
<1> QED BY <1>3, <1>4, <1>5, <1>6, <1>8

\* EXPIRE, and the answer.
LEMMA FinishKeeps ==
  ASSUME CounterInv, NEW r \in Requests, Finish(r)
  PROVE  CounterInv'
<1> USE RequestTyped DEF CounterInv, Finish
<1> DEFINE b == request[r].bucket
<1>1. UNCHANGED <<clock, hits, buckets>> /\ \A s \in Requests : s /= r => request'[s] = request[s]
  BY DEF CounterTypes
<1>2. /\ request'[r].state \in {"allowed", "refused"}
      /\ request'[r].limiter = request[r].limiter /\ request'[r].bucket = b
      /\ request'[r].got = request[r].got /\ request'[r].made = request[r].made
      /\ request'[r].state = "allowed" => request[r].got <= Limit
      /\ request'[r].state = "refused" => ~(request[r].got <= Limit)
  BY DEF CounterTypes, Verdict
<1>3. CounterTypes'
  <2>1. request' = [request EXCEPT ![r].state = request'[r].state] /\ request'[r].state \in States
    BY <1>2 DEF CounterTypes, States
  <2>2. ttl' \in [Buckets -> Endless..Window]
    BY CounterAssumption DEF CounterTypes, LifetimeOfKey, Endless
  <2> QED BY <1>1, <2>1, <2>2 DEF CounterTypes
<1>4. RequestsFit'
  BY <1>1, <1>2, CounterAssumption DEF RequestsFit
<1>5. KeyLives'
  <2> SUFFICES ASSUME NEW c \in Buckets, c >= Bucket, ttl'[c] /= Endless
               PROVE  c = Bucket /\ clock + ttl'[c] >= Window * c + Window
    BY <1>1 DEF KeyLives, Bucket
  <2>1. CASE ttl'[c] = ttl[c]
    BY <2>1 DEF KeyLives
  <2>2. CASE ttl'[c] /= ttl[c]
    <3>1. c = b /\ ttl'[c] = Window
      BY <2>2 DEF CounterTypes, LifetimeOfKey
    <3>2. b = request[r].made \div Window /\ request[r].made <= clock /\ request[r].made \in Nat /\ clock \in Nat
      BY CounterAssumption DEF RequestsFit
    <3>3. c = Bucket
      BY <3>1, <3>2, WindowsInOrder, WindowOf DEF Bucket
    <3>4. Window * Bucket <= clock
      BY <3>2, WindowOf DEF Bucket
    <3> QED BY <3>1, <3>2, <3>3, <3>4, CounterAssumption
  <2> QED BY <2>1, <2>2
<1>6. NumbersDiffer'
  <2>1. \A s \in Requests : Counted(s)' = Counted(s) /\ request'[s].got = request[s].got
                             /\ request'[s].bucket = request[s].bucket /\ request'[s].limiter = request[s].limiter
    BY <1>1, <1>2 DEF Counted
  <2> QED BY <1>1, <2>1 DEF NumbersDiffer, Bucket, Value
<1>7. NumbersCovered'
  <2>1. Onward
    BY <1>1, <1>2 DEF Onward
  <2>2. \A c \in Buckets, l \in {"redis", "memory"} : Value(l, c)' = Value(l, c)
    BY <1>1 DEF Value
  <2> QED BY <1>1, <1>2, <2>1, <2>2, StayCovered DEF NumbersCovered
<1> QED BY <1>3, <1>4, <1>5, <1>6, <1>7

\* The request that gets the next number of its window.
TakesNumber(r, l, b) ==
    /\ request[r].state \in {"new", "named"} /\ request[r].limiter = l /\ b \in Buckets
    /\ request'[r].limiter = l /\ request'[r].bucket = b /\ request'[r].got = Value(l, b) + 1
    /\ request'[r].state \in {"counted", "allowed", "refused"}
    /\ \A s \in Requests : s /= r => request'[s] = request[s]
    /\ \A k \in {"redis", "memory"}, c \in Buckets :
         Value(k, c)' = IF k = l /\ c = b THEN Value(l, b) + 1 ELSE Value(k, c)

LEMMA NumberingKeeps ==
  ASSUME CounterInv, NEW r \in Requests, NEW l \in {"redis", "memory"}, NEW b, TakesNumber(r, l, b), clock' = clock
  PROVE  NumbersDiffer' /\ NumbersCovered'
<1> USE RequestTyped DEF CounterInv
<1>1. Bucket' = Bucket
  BY DEF Bucket
<1>2. ~Counted(r) /\ \A s \in Requests : s /= r => Counted(s)' = Counted(s) /\ request'[s] = request[s]
  BY DEF TakesNumber, Counted
<1>3. \A k \in {"redis", "memory"}, c \in Buckets : Value(k, c) \in Nat
  BY DEF Value, CounterTypes
<1>4. ASSUME NEW s \in Requests, Counted(s)', request'[s].bucket = Bucket, NEW k, k = request'[s].limiter
      PROVE  request'[s].got \in 1..Value(k, Bucket)'
  <2>1. CASE s = r
    BY <1>1, <1>3, <1>4, <2>1 DEF TakesNumber
  <2>2. CASE s /= r
    <3>1. request[s].got \in 1..Value(k, Bucket) /\ k \in {"redis", "memory"}
      BY <1>2, <1>4, <2>2 DEF NumbersDiffer
    <3>2. Value(k, Bucket) \in Nat /\ Value(k, Bucket)' \in Nat /\ Value(k, Bucket) <= Value(k, Bucket)'
      <4>1. \A c \in Buckets : Value(k, c)' = IF k = l /\ c = b THEN Value(l, b) + 1 ELSE Value(k, c)
        BY <3>1 DEF TakesNumber
      <4>2. Value(k, Bucket)' = IF k = l /\ Bucket = b THEN Value(l, b) + 1 ELSE Value(k, Bucket)
        BY <1>1, <4>1 DEF Value
      <4> QED BY <1>3, <3>1, <4>2
    <3> QED BY <1>2, <2>2, <3>1, <3>2
  <2> QED BY <2>1, <2>2
<1>5. ASSUME NEW s \in Requests, s /= r, Counted(s), request[s].limiter = l, request[s].bucket = Bucket, b = Bucket
      PROVE  request[s].got /= request'[r].got
  BY <1>3, <1>5 DEF TakesNumber, NumbersDiffer
<1>6. NumbersDiffer'
  <2>1. \A s, t \in Requests :
          Counted(s)' /\ Counted(t)' /\ request'[s].bucket = Bucket' /\ request'[t].bucket = Bucket'
            /\ request'[s].limiter = request'[t].limiter /\ request'[s].got = request'[t].got => s = t
    BY <1>1, <1>2, <1>5 DEF TakesNumber, NumbersDiffer
  <2>2. ASSUME NEW s \in Requests, Counted(s)', request'[s].bucket = Bucket'
        PROVE  request'[s].got \in 1..(IF request'[s].limiter = "redis" THEN hits'[Bucket'] ELSE buckets'[Bucket'])
    BY <1>1, <1>4, <2>2 DEF Value
  <2> QED BY <2>1, <2>2 DEF NumbersDiffer, Value
<1>7. Onward
  BY <1>2 DEF Onward, TakesNumber
<1>8. Value(l, b) + 1 <= Cardinality(Since(request', l, b))
  <2>1. Cardinality(Since(request, l, b)) + 1 <= Cardinality(Since(request', l, b))
    BY <1>7, SinceAdds DEF TakesNumber
  <2>2. Value(l, b) <= Cardinality(Since(request, l, b)) /\ b \in Buckets
    BY DEF NumbersCovered, TakesNumber
  <2> QED BY <1>3, <2>1, <2>2, SinceFinite
<1>9. NumbersCovered'
  <2>1. ASSUME NEW k \in {"redis", "memory"}, NEW c \in Buckets
        PROVE  Value(k, c)' <= Cardinality(Since(request', k, c))
    BY <1>7, <1>8, StayCovered DEF TakesNumber
  <2>2. request'[r].got <= Cardinality(Since(request', request'[r].limiter, request'[r].bucket))
    BY <1>8 DEF TakesNumber
  <2> QED BY <1>2, <1>7, <2>1, <2>2, StayCovered DEF NumbersCovered
<1> QED BY <1>6, <1>9

\* INCR: one number for one request.
LEMMA IncrKeeps ==
  ASSUME CounterInv, NEW r \in Requests, Incr(r)
  PROVE  CounterInv'
<1> USE RequestTyped DEF CounterInv, Incr
<1> DEFINE b == request[r].bucket
<1>1. /\ request'[r] = [state |-> "counted", limiter |-> "redis", bucket |-> b, got |-> hits[b] + 1, made |-> request[r].made]
      /\ request[r].limiter = "redis" /\ b \in Buckets
  BY DEF CounterTypes, RequestsFit
<1>2. TakesNumber(r, "redis", b)
  BY <1>1 DEF TakesNumber, Value, CounterTypes
<1>3. CounterTypes'
  BY DEF CounterTypes, States
<1>4. RequestsFit'
  BY <1>1 DEF RequestsFit, CounterTypes
<1>5. KeyLives'
  BY DEF KeyLives, Bucket
<1> QED BY <1>2, <1>3, <1>4, <1>5, NumberingKeeps

\* The middleware counts and answers in one step.
LEMMA DispatchKeeps ==
  ASSUME CounterInv, NEW r \in Requests, Dispatch(r)
  PROVE  CounterInv'
<1> USE RequestTyped DEF CounterInv, Dispatch
<1> DEFINE n == buckets[Bucket] + 1
<1>1. /\ request'[r] = [state |-> Verdict(n), limiter |-> "memory", bucket |-> Bucket, got |-> n, made |-> clock]
      /\ n \in Nat \ {0} /\ Verdict(n) \in {"allowed", "refused"}
      /\ Verdict(n) = "allowed" => n \in 1..Limit
      /\ Verdict(n) = "refused" => n > Limit
  BY CounterAssumption DEF CounterTypes, Verdict
<1>2. TakesNumber(r, "memory", Bucket)
  BY <1>1 DEF TakesNumber, Value, CounterTypes
<1>3. CounterTypes'
  BY <1>1 DEF CounterTypes, States
<1>4. RequestsFit'
  BY <1>1 DEF RequestsFit, CounterTypes, Bucket
<1>5. KeyLives'
  BY DEF KeyLives, Bucket
<1> QED BY <1>2, <1>3, <1>4, <1>5, NumberingKeeps

LEMMA CounterKeeps == CounterInv /\ [CounterNext]_counterVars => CounterInv'
<1> SUFFICES ASSUME CounterInv, [CounterNext]_counterVars PROVE CounterInv'
  OBVIOUS
<1>1. CASE UNCHANGED counterVars
  <2> USE <1>1 DEF counterVars, CounterInv
  <2>1. CounterTypes' /\ RequestsFit' /\ KeyLives'
    BY DEF CounterTypes, RequestsFit, KeyLives, Bucket
  <2>2. NumbersDiffer'
    BY DEF NumbersDiffer, Counted, Value, Bucket
  <2>3. NumbersCovered'
    BY DEF NumbersCovered, Value
  <2> QED BY <2>1, <2>2, <2>3
<1>2. CASE CounterNext
  BY <1>1, <1>2, ClockKeeps, UncountedKeeps, FinishKeeps, IncrKeeps, DispatchKeeps DEF CounterNext, CounterRests
<1> QED BY <1>1, <1>2

\* The counter keeps its types, and no request gets a number beyond the requests there are.
THEOREM CounterTypeCorrect == CounterSpec => []CounterTypeOK
<1>1. CounterInv => CounterTypeOK
  <2> SUFFICES ASSUME CounterInv PROVE CounterTypeOK
    OBVIOUS
  <2>1. ASSUME NEW r \in Requests PROVE request[r].got \in 0..Cardinality(Requests)
    <3>1. request[r].got \in Nat /\ request[r].got <= Cardinality(Since(request, request[r].limiter, request[r].bucket))
      BY RequestTyped DEF CounterInv, NumbersCovered
    <3>2. Cardinality(Requests) \in Nat
      BY FS_CardinalityType, CounterAssumption
    <3> QED BY <3>1, <3>2, SinceFinite
  <2> QED BY <2>1 DEF CounterInv, CounterTypes, CounterTypeOK
<1> QED BY <1>1, CounterStart, CounterKeeps, PTL DEF CounterSpec

\* RateLimitStorage.allow and the middleware, for any limit, window and requests: no more
\* than Limit of a window's requests pass while it lasts, and one is refused only when
\* Limit others were made in its window; INCR and EXPIRE are two round trips, any request
\* may die between them, and keys expire.
THEOREM LimitExactTheorem == CounterSpec => []LimitExact
<1>1. ASSUME CounterInv PROVE AtMostLimit
  <2> SUFFICES ASSUME NEW r \in Requests, request[r].state = "allowed", request[r].made \div Window = clock \div Window
               PROVE  Cardinality({s \in Peers(r) : request[s].state = "allowed"}) <= Limit
    BY DEF AtMostLimit
  <2> DEFINE S == {s \in Peers(r) : request[s].state = "allowed"}
             f == [s \in S |-> request[s].got]
  <2>1. ASSUME NEW s \in S
        PROVE  s \in Requests /\ Counted(s) /\ request[s].bucket = Bucket /\ request[s].limiter = request[r].limiter
               /\ request[s].got \in 1..Limit
    BY <1>1 DEF CounterInv, RequestsFit, Peers, Counted, Bucket
  <2>2. \A s, t \in S : request[s].got = request[t].got => s = t
    BY <1>1, <2>1 DEF CounterInv, NumbersDiffer
  <2>3. f \in Injection(S, 1..Limit)
    BY <2>1, <2>2 DEF Injection, IsInjective
  <2>4. IsFiniteSet(1..Limit) /\ Cardinality(1..Limit) = Limit
    BY FS_Interval, CounterAssumption
  <2> HIDE DEF S, f
  <2>5. Cardinality(S) <= Limit
    BY <2>3, <2>4, FS_Injection
  <2> QED BY <2>5 DEF S
<1>2. ASSUME CounterInv PROVE RefusedOnlyFull
  <2> SUFFICES ASSUME NEW r \in Requests, request[r].state = "refused" PROVE Cardinality(Peers(r)) > Limit
    BY DEF RefusedOnlyFull
  <2> DEFINE S == Since(request, request[r].limiter, request[r].bucket)
  <2>1. S \in SUBSET Peers(r) /\ Peers(r) \in SUBSET Requests
    BY <1>2 DEF CounterInv, RequestsFit, Since, Peers
  <2>2. IsFiniteSet(Peers(r)) /\ Cardinality(Peers(r)) \in Nat
    BY <2>1, FS_Subset, FS_CardinalityType, CounterAssumption
  <2>3. Cardinality(S) \in Nat /\ Cardinality(S) <= Cardinality(Peers(r))
    BY <2>1, <2>2, FS_Subset, SinceFinite
  <2>4. request[r].got \in Nat /\ request[r].got > Limit /\ request[r].got <= Cardinality(S)
    BY <1>2, RequestTyped DEF CounterInv, RequestsFit, NumbersCovered
  <2> HIDE DEF S
  <2> QED BY <2>2, <2>3, <2>4, CounterAssumption
<1>3. CounterInv => LimitExact
  BY <1>1, <1>2 DEF LimitExact
<1> QED BY <1>3, CounterStart, CounterKeeps, PTL DEF CounterSpec
=============================================================================
