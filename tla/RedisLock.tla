----------------------------- MODULE RedisLock -----------------------------
(***************************************************************************)
(* DistributedLockManager (redis/manager.py): a key that is set only if it *)
(* does not exist, with a fresh token and a time to live, and a script     *)
(* that deletes it only if it still holds the caller's token.              *)
(*                                                                         *)
(* A command travels to Redis, is executed there at once, and its answer   *)
(* travels back; either way may take long or fail, and a client may die.   *)
(* The manager has no caller yet; the clients are those its interface      *)
(* allows: one call at a time each, release after a successful acquire.    *)
(***************************************************************************)
EXTENDS Integers

CONSTANTS
    Clients,      \* processes that share the key
    TTL,          \* ttl_ms, in ticks
    MaxAcquires,  \* bound on the acquires of a client
    MaxNow        \* bound on the clock

ASSUME LockAssumption == TTL \in Nat \ {0} /\ MaxAcquires \in Nat /\ MaxNow \in Nat

\* A token is a uuid4, named here by its client and the number of the acquire.
Tokens == Clients \X (1..MaxAcquires)
NoToken == <<>>

VARIABLES
    now,     \* the clock
    key,     \* the value of the key, or NoToken
    left,    \* ticks the key has left
    call,    \* call[c]: the command of c under way and where it is
    token,   \* token[c]: what acquire has returned to c, or NoToken
    count,   \* count[c]: acquires c has begun
    asked,   \* asked[c]: when c began its last acquire
    stray,   \* commands on their way whose client has given up: <<op, token>>
    gone     \* history: tokens whose release was asked for

lockVars == <<now, key, left, call, token, count, asked, stray, gone>>

IdleCall == [op |-> "none", at |-> "client", ok |-> FALSE]

LockInit ==
    /\ now = 0 /\ key = NoToken /\ left = 0
    /\ call = [c \in Clients |-> IdleCall]
    /\ token = [c \in Clients |-> NoToken]
    /\ count = [c \in Clients |-> 0]
    /\ asked = [c \in Clients |-> 0]
    /\ stray = {} /\ gone = {}

Mine(c) == <<c, count[c]>>

-----------------------------------------------------------------------------

\* acquire draws a token and sends SET with NX and PX.
Acquire(c) ==
    /\ call[c] = IdleCall /\ token[c] = NoToken /\ count[c] < MaxAcquires
    /\ count' = [count EXCEPT ![c] = @ + 1]
    /\ asked' = [asked EXCEPT ![c] = now]
    /\ call' = [call EXCEPT ![c] = [op |-> "set", at |-> "sent", ok |-> FALSE]]
    /\ UNCHANGED <<now, key, left, token, stray, gone>>

\* SET key token NX PX ttl
SetIfAbsent(tok) ==
    /\ key' = IF key = NoToken THEN tok ELSE key
    /\ left' = IF key = NoToken THEN TTL ELSE left

\* Redis executes the SET.
ExecuteSet(c) ==
    /\ call[c].op = "set" /\ call[c].at = "sent"
    /\ SetIfAbsent(Mine(c))
    /\ call' = [call EXCEPT ![c] = [op |-> "set", at |-> "answered", ok |-> (key' = Mine(c))]]
    /\ UNCHANGED <<now, token, count, asked, stray, gone>>

\* acquire returns the token whatever the answer was.
AcquireReturnsToken(c) ==
    /\ call[c].op = "set" /\ call[c].at = "answered"
    /\ token' = [token EXCEPT ![c] = Mine(c)]
    /\ call' = [call EXCEPT ![c] = IdleCall]
    /\ UNCHANGED <<now, key, left, count, asked, stray, gone>>

\* acquire returns the token, or NoToken for an answer that says no.
AcquireReturns(c) ==
    /\ call[c].op = "set" /\ call[c].at = "answered"
    /\ token' = [token EXCEPT ![c] = IF call[c].ok THEN Mine(c) ELSE NoToken]
    /\ call' = [call EXCEPT ![c] = IdleCall]
    /\ UNCHANGED <<now, key, left, count, asked, stray, gone>>

\* release sends the script with the token.
Release(c) ==
    /\ call[c] = IdleCall /\ token[c] /= NoToken
    /\ call' = [call EXCEPT ![c] = [op |-> "del", at |-> "sent", ok |-> FALSE]]
    /\ gone' = gone \cup {token[c]}
    /\ UNCHANGED <<now, key, left, token, count, asked, stray>>

\* RELEASE_SCRIPT
DeleteIfMine(tok) ==
    /\ key' = IF key = tok THEN NoToken ELSE key
    /\ left' = IF key = tok THEN 0 ELSE left

\* Redis executes the script.
ExecuteDelete(c) ==
    /\ call[c].op = "del" /\ call[c].at = "sent"
    /\ DeleteIfMine(token[c])
    /\ call' = [call EXCEPT ![c] = [op |-> "del", at |-> "answered", ok |-> FALSE]]
    /\ UNCHANGED <<now, token, count, asked, stray, gone>>

\* release returns; the caller is done with the token either way.
ReleaseReturns(c) ==
    /\ call[c].op = "del" /\ call[c].at = "answered"
    /\ token' = [token EXCEPT ![c] = NoToken]
    /\ call' = [call EXCEPT ![c] = IdleCall]
    /\ UNCHANGED <<now, key, left, count, asked, stray, gone>>

\* The connection fails or the client dies: it knows of no token any more, and a
\* command that was on its way is lost or arrives later.
Abandon(c) ==
    /\ call[c] /= IdleCall \/ token[c] /= NoToken
    /\ call' = [call EXCEPT ![c] = IdleCall]
    /\ token' = [token EXCEPT ![c] = NoToken]
    /\ \/ UNCHANGED stray
       \/ call[c].at = "sent" /\ stray' = stray \cup {<<call[c].op, Mine(c)>>}
    /\ UNCHANGED <<now, key, left, count, asked, gone>>

\* A command arrives that nobody waits for.
ExecuteStray(s) ==
    /\ stray' = stray \ {s}
    /\ \/ s[1] = "set" /\ SetIfAbsent(s[2])
       \/ s[1] = "del" /\ DeleteIfMine(s[2])
    /\ UNCHANGED <<now, call, token, count, asked, gone>>

\* Time passes; Redis drops a key whose time to live is over.
Tick ==
    /\ now < MaxNow /\ now' = now + 1
    /\ left' = IF left > 0 THEN left - 1 ELSE 0
    /\ key' = IF left <= 1 THEN NoToken ELSE key
    /\ UNCHANGED <<call, token, count, asked, stray, gone>>

\* The clock stands at its bound.
Rest == now = MaxNow /\ UNCHANGED lockVars

LockNext ==
    \/ Tick \/ Rest
    \/ \E s \in stray : ExecuteStray(s)
    \/ \E c \in Clients : \/ Acquire(c) \/ ExecuteSet(c) \/ AcquireReturns(c)
                          \/ Release(c) \/ ExecuteDelete(c) \/ ReleaseReturns(c)
                          \/ Abandon(c)

LockSpec == LockInit /\ [][LockNext]_lockVars

-----------------------------------------------------------------------------
(* Properties.                                                             *)

\* Type invariant: the key is set exactly while it has time left.
LockTypeOK ==
    /\ now \in 0..MaxNow /\ left \in 0..TTL /\ gone \subseteq Tokens /\ stray \subseteq {"set", "del"} \X Tokens
    /\ key \in Tokens \cup {NoToken} /\ (key = NoToken <=> left = 0)
    /\ call \in [Clients -> [op : {"none", "set", "del"}, at : {"client", "sent", "answered"}, ok : BOOLEAN]]
    /\ token \in [Clients -> Tokens \cup {NoToken}]
    /\ count \in [Clients -> 0..MaxAcquires] /\ asked \in [Clients -> 0..MaxNow]

\* A client that counts the time to live from before it asked is alone: until then
\* the key holds its token, although the answer may be late, the key may have
\* belonged to others before, and their releases may still arrive.
AloneWhileFresh ==
    \A c \in Clients : token[c] /= NoToken /\ token[c] \notin gone /\ now < asked[c] + TTL => key = token[c]

\* Of a step: a key is taken from its owner by its own release or by its full time to live,
\* never by the release of an earlier owner that comes late.
LossExplained == key /= NoToken /\ key' /= key => key \in gone \/ (now' = now + 1 /\ left = 1)

\* The lock, at every step: until a time to live after it asked, a client's token is
\* in the key, although answers and the releases of earlier owners come late, and
\* a key is taken from its owner by its own release or its full time to live.
LockHeld == [][AloneWhileFresh' /\ LossExplained]_lockVars
=============================================================================
