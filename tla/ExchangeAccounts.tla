-------------------------- MODULE ExchangeAccounts --------------------------
(***************************************************************************)
(* The row of one exchange account and the API handlers that work on it    *)
(* (api/routes.py): connect, the older Coinstore upsert, enable/disable,   *)
(* connection test, balance sync, remove.  A handler loads the row, awaits *)
(* (the venue, the audit log, Redis) and writes at the end; get_session    *)
(* commits, or rolls everything back when the handler raised.  Requests    *)
(* overlap freely.                                                         *)
(*                                                                         *)
(* The ORM writes the columns whose new value differs from the one it      *)
(* loaded, and nothing else.  Ciphertexts are salted and always differ; an *)
(* absent passphrase does not differ from an absent passphrase.            *)
(*                                                                         *)
(* A credential is named by the request that brought it.  Confirmations,   *)
(* masks, audit records and published notices, which no engine acts on,    *)
(* are left out.                                                           *)
(***************************************************************************)
EXTENDS Naturals, FiniteSets

CONSTANTS
    AccountRequests,  \* names for the requests in flight
    RequestKinds,     \* kinds of request this instance issues
    Private,          \* TRUE for Coinstore, whose test also tries the credentials
    Passphrases,      \* whether a request may bring a passphrase: a subset of BOOLEAN
    MaxIds,           \* bound on incarnations of the row
    NoRequest         \* the absent passphrase

AllKinds == {"connect", "upsert", "status", "test", "sync", "remove"}

ASSUME AccountsAssumption ==
    /\ RequestKinds \subseteq AllKinds /\ Private \in BOOLEAN /\ Passphrases \subseteq BOOLEAN
    /\ MaxIds \in Nat \ {0} /\ NoRequest \notin AccountRequests

Columns == {"key", "secret", "passphrase", "enabled", "status", "rest", "ws", "private"}
Statuses == {"disconnected", "connected", "network_error", "invalid_credentials", "rest_failed", "private_ws_failed"}

VARIABLES
    row,        \* the columns of the row
    id,         \* its primary key, 0 while there is none
    ids,        \* primary keys used so far
    held,       \* primary keys inventory_snapshots refers to
    kind,       \* kind[r]: kind of request r
    at,         \* at[r]: where the handler of r is
    loaded,     \* loaded[r]: the columns r loaded
    loadedId,   \* loadedId[r]: the primary key r loaded
    tested,     \* history: keys that passed a test while they were in the row
    overlap,    \* history: a handler wrote over a row that had changed since it was loaded
    unreset     \* history: new credentials were stored by the upsert

accountVars == <<row, id, ids, held, kind, at, loaded, loadedId, tested, overlap, unreset>>
localVars == <<kind, loaded, loadedId>>

Creds == AccountRequests \cup {NoRequest}

Blank == [key |-> NoRequest, secret |-> NoRequest, passphrase |-> NoRequest, enabled |-> FALSE,
          status |-> "disconnected", rest |-> FALSE, ws |-> FALSE, private |-> FALSE]

Rows == [key : Creds, secret : Creds, passphrase : Creds, enabled : BOOLEAN,
         status : Statuses, rest : BOOLEAN, ws : BOOLEAN, private : BOOLEAN]

\* Type invariant: the status "testing" a test begins with is never stored.
AccountsTypeOK ==
    /\ row \in Rows /\ id \in 0..MaxIds /\ ids \in 0..MaxIds /\ held \subseteq 1..MaxIds
    /\ kind \in [AccountRequests -> AllKinds] /\ loaded \in [AccountRequests -> Rows]
    /\ loadedId \in [AccountRequests -> 0..MaxIds]
    /\ at \in [AccountRequests -> {"new", "loaded", "ok", "missing", "failed"}]
    /\ tested \subseteq AccountRequests /\ overlap \in BOOLEAN /\ unreset \in BOOLEAN

AccountsInit ==
    /\ row = Blank /\ id = 0 /\ ids = 0 /\ held = {}
    /\ kind \in [AccountRequests -> RequestKinds] /\ at = [r \in AccountRequests |-> "new"]
    /\ loaded = [r \in AccountRequests |-> Blank] /\ loadedId = [r \in AccountRequests |-> 0]
    /\ tested = {} /\ overlap = FALSE /\ unreset = FALSE

-----------------------------------------------------------------------------
(* Beginning and ending of a handler.                                      *)

Creating(r) == kind[r] \in {"connect", "upsert"}

\* The SELECT of every handler; without a row the others answer 404.
Load(r) ==
    /\ at[r] = "new"
    /\ at' = [at EXCEPT ![r] = IF id = 0 /\ ~Creating(r) THEN "missing" ELSE "loaded"]
    /\ loaded' = [loaded EXCEPT ![r] = row] /\ loadedId' = [loadedId EXCEPT ![r] = id]
    /\ UNCHANGED <<row, id, ids, held, kind, tested, overlap, unreset>>

\* The handler raises before its commit: Redis, the venue of a sync, a constraint.
RollbackRequest(r) ==
    /\ at[r] = "loaded"
    /\ at' = [at EXCEPT ![r] = "failed"]
    /\ UNCHANGED <<row, id, ids, held, localVars, tested, overlap, unreset>>

\* What an UPDATE of the columns that r changed leaves in the row.
Stored(r, new) == [c \in Columns |-> IF new[c] = loaded[r][c] THEN row[c] ELSE new[c]]

\* The UPDATE finds the row it was loaded from, or raises StaleDataError.
Update(r, new) ==
    /\ at[r] = "loaded" /\ loadedId[r] /= 0 /\ loadedId[r] = id
    /\ row' = Stored(r, new)
    /\ overlap' = (overlap \/ row /= loaded[r])
    /\ at' = [at EXCEPT ![r] = "ok"]
    /\ UNCHANGED <<id, ids, held, localVars>>

\* The INSERT of a row nobody inserted meanwhile: uq_exchange_accounts_alias.
InsertAccount(r, new) ==
    /\ at[r] = "loaded" /\ loadedId[r] = 0 /\ id = 0 /\ ids < MaxIds
    /\ row' = new /\ ids' = ids + 1 /\ id' = ids + 1
    /\ at' = [at EXCEPT ![r] = "ok"]
    /\ UNCHANGED <<held, localVars, tested, overlap, unreset>>

-----------------------------------------------------------------------------
(* The handlers.                                                           *)

\* The credential columns connect and upsert assign.
Credentials(r, old, pass, on) ==
    [old EXCEPT !.key = r, !.secret = r, !.passphrase = IF pass THEN r ELSE NoRequest, !.enabled = on]

\* A connect that leaves the connection status of the old credentials.
ResetNothing(new) == new

\* connect: new credentials are untested.
ResetStatus(new) ==
    [new EXCEPT !.status = "disconnected", !.rest = FALSE, !.ws = FALSE, !.private = FALSE]

\* exchanges_connect
ExchangesConnect(r, pass, on) ==
    /\ kind[r] = "connect"
    /\ \/ InsertAccount(r, Credentials(r, Blank, pass, on))
       \/ /\ Update(r, ResetStatus(Credentials(r, loaded[r], pass, on)))
          /\ UNCHANGED <<tested, unreset>>

\* coinstore_account_upsert: the status of the old credentials stays.
Upsert(r, pass, on) ==
    /\ kind[r] = "upsert"
    /\ \/ InsertAccount(r, Credentials(r, Blank, pass, on))
       \/ /\ Update(r, Credentials(r, loaded[r], pass, on))
          /\ unreset' = TRUE
          /\ UNCHANGED tested

\* coinstore_account_status
SetEnabled(r, on) ==
    /\ kind[r] = "status"
    /\ Update(r, [loaded[r] EXCEPT !.enabled = on])
    /\ UNCHANGED <<tested, unreset>>

\* _test_exchange_connection: where the test stopped, and the states it leaves.
\* Public checks come first; the private stream counts as connected until then,
\* and where it is not supported.
Outcomes ==
    {[status |-> "network_error", rest |-> FALSE, ws |-> FALSE, private |-> TRUE],
     [status |-> "network_error", rest |-> TRUE, ws |-> FALSE, private |-> TRUE],
     [status |-> "connected", rest |-> TRUE, ws |-> TRUE, private |-> TRUE]}
    \cup (IF Private
          THEN {[status |-> s, rest |-> TRUE, ws |-> TRUE, private |-> FALSE] :
                    s \in {"invalid_credentials", "rest_failed", "private_ws_failed"}}
          ELSE {})

\* _apply_exchange_test_result
ApplyTestResult(old, o) ==
    [old EXCEPT !.status = o.status, !.rest = o.rest, !.ws = o.ws, !.private = o.private]

\* exchanges_test: the credentials tried are the ones that were loaded.
Test(r, o) ==
    /\ kind[r] = "test"
    /\ Update(r, ApplyTestResult(loaded[r], o))
    /\ tested' = IF o.status = "connected" THEN tested \cup {loaded[r].key} ELSE tested
    /\ UNCHANGED unreset

\* exchange_balance_sync: snapshots refer to the account, which must still exist.
SyncBalances(r) ==
    /\ kind[r] = "sync" /\ Private
    /\ at[r] = "loaded" /\ loadedId[r] = id
    /\ held' = held \cup {id}
    /\ at' = [at EXCEPT ![r] = "ok"]
    /\ UNCHANGED <<row, id, ids, localVars, tested, overlap, unreset>>

\* exchanges_remove: inventory_snapshots refers to its account ON DELETE RESTRICT.
Remove(r) ==
    /\ kind[r] = "remove" /\ at[r] = "loaded" /\ loadedId[r] = id
    /\ id \notin held
    /\ id' = 0 /\ row' = Blank
    /\ at' = [at EXCEPT ![r] = "ok"]
    /\ UNCHANGED <<ids, held, localVars, tested, overlap, unreset>>

Handler(r) ==
    \/ Load(r)
    \/ \E pass \in Passphrases, on \in BOOLEAN : ExchangesConnect(r, pass, on) \/ Upsert(r, pass, on)
    \/ \E on \in BOOLEAN : SetEnabled(r, on)
    \/ \E o \in Outcomes : Test(r, o)
    \/ SyncBalances(r) \/ Remove(r)

AccountsNext == \E r \in AccountRequests : Handler(r) \/ RollbackRequest(r)

AccountsSpec == AccountsInit /\ [][AccountsNext]_accountVars

-----------------------------------------------------------------------------
(* Properties.                                                             *)

\* An account is shown as connected only when its present credentials have passed a
\* test.  Two things can undo that: the upsert, which keeps the old status, and a
\* test that ends after the credentials it tried were replaced.
ConnectedMeansTested ==
    row.status = "connected" => row.key \in tested \/ overlap \/ unreset

\* The three connection flags of a connected account are all set, unless requests
\* wrote over each other column by column.
FlagsAgree == row.status = "connected" /\ ~overlap => row.rest /\ row.ws /\ row.private

\* Key, secret and passphrase of the row come from one request, whatever requests
\* overlapped, as long as every request brings a passphrase.
CredentialsWhole == row.secret = row.key /\ (Passphrases = {TRUE} => row.passphrase = row.key)

\* The account handlers: key, secret and passphrase of a row come from one request,
\* whatever requests overlapped; an account is shown as connected only when these
\* credentials have passed a test, with all of its flags set, except after an
\* upsert or an overlapping request.
AccountsConsistent == ConnectedMeansTested /\ FlagsAgree /\ CredentialsWhole
=============================================================================
