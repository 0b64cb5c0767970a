-------------------------- MODULE SchemaMigrations --------------------------
(***************************************************************************)
(* `mmbot-db migrate | seed | all`: MigrationRunner and SeedRunner bring a *)
(* PostgreSQL schema up to date from numbered SQL files.  A run is one     *)
(* transaction: create the history table, read which files are recorded,   *)
(* run the others statement by statement in filename order, record each,   *)
(* commit.  Two operators, or two deployments, may run it at once, a run   *)
(* may die anywhere, files are added between runs, and the schema may have *)
(* been built by hand before the first one.                                *)
(*                                                                         *)
(* PostgreSQL is external: a statement waits for an open transaction that  *)
(* has touched the same objects, a primary key refuses a second row, and a *)
(* transaction that does not commit leaves nothing.                        *)
(***************************************************************************)
EXTENDS Naturals, FiniteSets, FiniteSetsExt

CONSTANTS
  Runners,      \* processes that may run mmbot-db
  Migrations,   \* numbers of migration files there may be; 1 is the initial one
  Seeds,        \* numbers of seed files there may be
  Length,       \* SQL statements in a file
  MaxRuns       \* bound: commands started in a behaviour

ASSUME MigrationsAssumption ==
  /\ Migrations \subseteq Nat /\ 1 \in Migrations
  /\ Seeds \subseteq Nat /\ 1 \in Seeds
  /\ Length \in Nat \ {0}
  /\ MaxRuns \in Nat

INITIAL_MIGRATION == 1
Kinds == {"migrate", "seed"}
Actions == {"migrate", "seed", "all"}
Numbers(k) == IF k = "migrate" THEN Migrations ELSE Seeds

VARIABLES
  byHand,     \* tables someone made: those of INITIAL_SCHEMA_TABLES, the rest
  files,      \* *.sql files in the two directories
  created,    \* which of schema_migrations and seed_history exist
  history,    \* committed rows of the two history tables
  ran,        \* committed statements of each file
  run,        \* the runners
  runs        \* commands started so far

migrateVars == <<byHand, files, created, history, ran, run, runs>>

IdleRunner == [pc |-> "idle", action |-> "migrate", kind |-> "migrate",
               existing |-> {}, listed |-> {}, todo |-> {}, at |-> 0, wrote |-> {}]

\* A runner about to run the files of kind k for command a.
Beginning(a, k) == [pc |-> "begin", action |-> a, kind |-> k,
                    existing |-> {}, listed |-> {}, todo |-> {}, at |-> 0, wrote |-> {}]

\* Runner r, of the same command and kind, somewhere else in its transaction.
Going(r, pc, existing, listed, todo, at, wrote) ==
  [pc |-> pc, action |-> run[r].action, kind |-> run[r].kind,
   existing |-> existing, listed |-> listed, todo |-> todo, at |-> at, wrote |-> wrote]

RunnerStates ==
  [pc : {"idle", "begin", "adopt", "apply"}, action : Actions, kind : Kinds, at : 0..Length,
   existing : SUBSET Nat, listed : SUBSET Nat, todo : SUBSET Nat, wrote : SUBSET Nat]

\* Type invariant: a run only ever deals with files of its kind.
MigrateTypeOK ==
  /\ byHand \subseteq {"checked", "unchecked"} /\ created \subseteq Kinds
  /\ files \in [Kinds -> SUBSET Nat] /\ history \in [Kinds -> SUBSET Nat]
  /\ ran \in [Kinds -> [Migrations -> Nat] \union [Seeds -> Nat]]
  /\ \A k \in Kinds : /\ files[k] \subseteq Numbers(k) /\ history[k] \subseteq Numbers(k)
                       /\ ran[k] \in [Numbers(k) -> Nat]
  /\ run \in [Runners -> RunnerStates]
  /\ \A r \in Runners :
       run[r].existing \union run[r].listed \union run[r].todo \union run[r].wrote \subseteq Numbers(run[r].kind)
  /\ runs \in 0..MaxRuns

\* The directories are relative paths: run from elsewhere they are empty.
MigrateInit ==
  /\ byHand \in SUBSET {"checked", "unchecked"}
  /\ files \in [Kinds -> {{}, {1}}]
  /\ created = {}
  /\ history = [k \in Kinds |-> {}]
  /\ ran = [k \in Kinds |-> [n \in Numbers(k) |-> 0]]
  /\ run = [r \in Runners |-> IdleRunner]
  /\ runs = 0

-----------------------------------------------------------------------------
(* The database, as a transaction sees it. *)

InTransaction(r, k) == run[r].pc \in {"adopt", "apply"} /\ run[r].kind = k

\* r's open transaction has written rows or objects of file n.
Touches(r, k, n) ==
  /\ InTransaction(r, k)
  /\ n \in run[r].wrote \/ (run[r].at > 0 /\ n = Min(run[r].todo))

\* A statement about file n waits for another transaction that touches it.
Waits(r, k, n) == \E q \in Runners \ {r} : Touches(q, k, n)

\* The initial tables r can see: made by hand, committed, or its own.
InitialSchema(r) ==
  \/ "checked" \in byHand
  \/ ran["migrate"][INITIAL_MIGRATION] > 0
  \/ InTransaction(r, "migrate") /\ INITIAL_MIGRATION \in run[r].wrote

\* A statement raises: CREATE TYPE and CREATE TABLE of the initial migration
\* meet an object that is there, any other file meets a table that is not.
Raises(r, k, n) ==
  IF k = "migrate" /\ n = INITIAL_MIGRATION
  THEN byHand # {} \/ ran[k][n] > 0
  ELSE ~InitialSchema(r)

-----------------------------------------------------------------------------
(* cli/database.py *)

\* mmbot-db <action>
Start(r, a) ==
  /\ run[r].pc = "idle" /\ runs < MaxRuns
  /\ run' = [run EXCEPT ![r] = Beginning(a, IF a = "seed" THEN "seed" ELSE "migrate")]
  /\ runs' = runs + 1
  /\ UNCHANGED <<byHand, files, created, history, ran>>

\* An exception leaves engine.begin(), which rolls the transaction back, and
\* _run: `all` does not go on to the seeds.
Fail(r) ==
  /\ run' = [run EXCEPT ![r] = IdleRunner]
  /\ UNCHANGED <<byHand, files, created, history, ran, runs>>

\* The process is killed, or the connection lost: the server rolls back.
Crash(r) == run[r].pc # "idle" /\ Fail(r)

\* A release adds a file; nothing makes its number the next one.
Deploy(k, n) ==
  /\ n \in Numbers(k) \ files[k]
  /\ files' = [files EXCEPT ![k] = @ \union {n}]
  /\ UNCHANGED <<byHand, created, history, ran, run, runs>>

-----------------------------------------------------------------------------
(* MigrationRunner.migrate and SeedRunner.seed *)

\* The files a run applies: those it lists and did not find recorded.
Pending(listed, existing) == listed \ existing

\* CREATE TABLE IF NOT EXISTS waits while another first run holds the
\* uncommitted table.
Begins(r, k) ==
  /\ run[r].pc = "begin" /\ run[r].kind = k
  /\ k \in created \/ ~ \E q \in Runners \ {r} : InTransaction(q, k)

\* The history table, then SELECT what is recorded.
BeginMigrate(r) ==
  /\ Begins(r, "migrate")
  /\ run' = [run EXCEPT ![r] = Going(r, "adopt", history["migrate"], {}, {}, 0, {})]
  /\ UNCHANGED <<byHand, files, created, history, ran, runs>>

\* The same for seed_history, then the loop over the seed files.
BeginSeed(r) ==
  /\ Begins(r, "seed")
  /\ run' = [run EXCEPT ![r] = Going(r, "apply", history["seed"], files["seed"],
                                     Pending(files["seed"], history["seed"]), 0, {})]
  /\ UNCHANGED <<byHand, files, created, history, ran, runs>>

\* The waiter may find the catalog row taken when the other commits.
BeginRefused(r) ==
  /\ run[r].pc = "begin" /\ run[r].kind \notin created
  /\ \E q \in Runners \ {r} : InTransaction(q, run[r].kind)
  /\ Fail(r)

\* List the directory and start the loop over what is not recorded.
Listing(r, existing) ==
  /\ run' = [run EXCEPT ![r] = Going(r, "apply", existing, files["migrate"],
                                     Pending(files["migrate"], existing), 0, existing \ run[r].existing)]
  /\ UNCHANGED <<byHand, files, created, history, ran, runs>>

\* A schema made by hand is recorded as the initial migration, not built.
Adopts(r) ==
  /\ INITIAL_MIGRATION \notin run[r].existing
  /\ "checked" \in byHand \/ ran["migrate"][INITIAL_MIGRATION] > 0

Adopt(r) ==
  /\ run[r].pc = "adopt" /\ Adopts(r)
  /\ ~Waits(r, "migrate", INITIAL_MIGRATION)
  /\ IF INITIAL_MIGRATION \in history["migrate"] THEN Fail(r)
     ELSE Listing(r, run[r].existing \union {INITIAL_MIGRATION})

NoAdoption(r) ==
  /\ run[r].pc = "adopt" /\ ~Adopts(r)
  /\ Listing(r, run[r].existing)

Working(r) == run[r].pc = "apply" /\ run[r].todo # {}

\* Mutant of Statement: one statement too many.
StatementPastEnd(r) ==
  LET k == run[r].kind
      n == Min(run[r].todo) IN
  /\ Working(r) /\ run[r].at <= Length /\ ~Waits(r, k, n)
  /\ IF Raises(r, k, n) THEN Fail(r)
     ELSE /\ run' = [run EXCEPT ![r] = Going(r, "apply", run[r].existing, run[r].listed,
                                        run[r].todo, run[r].at + 1, run[r].wrote)]
          /\ UNCHANGED <<byHand, files, created, history, ran, runs>>

\* conn.execute(text(statement))
Statement(r) ==
  LET k == run[r].kind
      n == Min(run[r].todo) IN
  /\ Working(r) /\ run[r].at < Length /\ ~Waits(r, k, n)
  /\ IF Raises(r, k, n) THEN Fail(r)
     ELSE /\ run' = [run EXCEPT ![r] = Going(r, "apply", run[r].existing, run[r].listed,
                                        run[r].todo, run[r].at + 1, run[r].wrote)]
          /\ UNCHANGED <<byHand, files, created, history, ran, runs>>

\* Mutant of Record: ON CONFLICT DO NOTHING.
RecordUpsert(r) ==
  LET k == run[r].kind
      n == Min(run[r].todo) IN
  /\ Working(r) /\ run[r].at = Length /\ ~Waits(r, k, n)
  /\ run' = [run EXCEPT ![r] = Going(r, "apply", run[r].existing, run[r].listed,
                                     run[r].todo \ {n}, 0, run[r].wrote \union {n})]
  /\ UNCHANGED <<byHand, files, created, history, ran, runs>>

\* INSERT INTO schema_migrations / seed_history: the primary key decides
\* between two runs that both applied the file.
Record(r) ==
  LET k == run[r].kind
      n == Min(run[r].todo) IN
  /\ Working(r) /\ run[r].at = Length /\ ~Waits(r, k, n)
  /\ IF n \in history[k] THEN Fail(r)
     ELSE /\ run' = [run EXCEPT ![r] = Going(r, "apply", run[r].existing, run[r].listed,
                                        run[r].todo \ {n}, 0, run[r].wrote \union {n})]
          /\ UNCHANGED <<byHand, files, created, history, ran, runs>>

\* engine.begin() commits; `all` goes on to the seeds.
CommitRun(r) ==
  LET k == run[r].kind
      built == run[r].wrote \ run[r].existing IN
  /\ run[r].pc = "apply" /\ run[r].todo = {}
  /\ created' = created \union {k}
  /\ history' = [history EXCEPT ![k] = @ \union run[r].wrote]
  /\ ran' = [ran EXCEPT ![k] = [n \in Numbers(k) |->
               @[n] + IF n \in built THEN Length ELSE 0]]
  /\ run' = [run EXCEPT ![r] =
               IF run[r].action = "all" /\ k = "migrate"
               THEN Beginning("all", "seed") ELSE IdleRunner]
  /\ UNCHANGED <<byHand, files, runs>>

RunnerStep(r) ==
  \/ BeginMigrate(r) \/ BeginSeed(r) \/ BeginRefused(r)
  \/ Adopt(r) \/ NoAdoption(r)
  \/ Statement(r) \/ Record(r) \/ CommitRun(r)

MigrateNext ==
  \/ \E r \in Runners : RunnerStep(r) \/ Crash(r)
  \/ \E r \in Runners, a \in Actions : Start(r, a)
  \/ \E k \in Kinds : \E n \in Numbers(k) : Deploy(k, n)

MigrateSpec == MigrateInit /\ [][MigrateNext]_migrateVars

-----------------------------------------------------------------------------
(***************************************************************************)
(* Whatever dies, and whoever runs at the same time, a file is recorded    *)
(* exactly when all of its statements took effect, once: no half-applied   *)
(* file, none applied twice.  The initial migration of a hand-built schema *)
(* is recorded without having run at all.                                  *)
(***************************************************************************)
AppliedOnce ==
  \A k \in Kinds : \A n \in Numbers(k) :
    LET adopted == k = "migrate" /\ n = 1 /\ "checked" \in byHand IN
    ran[k][n] = IF n \in history[k] /\ ~adopted THEN Length ELSE 0

(***************************************************************************)
(* Seed rows are committed only into a schema that is there, even when     *)
(* `seed` is typed before `migrate` or runs beside it.                     *)
(***************************************************************************)
SeedsHaveTables ==
  history["seed"] # {} => "checked" \in byHand \/ ran["migrate"][1] = Length

(***************************************************************************)
(* A run about to commit leaves nothing behind: every file its directory   *)
(* listing showed is recorded or was applied by it, a file added with a    *)
(* number below one that was applied earlier too.                          *)
(***************************************************************************)
NothingSkipped ==
  \A r \in Runners : run[r].pc = "apply" /\ run[r].todo = {} =>
    run[r].listed \subseteq history[run[r].kind] \union run[r].wrote

\* The schema and its history agree: the three of them.
MigrationsWhole == AppliedOnce /\ SeedsHaveTables /\ NothingSkipped

\* Runner r has nothing to do.
Finished(r) == run[r].pc = "idle"
=============================================================================
