-------------------------- MODULE Operations_proofs --------------------------
(***************************************************************************)
(* Proofs about what operators run beside the trading loop: mmbot-db, for  *)
(* any number of runners and runs, any files and any number of statements  *)
(* in them; the runtime configuration, for any domains, fields, overlays   *)
(* and requests; the exchange account handlers, for any requests; and the  *)
(* dashboard's stream, for any bursts, polls and connections.              *)
(***************************************************************************)
EXTENDS SchemaMigrations, ConfigPublication, ExchangeAccounts, OperationsStream,
        WellFoundedInduction, SequenceTheorems, TLAPS

-----------------------------------------------------------------------------
(* Migrations and seeds: SchemaMigrations. *)

\* Before the loop over the files a run x has done nothing, and only migrations
\* check for a schema made by hand.
StagesFit(x) ==
  /\ x.pc # "apply" => x.at = 0 /\ x.todo = {} /\ x.wrote = {}
  /\ x.pc = "adopt" => x.kind = "migrate"

\* What x found recorded is recorded, or adopted by it; what it has listed is found,
\* still to do, or done.
LoopFits(x) ==
  /\ x.existing \subseteq history[x.kind] \union x.wrote
  /\ x.todo \intersect x.existing = {}
  /\ x.pc = "apply" => x.listed \subseteq x.existing \union x.todo \union x.wrote

\* A file x has recorded, and had found recorded, is the adopted initial migration.
AdoptsByHand(x) ==
  \A n \in x.wrote \intersect x.existing :
    x.kind = "migrate" /\ n = INITIAL_MIGRATION /\ "checked" \in byHand

\* The initial migration is built only where nothing was made by hand.
BuildsOnEmpty(x) ==
  x.kind = "migrate" =>
    /\ INITIAL_MIGRATION \in x.wrote \ x.existing => byHand = {}
    /\ x.at > 0 /\ Min(x.todo) = INITIAL_MIGRATION => byHand = {}

\* The tables the seeds go into are there, for good.
SchemaThere == "checked" \in byHand \/ ran["migrate"][INITIAL_MIGRATION] > 0

SeedsIntoSchema(x) == x.kind = "seed" /\ (x.at > 0 \/ x.wrote # {}) => SchemaThere

RunnerFits(x) ==
  /\ x \in RunnerStates
  /\ x.existing \union x.listed \union x.todo \union x.wrote \subseteq Numbers(x.kind)
  /\ x.wrote \intersect history[x.kind] = {}
  /\ StagesFit(x) /\ LoopFits(x) /\ AdoptsByHand(x) /\ BuildsOnEmpty(x) /\ SeedsIntoSchema(x)

\* No two open transactions have written rows or objects of the same file.
Apart(x, y) == x.kind = y.kind => x.wrote \intersect y.wrote = {}

\* The database without its runners.
DatabaseFits ==
  /\ byHand \subseteq {"checked", "unchecked"} /\ created \subseteq Kinds
  /\ files \in [Kinds -> SUBSET Nat] /\ history \in [Kinds -> SUBSET Nat]
  /\ ran \in [Kinds -> [Migrations -> Nat] \union [Seeds -> Nat]]
  /\ \A k \in Kinds : /\ files[k] \subseteq Numbers(k) /\ history[k] \subseteq Numbers(k)
                      /\ ran[k] \in [Numbers(k) -> Nat]
  /\ runs \in 0..MaxRuns
  /\ AppliedOnce /\ SeedsHaveTables

RunnersFit ==
  /\ run \in [Runners -> RunnerStates]
  /\ \A r \in Runners : RunnerFits(run[r])
  /\ \A q, r \in Runners : q # r => Apart(run[q], run[r])

MigrateInv == DatabaseFits /\ RunnersFit

-----------------------------------------------------------------------------
(* The file a run works on.                                                *)

\* Files are taken in the order of their numbers, so there is a next one.
LEMMA MinIsMember ==
  ASSUME NEW S \in SUBSET Nat, S # {}
  PROVE  Min(S) \in S
<1> DEFINE R == {ss \in Nat \X Nat : ss[1] < ss[2]}
<1>1. IsWellFoundedOn(R, Nat)
  BY NatLessThanWellFounded DEF OpToRel
<1> HIDE DEF R
<1>2. PICK x \in S : \A y \in S : ~(<<y, x>> \in R)
  BY <1>1, WFMin
<1>3. \A y \in S : x <= y
  <2> TAKE y \in S
  <2>1. x \in Nat /\ y \in Nat
    OBVIOUS
  <2>2. y < x => <<y, x>> \in R
    BY <2>1 DEF R
  <2> QED
    BY <1>2, <2>1, <2>2
<1> QED
  BY <1>3 DEF Min

-----------------------------------------------------------------------------
(* A step of one runner that leaves the database alone.                    *)

LEMMA RunnerMoves ==
  ASSUME MigrateInv, NEW r \in Runners, NEW x,
         run' = [run EXCEPT ![r] = x], UNCHANGED <<byHand, history, ran>>,
         RunnerFits(x), \A q \in Runners \ {r} : Apart(run[q], x)
  PROVE  RunnersFit'
<1>1. run' \in [Runners -> RunnerStates]
  BY DEF MigrateInv, RunnersFit, RunnerFits
<1>2. \A q \in Runners : RunnerFits(run'[q])
  BY DEF MigrateInv, RunnersFit
<1>3. \A y : RunnerFits(y)' <=> RunnerFits(y)
  BY DEF RunnerFits, StagesFit, LoopFits, AdoptsByHand, BuildsOnEmpty, SeedsIntoSchema, SchemaThere
<1>4. \A p, q \in Runners : p # q => Apart(run'[p], run'[q])
  <2>1. \A p, q \in Runners : p # q => Apart(run[p], run[q])
    BY DEF MigrateInv, RunnersFit
  <2>2. \A q \in Runners : run'[q] = IF q = r THEN x ELSE run[q]
    BY DEF MigrateInv, RunnersFit
  <2> QED
    BY <2>1, <2>2 DEF Apart
<1>5. \A r_1 \in Runners : RunnerFits(run[r_1])'
  BY <1>2, <1>3
<1> QED
  BY <1>1, <1>4, <1>5 DEF RunnersFit

\* The database's part of the invariant.
LEMMA DatabaseStays ==
  ASSUME MigrateInv, UNCHANGED <<byHand, created, files, history, ran, runs>>
  PROVE  DatabaseFits'
BY DEF MigrateInv, DatabaseFits, AppliedOnce, SeedsHaveTables

\* A runner that has nothing, or only begins, fits any database.
LEMMA NothingFits ==
  ASSUME MigrateInv, NEW a \in Actions, NEW k \in Kinds, NEW x, x = IdleRunner \/ x = Beginning(a, k)
  PROVE  RunnerFits(x) /\ \A y : Apart(y, x)
<1>1. /\ x \in RunnerStates /\ x.kind \in Kinds /\ x.pc \in {"idle", "begin"} /\ x.at = 0
      /\ x.existing = {} /\ x.listed = {} /\ x.todo = {} /\ x.wrote = {}
  BY MigrationsAssumption DEF IdleRunner, Beginning, RunnerStates, Actions, Kinds
<1> QED
  BY <1>1 DEF RunnerFits, StagesFit, LoopFits, AdoptsByHand, BuildsOnEmpty, SeedsIntoSchema, Apart

\* What the invariant says of one runner, spelled out.
LEMMA RunnerFacts ==
  ASSUME MigrateInv, NEW r \in Runners
  PROVE  /\ RunnerFits(run[r])
         /\ run[r] \in RunnerStates /\ run[r].kind \in Kinds /\ run[r].action \in Actions
         /\ run[r].todo \in SUBSET Nat /\ Numbers(run[r].kind) \subseteq Nat
         /\ Length \in Nat /\ Length > 0
BY MigrationsAssumption DEF MigrateInv, RunnersFit, RunnerStates, Numbers

\* Going on within the transaction gives a state of a runner again.
LEMMA GoingFacts ==
  ASSUME MigrateInv, NEW r \in Runners, NEW pc \in {"adopt", "apply"}, NEW done \in 0..Length,
         NEW existing \in SUBSET Numbers(run[r].kind), NEW listed \in SUBSET Numbers(run[r].kind),
         NEW todo \in SUBSET Numbers(run[r].kind), NEW wrote \in SUBSET Numbers(run[r].kind)
  PROVE  LET x == Going(r, pc, existing, listed, todo, done, wrote) IN
         /\ x \in RunnerStates /\ x.pc = pc /\ x.kind = run[r].kind /\ x.existing = existing
         /\ x.listed = listed /\ x.todo = todo /\ x.at = done /\ x.wrote = wrote
<1>1. /\ run[r].action \in Actions /\ run[r].kind \in Kinds
      /\ \A S \in SUBSET Numbers(run[r].kind) : S \in SUBSET Nat
  BY RunnerFacts
<1> QED
  BY <1>1 DEF Going, RunnerStates

\* An exception rolls back: the runner is idle again.
LEMMA FailKeeps ==
  ASSUME MigrateInv, NEW r \in Runners, Fail(r)
  PROVE  MigrateInv'
<1>1. RunnersFit'
  <2>1. "all" \in Actions /\ "seed" \in Kinds
    BY DEF Actions, Kinds
  <2>2. RunnerFits(IdleRunner) /\ \A y : Apart(y, IdleRunner)
    BY <2>1, NothingFits
  <2> QED
    BY <2>2, RunnerMoves DEF Fail
<1>2. DatabaseFits'
  BY DatabaseStays DEF Fail
<1> QED
  BY <1>1, <1>2 DEF MigrateInv

LEMMA StartKeeps ==
  ASSUME MigrateInv, NEW r \in Runners, NEW a \in Actions, Start(r, a)
  PROVE  MigrateInv'
<1>1. RunnersFit'
  <2> DEFINE x == Beginning(a, IF a = "seed" THEN "seed" ELSE "migrate")
  <2>1. (IF a = "seed" THEN "seed" ELSE "migrate") \in Kinds
    BY DEF Kinds
  <2>2. RunnerFits(x) /\ \A y : Apart(y, x)
    BY <2>1, NothingFits
  <2>3. run' = [run EXCEPT ![r] = x] /\ UNCHANGED <<byHand, history, ran>>
    BY DEF Start
  <2> HIDE DEF x
  <2> QED
    BY <2>2, <2>3, RunnerMoves
<1>2. DatabaseFits'
  BY MigrationsAssumption DEF Start, MigrateInv, DatabaseFits, AppliedOnce, SeedsHaveTables
<1> QED
  BY <1>1, <1>2 DEF MigrateInv

\* A new file is nobody's business yet.
LEMMA DeployKeeps ==
  ASSUME MigrateInv, NEW k \in Kinds, NEW n \in Numbers(k), Deploy(k, n)
  PROVE  MigrateInv'
<1>1. \A x : RunnerFits(x)' <=> RunnerFits(x)
  BY DEF Deploy, RunnerFits, StagesFit, LoopFits, AdoptsByHand, BuildsOnEmpty, SeedsIntoSchema, SchemaThere
<1>2. RunnersFit'
  BY <1>1 DEF Deploy, MigrateInv, RunnersFit
<1>3. DatabaseFits'
  <2>1. n \in Nat
    BY MigrationsAssumption DEF Numbers
  <2>2. files' \in [Kinds -> SUBSET Nat] /\ \A j \in Kinds : files'[j] \subseteq Numbers(j)
    BY <2>1 DEF Deploy, MigrateInv, DatabaseFits
  <2> QED
    BY <2>2 DEF Deploy, MigrateInv, DatabaseFits, AppliedOnce, SeedsHaveTables
<1> QED
  BY <1>2, <1>3 DEF MigrateInv

\* A transaction begins with what is recorded at that moment.
LEMMA BeginKeeps ==
  ASSUME MigrateInv, NEW r \in Runners, BeginMigrate(r) \/ BeginSeed(r)
  PROVE  MigrateInv'
<1>0. UNCHANGED <<byHand, created, files, history, ran, runs>>
  BY DEF BeginMigrate, BeginSeed
<1>1. CASE BeginMigrate(r)
  <2> DEFINE x == Going(r, "adopt", history["migrate"], {}, {}, 0, {})
  <2>1. run[r].kind = "migrate" /\ history["migrate"] \subseteq Numbers("migrate")
    BY <1>1 DEF BeginMigrate, Begins, MigrateInv, DatabaseFits, Kinds
  <2>2. /\ x \in RunnerStates /\ x.pc = "adopt" /\ x.kind = "migrate" /\ x.existing = history["migrate"]
        /\ x.listed = {} /\ x.todo = {} /\ x.at = 0 /\ x.wrote = {}
    BY <2>1, GoingFacts, RunnerFacts
  <2>3. run' = [run EXCEPT ![r] = x]
    BY <1>1 DEF BeginMigrate
  <2> HIDE DEF x
  <2>4. RunnerFits(x) /\ \A q \in Runners \ {r} : Apart(run[q], x)
    BY <2>1, <2>2 DEF RunnerFits, StagesFit, LoopFits, AdoptsByHand, BuildsOnEmpty, SeedsIntoSchema, Apart
  <2> QED
    BY <2>3, <2>4, <1>0, RunnerMoves, DatabaseStays DEF MigrateInv
<1>2. CASE BeginSeed(r)
  <2> DEFINE x == Going(r, "apply", history["seed"], files["seed"],
                        Pending(files["seed"], history["seed"]), 0, {})
  <2>1. /\ run[r].kind = "seed"
        /\ history["seed"] \subseteq Numbers("seed") /\ files["seed"] \subseteq Numbers("seed")
    BY <1>2 DEF BeginSeed, Begins, MigrateInv, DatabaseFits, Kinds
  <2>2. /\ x \in RunnerStates /\ x.pc = "apply" /\ x.kind = "seed" /\ x.existing = history["seed"]
        /\ x.listed = files["seed"] /\ x.todo = files["seed"] \ history["seed"] /\ x.at = 0 /\ x.wrote = {}
    BY <2>1, GoingFacts, RunnerFacts DEF Pending
  <2>3. run' = [run EXCEPT ![r] = x]
    BY <1>2 DEF BeginSeed
  <2> HIDE DEF x
  <2>4. RunnerFits(x) /\ \A q \in Runners \ {r} : Apart(run[q], x)
    BY <2>1, <2>2 DEF RunnerFits, StagesFit, LoopFits, AdoptsByHand, BuildsOnEmpty, SeedsIntoSchema, Apart
  <2> QED
    BY <2>3, <2>4, <1>0, RunnerMoves, DatabaseStays DEF MigrateInv
<1> QED
  BY <1>1, <1>2

\* A schema made by hand is recorded, unless another run has done so.
LEMMA AdoptKeeps ==
  ASSUME MigrateInv, NEW r \in Runners, Adopt(r)
  PROVE  MigrateInv'
<1> DEFINE k == "migrate"
           one == INITIAL_MIGRATION
           found == run[r].existing \union {one}
           x == Going(r, "apply", found, files[k], Pending(files[k], found), 0, found \ run[r].existing)
<1>1. CASE one \in history[k]
  BY <1>1, FailKeeps DEF Adopt
<1>2. CASE one \notin history[k]
  <2>0. /\ run' = [run EXCEPT ![r] = x] /\ UNCHANGED <<byHand, created, files, history, ran, runs>>
        /\ run[r].pc = "adopt" /\ one \notin run[r].existing
    BY <1>2 DEF Adopt, Listing, Adopts
  <2>1. run[r].kind = k /\ k \in Kinds /\ one \in Numbers(k)
    BY <2>0, RunnerFacts, MigrationsAssumption DEF RunnerFits, StagesFit, Kinds, Numbers, INITIAL_MIGRATION
  <2>2. /\ run[r].existing \subseteq history[k] /\ run[r].existing \subseteq Numbers(k)
        /\ files[k] \subseteq Numbers(k)
    BY <2>0, <2>1, RunnerFacts DEF RunnerFits, StagesFit, LoopFits, MigrateInv, DatabaseFits
  <2>3. "checked" \in byHand
    BY <1>2, <2>1 DEF Adopt, Adopts, MigrateInv, DatabaseFits, AppliedOnce
  <2>4. /\ x \in RunnerStates /\ x.pc = "apply" /\ x.kind = k /\ x.existing = found /\ x.listed = files[k]
        /\ x.todo = files[k] \ found /\ x.at = 0 /\ x.wrote = found \ run[r].existing
    BY <2>1, <2>2, GoingFacts, RunnerFacts DEF Pending
  <2>5. \A q \in Runners \ {r} : run[q].kind = k => one \notin run[q].wrote
    BY <2>1 DEF Adopt, Waits, Touches, InTransaction, MigrateInv, RunnersFit, RunnerFits, StagesFit
  <2> HIDE DEF x
  <2>6. RunnerFits(x)
    <3>1. x.wrote = {one}
      BY <2>0, <2>4
    <3> QED
      BY <1>2, <2>1, <2>2, <2>3, <2>4, <3>1
      DEF RunnerFits, StagesFit, LoopFits, AdoptsByHand, BuildsOnEmpty, SeedsIntoSchema
  <2>7. \A q \in Runners \ {r} : Apart(run[q], x)
    BY <2>0, <2>4, <2>5 DEF Apart
  <2> QED
    BY <2>0, <2>6, <2>7, RunnerMoves, DatabaseStays DEF MigrateInv
<1> QED
  BY <1>1, <1>2

LEMMA NoAdoptionKeeps ==
  ASSUME MigrateInv, NEW r \in Runners, NoAdoption(r)
  PROVE  MigrateInv'
<1> DEFINE k == "migrate"
           found == run[r].existing
           x == Going(r, "apply", found, files[k], Pending(files[k], found), 0, found \ run[r].existing)
<1>0. run' = [run EXCEPT ![r] = x] /\ UNCHANGED <<byHand, created, files, history, ran, runs>> /\ run[r].pc = "adopt"
  BY DEF NoAdoption, Listing
<1>1. run[r].kind = k /\ k \in Kinds
  BY <1>0, RunnerFacts DEF RunnerFits, StagesFit, Kinds
<1>2. found \subseteq history[k] /\ found \subseteq Numbers(k) /\ files[k] \subseteq Numbers(k)
  BY <1>0, <1>1, RunnerFacts DEF RunnerFits, StagesFit, LoopFits, MigrateInv, DatabaseFits
<1>3. /\ x \in RunnerStates /\ x.pc = "apply" /\ x.kind = k /\ x.existing = found /\ x.listed = files[k]
      /\ x.todo = files[k] \ found /\ x.at = 0 /\ x.wrote = {}
  BY <1>1, <1>2, GoingFacts, RunnerFacts DEF Pending
<1> HIDE DEF x
<1>4. RunnerFits(x) /\ \A q \in Runners \ {r} : Apart(run[q], x)
  BY <1>1, <1>2, <1>3 DEF RunnerFits, StagesFit, LoopFits, AdoptsByHand, BuildsOnEmpty, SeedsIntoSchema, Apart
<1> QED
  BY <1>0, <1>4, RunnerMoves, DatabaseStays DEF MigrateInv

\* A statement that did not raise met the objects it needs, and no others.
LEMMA StatementKeeps ==
  ASSUME MigrateInv, NEW r \in Runners, Statement(r)
  PROVE  MigrateInv'
<1> DEFINE k == run[r].kind
           n == Min(run[r].todo)
           x == Going(r, "apply", run[r].existing, run[r].listed, run[r].todo, run[r].at + 1, run[r].wrote)
<1>1. CASE Raises(r, k, n)
  BY <1>1, FailKeeps DEF Statement
<1>2. CASE ~Raises(r, k, n)
  <2>0. /\ run' = [run EXCEPT ![r] = x] /\ UNCHANGED <<byHand, created, files, history, ran, runs>>
        /\ run[r].pc = "apply" /\ run[r].at < Length
    BY <1>2 DEF Statement, Working
  <2>1. RunnerFits(run[r])
    BY RunnerFacts
  <2>2. run[r].at + 1 \in 0..Length
    BY <2>0, RunnerFacts DEF RunnerStates
  <2>3. /\ x \in RunnerStates /\ x.pc = "apply" /\ x.kind = k /\ x.existing = run[r].existing
        /\ x.listed = run[r].listed /\ x.todo = run[r].todo /\ x.wrote = run[r].wrote
    BY <2>1, <2>2, GoingFacts DEF RunnerFits
  <2>4. k = "migrate" /\ n = INITIAL_MIGRATION => byHand = {}
    BY <1>2 DEF Raises
  <2>5. k = "seed" => SchemaThere
    BY <1>2 DEF Raises, InitialSchema, InTransaction, SchemaThere
  <2> HIDE DEF x
  <2>6. RunnerFits(x)
    BY <2>0, <2>1, <2>3, <2>4, <2>5
    DEF RunnerFits, StagesFit, LoopFits, AdoptsByHand, BuildsOnEmpty, SeedsIntoSchema
  <2>7. \A q \in Runners \ {r} : Apart(run[q], x)
    BY <2>3 DEF Apart, MigrateInv, RunnersFit
  <2> QED
    BY <2>0, <2>6, <2>7, RunnerMoves, DatabaseStays DEF MigrateInv
<1> QED
  BY <1>1, <1>2

\* The row of a file whose statements have run: the primary key refuses it if another
\* run has committed one, and the insert waits if another has one open.
LEMMA RecordKeeps ==
  ASSUME MigrateInv, NEW r \in Runners, Record(r)
  PROVE  MigrateInv'
<1> DEFINE k == run[r].kind
           n == Min(run[r].todo)
           x == Going(r, "apply", run[r].existing, run[r].listed, run[r].todo \ {n}, 0, run[r].wrote \union {n})
<1>1. CASE n \in history[k]
  BY <1>1, FailKeeps DEF Record
<1>2. CASE n \notin history[k]
  <2>0. /\ run' = [run EXCEPT ![r] = x] /\ UNCHANGED <<byHand, created, files, history, ran, runs>>
        /\ run[r].pc = "apply" /\ run[r].at = Length /\ run[r].todo # {}
    BY <1>2 DEF Record, Working
  <2>1. RunnerFits(run[r]) /\ n \in run[r].todo
    BY <2>0, RunnerFacts, MinIsMember
  <2>2. 0 \in 0..Length /\ run[r].at > 0
    BY <2>0, RunnerFacts
  <2>3. /\ x \in RunnerStates /\ x.pc = "apply" /\ x.kind = k /\ x.existing = run[r].existing
        /\ x.listed = run[r].listed /\ x.todo = run[r].todo \ {n} /\ x.at = 0 /\ x.wrote = run[r].wrote \union {n}
    BY <2>1, <2>2, GoingFacts DEF RunnerFits
  <2>4. \A q \in Runners \ {r} : run[q].kind = k => n \notin run[q].wrote
    BY DEF Record, Waits, Touches, InTransaction, MigrateInv, RunnersFit, RunnerFits, StagesFit
  <2> HIDE DEF x
  <2>5. RunnerFits(x)
    BY <1>2, <2>0, <2>1, <2>2, <2>3
    DEF RunnerFits, StagesFit, LoopFits, AdoptsByHand, BuildsOnEmpty, SeedsIntoSchema
  <2>6. \A q \in Runners \ {r} : Apart(run[q], x)
    BY <2>3, <2>4 DEF Apart, MigrateInv, RunnersFit
  <2> QED
    BY <2>0, <2>5, <2>6, RunnerMoves, DatabaseStays DEF MigrateInv
<1> QED
  BY <1>1, <1>2

-----------------------------------------------------------------------------
(* The commit.                                                             *)

\* What a commit does to the tables, file by file.
LEMMA CommitFacts ==
  ASSUME MigrateInv, NEW r \in Runners, CommitRun(r)
  PROVE  LET k == run[r].kind IN
         /\ history' \in [Kinds -> SUBSET Nat] /\ ran' \in [Kinds -> [Migrations -> Nat] \union [Seeds -> Nat]]
         /\ history'[k] = history[k] \union run[r].wrote
         /\ ran'[k] \in [Numbers(k) -> Nat]
         /\ \A n \in Numbers(k) :
              ran'[k][n] = ran[k][n] + IF n \in run[r].wrote \ run[r].existing THEN Length ELSE 0
         /\ \A j \in Kinds : j # k => history'[j] = history[j] /\ ran'[j] = ran[j]
<1> DEFINE k == run[r].kind
           built == run[r].wrote \ run[r].existing
           new == [n \in Numbers(k) |-> ran[k][n] + IF n \in built THEN Length ELSE 0]
<1>1. /\ k \in Kinds /\ run[r].wrote \subseteq Numbers(k) /\ Numbers(k) \subseteq Nat /\ Length \in Nat
      /\ ran[k] \in [Numbers(k) -> Nat]
  BY RunnerFacts DEF RunnerFits, MigrateInv, DatabaseFits
<1>2. history' = [history EXCEPT ![k] = history[k] \union run[r].wrote] /\ ran' = [ran EXCEPT ![k] = new]
  BY DEF CommitRun
<1>3. new \in [Numbers(k) -> Nat] /\ \A n \in Numbers(k) : new[n] = ran[k][n] + IF n \in built THEN Length ELSE 0
  BY <1>1
<1>4. new \in [Migrations -> Nat] \union [Seeds -> Nat]
  <2> HIDE DEF new
  <2> QED
    BY <1>3 DEF Numbers
<1> HIDE DEF new
<1>5. history \in [Kinds -> SUBSET Nat] /\ ran \in [Kinds -> [Migrations -> Nat] \union [Seeds -> Nat]]
  BY DEF MigrateInv, DatabaseFits
<1> QED
  BY <1>1, <1>2, <1>3, <1>4, <1>5

\* A file a run commits was in no history before, and the initial migration is either
\* built on an empty schema or adopted from one made by hand.
LEMMA CommitApplies ==
  ASSUME MigrateInv, NEW r \in Runners, CommitRun(r)
  PROVE  AppliedOnce'
<1> DEFINE k == run[r].kind
           Adopted(j, n) == j = "migrate" /\ n = 1 /\ "checked" \in byHand
<1>0. UNCHANGED byHand /\ RunnerFits(run[r]) /\ Length \in Nat
  BY RunnerFacts DEF CommitRun
<1>1. \A j \in Kinds : \A n \in Numbers(j) : ran[j][n] = IF n \in history[j] /\ ~Adopted(j, n) THEN Length ELSE 0
  BY DEF MigrateInv, DatabaseFits, AppliedOnce
<1>2. ASSUME NEW j \in Kinds, NEW n \in Numbers(j)
      PROVE  ran'[j][n] = IF n \in history'[j] /\ ~Adopted(j, n) THEN Length ELSE 0
  <2>1. CASE j # k
    BY <1>1, <2>1, CommitFacts
  <2>2. CASE j = k /\ n \notin run[r].wrote
    BY <1>0, <1>1, <2>2, CommitFacts
  <2>3. CASE j = k /\ n \in run[r].wrote \ run[r].existing
    <3>1. ran[k][n] = 0 /\ ~Adopted(k, n)
      BY <1>0, <1>1, <2>3 DEF RunnerFits, BuildsOnEmpty, INITIAL_MIGRATION
    <3> QED
      BY <1>0, <2>3, <3>1, CommitFacts
  <2>4. CASE j = k /\ n \in run[r].wrote \intersect run[r].existing
    <3>1. ran[k][n] = 0 /\ Adopted(k, n)
      BY <1>0, <1>1, <2>4 DEF RunnerFits, AdoptsByHand, INITIAL_MIGRATION
    <3> QED
      BY <2>4, <3>1, CommitFacts
  <2> QED
    BY <2>1, <2>2, <2>3, <2>4
<1> QED
  BY <1>0, <1>2 DEF AppliedOnce

\* A schema that is there stays there.
LEMMA CommitKeepsSchema ==
  ASSUME MigrateInv, NEW r \in Runners, CommitRun(r), SchemaThere
  PROVE  SchemaThere'
<1>1. INITIAL_MIGRATION \in Numbers("migrate") /\ "migrate" \in Kinds /\ Length \in Nat
  BY MigrationsAssumption DEF INITIAL_MIGRATION, Numbers, Kinds
<1>2. ran["migrate"][INITIAL_MIGRATION] \in Nat
  BY <1>1 DEF MigrateInv, DatabaseFits
<1> QED
  BY <1>1, <1>2, CommitFacts DEF SchemaThere, CommitRun

LEMMA CommitKeeps ==
  ASSUME MigrateInv, NEW r \in Runners, CommitRun(r)
  PROVE  MigrateInv'
<1> DEFINE k == run[r].kind
<1> PICK x : x = IF run[r].action = "all" /\ k = "migrate" THEN Beginning("all", "seed") ELSE IdleRunner
  OBVIOUS
<1>0. run' = [run EXCEPT ![r] = x] /\ UNCHANGED <<byHand, files, runs>> /\ created' = created \union {k}
  BY DEF CommitRun
<1>1. RunnerFits(run[r]) /\ k \in Kinds /\ Length \in Nat /\ Length > 0
  BY RunnerFacts
<1>2. AppliedOnce'
  BY CommitApplies
<1>3. SeedsHaveTables'
  <2>1. SchemaThere' => "checked" \in byHand' \/ ran'["migrate"][1] = Length
    <3>1. 1 \in Numbers("migrate") /\ "migrate" \in Kinds
      BY MigrationsAssumption DEF Numbers, Kinds
    <3> QED
      BY <1>1, <1>2, <3>1 DEF SchemaThere, AppliedOnce, INITIAL_MIGRATION
  <2>2. history["seed"] # {} => SchemaThere
    BY <1>1 DEF MigrateInv, DatabaseFits, SeedsHaveTables, SchemaThere, INITIAL_MIGRATION
  <2>3. history'["seed"] # {} => history["seed"] # {} \/ (k = "seed" /\ run[r].wrote # {})
    BY <1>1, CommitFacts DEF Kinds
  <2>4. history'["seed"] # {} => SchemaThere
    BY <1>1, <2>2, <2>3 DEF RunnerFits, SeedsIntoSchema
  <2> QED
    BY <2>1, <2>4, CommitKeepsSchema DEF SeedsHaveTables
<1>4. DatabaseFits'
  <2>1. \A j \in Kinds : /\ files'[j] \subseteq Numbers(j) /\ history'[j] \subseteq Numbers(j)
                         /\ ran'[j] \in [Numbers(j) -> Nat]
    <3> TAKE j \in Kinds
    <3>1. files[j] \subseteq Numbers(j) /\ history[j] \subseteq Numbers(j) /\ ran[j] \in [Numbers(j) -> Nat]
      BY DEF MigrateInv, DatabaseFits
    <3>2. run[r].wrote \subseteq Numbers(k)
      BY <1>1 DEF RunnerFits
    <3> QED
      BY <1>0, <3>1, <3>2, CommitFacts
  <2>2. history' \in [Kinds -> SUBSET Nat] /\ ran' \in [Kinds -> [Migrations -> Nat] \union [Seeds -> Nat]]
    BY CommitFacts
  <2> QED
    BY <1>0, <1>1, <1>2, <1>3, <2>1, <2>2 DEF MigrateInv, DatabaseFits
<1>5. RunnerFits(x) /\ \A y : Apart(y, x)
  <2>1. "all" \in Actions /\ "seed" \in Kinds
    BY DEF Actions, Kinds
  <2> QED
    BY <2>1, NothingFits
<1>6. \A y : /\ RunnerFits(y)
             /\ y.kind = k => y.wrote \intersect run[r].wrote = {}
             => RunnerFits(y)'
  <2> TAKE y
  <2> SUFFICES ASSUME RunnerFits(y), Apart(y, run[r])
               PROVE  RunnerFits(y)'
    BY DEF Apart
  <2>1. y.kind \in Kinds
    BY DEF RunnerFits, RunnerStates
  <2>2. history[y.kind] \subseteq history'[y.kind] /\ y.wrote \intersect history'[y.kind] = {}
    BY <2>1, CommitFacts DEF RunnerFits, Apart
  <2>3. SchemaThere => SchemaThere'
    BY CommitKeepsSchema
  <2> QED
    BY <1>0, <2>2, <2>3 DEF RunnerFits, StagesFit, LoopFits, AdoptsByHand, BuildsOnEmpty, SeedsIntoSchema
<1>7. RunnersFit'
  <2>1. /\ run \in [Runners -> RunnerStates] /\ \A q \in Runners : RunnerFits(run[q])
        /\ \A p, q \in Runners : p # q => Apart(run[p], run[q])
    BY DEF MigrateInv, RunnersFit
  <2>2. run' \in [Runners -> RunnerStates] /\ \A q \in Runners : run'[q] = IF q = r THEN x ELSE run[q]
    BY <1>0, <1>5, <2>1 DEF RunnerFits
  <2>3. RunnerFits(x)'
    <3>1. x.wrote = {}
      BY DEF IdleRunner, Beginning
    <3> QED
      BY <1>5, <1>6, <3>1
  <2>4. \A q \in Runners : RunnerFits(run[q])'
    BY <1>6, <2>1, <2>2, <2>3 DEF Apart
  <2>5. \A p, q \in Runners : p # q => Apart(run'[p], run'[q])
    BY <1>5, <2>1, <2>2 DEF Apart
  <2> QED
    BY <2>2, <2>4, <2>5 DEF RunnersFit
<1> QED
  BY <1>4, <1>7 DEF MigrateInv

-----------------------------------------------------------------------------

LEMMA MigrateStart == MigrateInit => MigrateInv
<1> SUFFICES ASSUME MigrateInit PROVE MigrateInv
  OBVIOUS
<1>1. DatabaseFits
  <2>1. /\ files \in [Kinds -> SUBSET Nat] /\ history \in [Kinds -> SUBSET Nat]
        /\ \A k \in Kinds : files[k] \subseteq Numbers(k) /\ history[k] = {}
    BY MigrationsAssumption DEF MigrateInit, Numbers
  <2>2. \A k \in Kinds : ran[k] \in [Numbers(k) -> Nat] /\ \A n \in Numbers(k) : ran[k][n] = 0
    BY DEF MigrateInit
  <2>3. ran \in [Kinds -> [Migrations -> Nat] \union [Seeds -> Nat]]
    BY DEF MigrateInit, Numbers
  <2>4. AppliedOnce /\ SeedsHaveTables
    BY <2>1, <2>2 DEF AppliedOnce, SeedsHaveTables, Kinds
  <2> QED
    BY <2>1, <2>2, <2>3, <2>4, MigrationsAssumption DEF MigrateInit, DatabaseFits
<1>2. RunnerFits(IdleRunner) /\ IdleRunner \in RunnerStates /\ IdleRunner.wrote = {}
  BY MigrationsAssumption DEF RunnerFits, StagesFit, LoopFits, AdoptsByHand, BuildsOnEmpty, SeedsIntoSchema,
     IdleRunner, RunnerStates, Actions, Kinds
<1>3. RunnersFit
  <2>1. \A r \in Runners : run[r] = IdleRunner
    BY DEF MigrateInit
  <2>2. run \in [Runners -> RunnerStates]
    BY <1>2 DEF MigrateInit
  <2> QED
    BY <1>2, <2>1, <2>2 DEF RunnersFit, Apart
<1> QED
  BY <1>1, <1>3 DEF MigrateInv

LEMMA MigrateKeeps ==
  ASSUME MigrateInv, [MigrateNext]_migrateVars
  PROVE  MigrateInv'
<1>1. CASE UNCHANGED migrateVars
  BY <1>1 DEF migrateVars, MigrateInv, DatabaseFits, AppliedOnce, SeedsHaveTables, RunnersFit, RunnerFits,
     StagesFit, LoopFits, AdoptsByHand, BuildsOnEmpty, SeedsIntoSchema, SchemaThere
<1>2. ASSUME NEW r \in Runners, Crash(r) \/ BeginRefused(r)
      PROVE  MigrateInv'
  BY <1>2, FailKeeps DEF Crash, BeginRefused
<1>3. ASSUME NEW r \in Runners, RunnerStep(r)
      PROVE  MigrateInv'
  BY <1>2, <1>3, BeginKeeps, AdoptKeeps, NoAdoptionKeeps, StatementKeeps, RecordKeeps, CommitKeeps DEF RunnerStep
<1> QED
  BY <1>1, <1>2, <1>3, StartKeeps, DeployKeeps DEF MigrateNext

\* A run only ever deals with files of its kind; a statement count never passes the
\* end of a file.
THEOREM MigrateTypeCorrect == MigrateSpec => []MigrateTypeOK
<1>1. MigrateInv => MigrateTypeOK
  BY DEF MigrateInv, DatabaseFits, RunnersFit, RunnerFits, MigrateTypeOK
<1> QED
  BY <1>1, MigrateStart, MigrateKeeps, PTL DEF MigrateSpec

\* mmbot-db, for any runs at the same time and any of them dying anywhere: a file is
\* recorded exactly when all of its statements took effect, once; seeds go into a
\* schema that is there; no file a run has listed is skipped.
THEOREM MigrationsWholeTheorem == MigrateSpec => []MigrationsWhole
<1>1. MigrateInv => NothingSkipped
  BY DEF MigrateInv, RunnersFit, RunnerFits, LoopFits, NothingSkipped
<1>2. MigrateInv => MigrationsWhole
  BY <1>1 DEF MigrateInv, DatabaseFits, MigrationsWhole
<1> QED
  BY <1>2, MigrateStart, MigrateKeeps, PTL DEF MigrateSpec

-----------------------------------------------------------------------------
(* Runtime configuration: ConfigPublication. *)

ConfigValues == {Default} \union UNION {{o[f] : f \in DOMAIN o} : o \in Overlays}
DomainConfigs == [Fields -> ConfigValues]
WholeConfigs == [Domains -> DomainConfigs]
ConfigTable == [domain : Domains, version : Nat \ {0}, config : DomainConfigs, by : Updates]

Holding == {"config", "publish", "commit"}
Numbered == {"flush"} \union Holding

RequestStates == [pc : {"version", "done", "failed"} \union Numbered, domain : Domains, overlay : Overlays,
             config : DomainConfigs, version : Nat, row : SUBSET ConfigTable, runtime : WholeConfigs,
             channel : 1..4, alone : BOOLEAN, heard : SUBSET Engines, told : SUBSET Engines]

EngineStates == [status : {"down", "booted", "up"}, inbox : Seq(WholeConfigs), config : WholeConfigs]

ConfigTypes ==
  /\ configRows \subseteq ConfigTable
  /\ DOMAIN req \subseteq Updates /\ req \in [DOMAIN req -> RequestStates]
  /\ engine \in [Engines -> EngineStates]
  /\ drift \subseteq Engines

\* The row an update in state q inserts.
RowOf(r, q) == [domain |-> q.domain, version |-> q.version, config |-> q.config, by |-> r]

\* The version before n is there.
Follows(seen, d, n) == n > 1 => \E y \in seen : y.domain = d /\ y.version = n - 1

\* A request between its insert and its commit has one uncommitted row, of a version
\* whose predecessor is committed.
RowsHeld ==
  \A r \in DOMAIN req :
    /\ req[r].row = IF req[r].pc \in Holding THEN {RowOf(r, req[r])} ELSE {}
    /\ req[r].pc \in Numbered => req[r].version >= 1 /\ Follows(configRows, req[r].domain, req[r].version)

SamePlace(q, d, n) == q.domain = d /\ q.version = n

\* No version is in two hands: not committed and inserted, and not inserted twice.
KeysHeld ==
  \A r \in DOMAIN req : req[r].pc \in Holding =>
    /\ \A x \in configRows : ~SamePlace(x, req[r].domain, req[r].version)
    /\ \A q \in DOMAIN req \ {r} : req[q].pc \in Holding => ~SamePlace(req[q], req[r].domain, req[r].version)

\* Committed versions have no gap, and are those of requests that are done.
TableWhole ==
  \A x \in configRows :
    /\ Follows(configRows, x.domain, x.version)
    /\ x.by \in DOMAIN req /\ req[x.by].pc = "done"

TableInv == ConfigTypes /\ RowsHeld /\ KeysHeld /\ TableWhole /\ VersionsUnique /\ UpdatesBuildOnPredecessor

\* What a request that is alone has read is still so.
AloneReads ==
  \A r \in InFlight : req[r].alone =>
    /\ InFlight = {r}
    /\ req[r].config = EffectiveDomainConfig(configRows, req[r].domain, req[r].overlay)
    /\ req[r].pc # "version" => req[r].version = NextVersion(configRows, req[r].domain)
    /\ req[r].pc \in {"publish", "commit"} => req[r].runtime = RuntimeConfig(configRows \union req[r].row)

\* What an engine runs once it has consumed its inbox.
Final(en) == IF en.inbox = <<>> THEN en.config ELSE en.inbox[Len(en.inbox)]

\* The domains an engine takes from a configuration.
Settings(e) == IF e = "market-maker-engine" THEN Domains ELSE {"liquidity"}

WillRun(e, en, whole) == \A d \in Settings(e) : Final(en)[d] = whole[d]

\* An engine that is not adrift and was told nothing uncommitted will run what is stored.
UntoldRunStored ==
  \A e \in Engines \ drift :
    engine[e].status # "down" /\ (\A r \in InFlight : e \notin req[r].told) =>
      WillRun(e, engine[e], RuntimeConfig(configRows))

\* One that a lone request told will run what that request read.
ToldRunNew ==
  \A r \in InFlight :
    /\ req[r].pc \notin {"publish", "commit"} => req[r].told = {} /\ req[r].channel = 1
    /\ req[r].alone => \A e \in req[r].told : engine[e].status = "up" /\ WillRun(e, engine[e], req[r].runtime)

\* The channels a request has published on.
Passed(q) == {i \in 1..4 : i < q.channel \/ q.pc = "commit"}

\* An engine that missed nothing and was told nothing is on none of them.
UntoldNotConcerned ==
  \A r \in InFlight : \A e \in req[r].heard \ req[r].told : \A i \in Passed(req[r]) :
    e \notin Channels(req[r].domain)[i]

EnginesInv == AloneReads /\ UntoldRunStored /\ ToldRunNew /\ UntoldNotConcerned

ConfigInv == TableInv /\ EnginesInv

-----------------------------------------------------------------------------
(* Merging and versions. *)

\* What an operator sends, or nothing.
PartialConfigs == Overlays \union {<<>>}

LEMMA PartialTyped ==
  ASSUME NEW overlay \in PartialConfigs
  PROVE  DOMAIN overlay \subseteq Fields /\ \A f \in DOMAIN overlay : overlay[f] \in ConfigValues
<1>1. CASE overlay = <<>>
  <2>1. DOMAIN <<>> = {}
    OBVIOUS
  <2> QED BY <1>1, <2>1
<1>2. CASE overlay \in Overlays
  <2>1. DOMAIN overlay \subseteq Fields
    BY <1>2, ConfigAssumption
  <2>2. ASSUME NEW f \in DOMAIN overlay PROVE overlay[f] \in ConfigValues
    <3>1. overlay[f] \in {overlay[g] : g \in DOMAIN overlay}
      OBVIOUS
    <3>2. {overlay[g] : g \in DOMAIN overlay} \in {{o[g] : g \in DOMAIN o} : o \in Overlays}
      BY <1>2
    <3> QED BY <3>1, <3>2 DEF ConfigValues
  <2> QED BY <2>1, <2>2
<1> QED BY <1>1, <1>2 DEF PartialConfigs

LEMMA MergeTyped ==
  ASSUME NEW base \in DomainConfigs, NEW overlay, DOMAIN overlay \subseteq Fields,
         \A f \in DOMAIN overlay : overlay[f] \in ConfigValues
  PROVE  /\ DeepMerge(base, overlay) \in DomainConfigs
         /\ \A f \in Fields : DeepMerge(base, overlay)[f] = IF f \in DOMAIN overlay THEN overlay[f] ELSE base[f]
<1>1. DOMAIN base = Fields /\ \A f \in Fields : base[f] \in ConfigValues
  BY DEF DomainConfigs
<1>2. DOMAIN base \cup DOMAIN overlay = Fields
  BY <1>1
<1> QED BY <1>1, <1>2 DEF DeepMerge, DomainConfigs

LEMMA DefaultTyped == DefaultConfig \in WholeConfigs /\ \A d \in Domains : DefaultConfig[d] \in DomainConfigs
BY DEF DefaultConfig, WholeConfigs, DomainConfigs, ConfigValues

\* effective_domain_config: the overlay's fields, then those of the latest version.
LEMMA EffectiveTyped ==
  ASSUME NEW seen \in SUBSET ConfigTable, NEW d \in Domains, NEW overlay \in PartialConfigs
  PROVE  /\ EffectiveDomainConfig(seen, d, overlay) \in DomainConfigs
         /\ \A f \in Fields : EffectiveDomainConfig(seen, d, overlay)[f] =
              IF f \in DOMAIN overlay THEN overlay[f]
              ELSE IF GetLatest(seen, d) = {} THEN Default
              ELSE (CHOOSE x \in GetLatest(seen, d) : TRUE).config[f]
<1> DEFINE stored == GetLatest(seen, d)
           last == CHOOSE x \in stored : TRUE
           base == IF stored = {} THEN DefaultConfig[d] ELSE DeepMerge(DefaultConfig[d], last.config)
<1>1. EffectiveDomainConfig(seen, d, overlay) = DeepMerge(base, overlay)
  BY DEF EffectiveDomainConfig
<1>2. base \in DomainConfigs /\ \A f \in Fields : base[f] = IF stored = {} THEN Default ELSE last.config[f]
  <2>1. CASE stored = {}
    <3>1. DefaultConfig[d] \in DomainConfigs /\ \A f \in Fields : DefaultConfig[d][f] = Default
      BY DefaultTyped DEF DefaultConfig
    <3> QED BY <3>1, <2>1
  <2>2. CASE stored # {}
    <3>1. last \in ConfigTable
      BY <2>2 DEF GetLatest
    <3>2. last.config \in DomainConfigs
      BY <3>1 DEF ConfigTable
    <3> HIDE DEF last, stored
    <3>3. DOMAIN last.config = Fields /\ \A f \in Fields : last.config[f] \in ConfigValues
      BY <3>2 DEF DomainConfigs
    <3>4. /\ DeepMerge(DefaultConfig[d], last.config) \in DomainConfigs
          /\ \A f \in Fields : DeepMerge(DefaultConfig[d], last.config)[f] = last.config[f]
      BY <3>3, MergeTyped, DefaultTyped
    <3> QED BY <3>4, <2>2
  <2> QED BY <2>1, <2>2
<1> HIDE DEF base
<1>3. /\ DeepMerge(base, overlay) \in DomainConfigs
      /\ \A f \in Fields : DeepMerge(base, overlay)[f] = IF f \in DOMAIN overlay THEN overlay[f] ELSE base[f]
  BY <1>2, MergeTyped, PartialTyped
<1> QED BY <1>1, <1>2, <1>3

LEMMA RuntimeTyped ==
  ASSUME NEW seen \in SUBSET ConfigTable
  PROVE  RuntimeConfig(seen) \in WholeConfigs
<1>1. \A d \in Domains : EffectiveDomainConfig(seen, d, <<>>) \in DomainConfigs
  BY EffectiveTyped DEF PartialConfigs
<1> QED BY <1>1 DEF RuntimeConfig, WholeConfigs

\* effective_domain_config, of the latest version.
EffectiveOver(stored, d, overlay) ==
  LET base == IF stored = {} THEN DefaultConfig[d]
              ELSE DeepMerge(DefaultConfig[d], (CHOOSE x \in stored : TRUE).config)
  IN  DeepMerge(base, overlay)

\* A row of another domain changes nothing.
LEMMA OtherDomain ==
  ASSUME NEW seen, NEW x, NEW d \in Domains, x.domain # d
  PROVE  RuntimeConfig(seen \union {x})[d] = RuntimeConfig(seen)[d]
<1>1. GetLatest(seen \union {x}, d) = GetLatest(seen, d)
  BY DEF GetLatest
<1>2. EffectiveDomainConfig(seen \union {x}, d, <<>>) = EffectiveDomainConfig(seen, d, <<>>)
  <2>1. \A some : EffectiveDomainConfig(some, d, <<>>) = EffectiveOver(GetLatest(some, d), d, <<>>)
    BY DEF EffectiveDomainConfig, EffectiveOver
  <2> QED BY <1>1, <2>1, Zenon
<1>3. \A some : RuntimeConfig(some)[d] = EffectiveDomainConfig(some, d, <<>>)
  BY DEF RuntimeConfig
<1> QED BY <1>2, <1>3, Zenon

LEMMA NextVersionAfter ==
  ASSUME NEW seen \in SUBSET ConfigTable, NEW d \in Domains
  PROVE  /\ GetLatest(seen, d) = {} => NextVersion(seen, d) = 1
         /\ \A x \in GetLatest(seen, d) : NextVersion(seen, d) = x.version + 1
<1> DEFINE S == {0} \cup {x.version : x \in GetLatest(seen, d)}
<1>1. CASE GetLatest(seen, d) = {}
  <2>1. S = {0}
    BY <1>1
  <2>2. Max({0}) = 0
    BY DEF Max
  <2> QED BY <1>1, <2>1, <2>2 DEF NextVersion
<1>2. ASSUME NEW x \in GetLatest(seen, d) PROVE NextVersion(seen, d) = x.version + 1
  <2>1. x.version \in Nat \ {0} /\ x \in ConfigTable
    BY DEF GetLatest, ConfigTable
  <2>2. \A y \in GetLatest(seen, d) : y.version = x.version
    BY DEF GetLatest, ConfigTable
  <2>3. S = {0, x.version}
    BY <2>2
  <2>4. Max({0, x.version}) = x.version
    BY <2>1 DEF Max
  <2>5. NextVersion(seen, d) = 1 + Max(S)
    BY DEF NextVersion
  <2>6. Max(S) = x.version
    BY <2>3, <2>4, Zenon
  <2> HIDE DEF S
  <2> QED BY <2>1, <2>5, <2>6
<1> QED BY <1>1, <1>2

LEMMA NextVersionTyped ==
  ASSUME NEW seen \in SUBSET ConfigTable, NEW d \in Domains
  PROVE  NextVersion(seen, d) \in Nat \ {0} /\ Follows(seen, d, NextVersion(seen, d))
<1>1. CASE GetLatest(seen, d) = {}
  BY <1>1, NextVersionAfter DEF Follows
<1>2. ASSUME NEW x \in GetLatest(seen, d) PROVE NextVersion(seen, d) \in Nat \ {0} /\ Follows(seen, d, NextVersion(seen, d))
  <2>1. x \in seen /\ x.domain = d /\ x.version \in Nat \ {0}
    BY DEF GetLatest, ConfigTable
  <2>2. NextVersion(seen, d) = x.version + 1
    BY NextVersionAfter
  <2> QED BY <2>1, <2>2 DEF Follows
<1> QED BY <1>1, <1>2

-----------------------------------------------------------------------------
(* The table. *)

\* A request goes from one state to another, and nothing is committed.
LEMMA MoveKeepsTable ==
  ASSUME TableInv, NEW r \in DOMAIN req, req[r].pc # "done", NEW q \in RequestStates, req' = [req EXCEPT ![r] = q],
         configRows' = configRows, engine' \in [Engines -> EngineStates], drift' \subseteq Engines,
         q.row = IF q.pc \in Holding THEN {RowOf(r, q)} ELSE {},
         q.pc \in Numbered => q.version >= 1 /\ Follows(configRows, q.domain, q.version),
         q.pc \in Holding =>
           /\ \A x \in configRows : ~SamePlace(x, q.domain, q.version)
           /\ \A p \in DOMAIN req \ {r} : req[p].pc \in Holding => ~SamePlace(req[p], q.domain, q.version)
  PROVE  TableInv'
<1>1. DOMAIN req' = DOMAIN req /\ req'[r] = q /\ \A p \in DOMAIN req \ {r} : req'[p] = req[p]
  OBVIOUS
<1>2. ConfigTypes'
  BY <1>1 DEF TableInv, ConfigTypes
<1>3. RowsHeld'
  BY <1>1 DEF TableInv, RowsHeld
<1>4. KeysHeld'
  <2> SUFFICES ASSUME NEW p \in DOMAIN req, req'[p].pc \in Holding
               PROVE  /\ \A x \in configRows : ~SamePlace(x, req'[p].domain, req'[p].version)
                      /\ \A s \in DOMAIN req \ {p} : req'[s].pc \in Holding => ~SamePlace(req'[s], req'[p].domain, req'[p].version)
    BY <1>1 DEF KeysHeld
  <2>1. CASE p = r
    BY <2>1, <1>1 DEF TableInv, KeysHeld
  <2>2. CASE p # r
    BY <2>2, <1>1 DEF TableInv, KeysHeld, SamePlace
  <2> QED BY <2>1, <2>2
<1>5. \A x \in configRows : x.by \in DOMAIN req /\ req[x.by].pc = "done" /\ req'[x.by] = req[x.by]
  BY <1>1 DEF TableInv, TableWhole
<1>6. TableWhole' /\ UpdatesBuildOnPredecessor'
  BY <1>1, <1>5 DEF TableInv, TableWhole, UpdatesBuildOnPredecessor
<1> QED BY <1>2, <1>3, <1>4, <1>6 DEF TableInv, VersionsUnique

\* The same, for a request that keeps the row it has, or none.
LEMMA StayKeepsTable ==
  ASSUME TableInv, NEW r \in DOMAIN req, NEW q \in RequestStates, req' = [req EXCEPT ![r] = q],
         configRows' = configRows, engine' \in [Engines -> EngineStates], drift' \subseteq Engines,
         req[r].pc \in Holding, q.pc \in Holding \union {"failed"},
         q.domain = req[r].domain, q.version = req[r].version, q.config = req[r].config,
         q.row = IF q.pc \in Holding THEN req[r].row ELSE {}
  PROVE  TableInv'
<1>1. req[r].row = {RowOf(r, req[r])} /\ req[r].version >= 1 /\ Follows(configRows, req[r].domain, req[r].version)
  BY DEF TableInv, RowsHeld, Numbered
<1>2. RowOf(r, q) = RowOf(r, req[r])
  BY DEF RowOf
<1>3. /\ \A x \in configRows : ~SamePlace(x, q.domain, q.version)
      /\ \A p \in DOMAIN req \ {r} : req[p].pc \in Holding => ~SamePlace(req[p], q.domain, q.version)
  BY DEF TableInv, KeysHeld
<1>4. req[r].pc # "done"
  BY DEF Holding
<1> QED BY <1>1, <1>2, <1>3, <1>4, MoveKeepsTable

\* A step of an engine, or a stop of one: requests keep all but whom they told.
LEMMA EngineStepKeepsTable ==
  ASSUME TableInv, configRows' = configRows, engine' \in [Engines -> EngineStates], drift' \subseteq Engines,
         DOMAIN req' = DOMAIN req, req' \in [DOMAIN req -> RequestStates],
         \A r \in DOMAIN req : /\ req'[r].pc = req[r].pc /\ req'[r].domain = req[r].domain
                               /\ req'[r].overlay = req[r].overlay /\ req'[r].config = req[r].config
                               /\ req'[r].version = req[r].version /\ req'[r].row = req[r].row
                               /\ req'[r].alone = req[r].alone
  PROVE  TableInv'
<1>1. ConfigTypes'
  BY DEF TableInv, ConfigTypes
<1>2. RowsHeld'
  <2>1. \A r \in DOMAIN req : RowOf(r, req'[r]) = RowOf(r, req[r])
    BY DEF RowOf
  <2> QED BY <2>1 DEF TableInv, RowsHeld
<1>3. KeysHeld'
  BY DEF TableInv, KeysHeld, SamePlace
<1>4. \A x \in configRows : x.by \in DOMAIN req
  BY DEF TableInv, TableWhole
<1>5. TableWhole' /\ UpdatesBuildOnPredecessor'
  BY <1>4 DEF TableInv, TableWhole, UpdatesBuildOnPredecessor
<1> QED BY <1>1, <1>2, <1>3, <1>5 DEF TableInv, VersionsUnique

LEMMA BeginKeepsTable ==
  ASSUME TableInv, NEW r \in Updates, NEW d \in Domains, NEW overlay \in Overlays, BeginUpdate(r, d, overlay)
  PROVE  TableInv'
<1> DEFINE merged == EffectiveDomainConfig(configRows, d, overlay)
           begun == [pc |-> IF Validated(merged) THEN "version" ELSE "failed",
                     domain |-> d, overlay |-> overlay, config |-> merged,
                     version |-> 0, row |-> {}, runtime |-> DefaultConfig,
                     channel |-> 1, alone |-> InFlight = {}, heard |-> Engines, told |-> {}]
<1>1. /\ req' = [q \in DOMAIN req \cup {r} |->
                   IF q = r THEN begun
                   ELSE IF q \in InFlight THEN [req[q] EXCEPT !.alone = FALSE] ELSE req[q]]
      /\ r \notin DOMAIN req /\ UNCHANGED <<configRows, engine, drift>>
  BY DEF BeginUpdate
<1>2. begun \in RequestStates
  <2>1. merged \in DomainConfigs
    BY EffectiveTyped DEF TableInv, ConfigTypes, PartialConfigs
  <2>2. (InFlight = {}) \in BOOLEAN
    BY Zenon
  <2>3. (IF Validated(merged) THEN "version" ELSE "failed") \in {"version", "failed"}
    BY Zenon
  <2> HIDE DEF merged
  <2> QED BY <2>1, <2>2, <2>3, DefaultTyped DEF RequestStates
<1>3. /\ DOMAIN req' = DOMAIN req \cup {r} /\ req'[r] = begun
      /\ \A q \in DOMAIN req : req'[q] = IF q \in InFlight THEN [req[q] EXCEPT !.alone = FALSE] ELSE req[q]
  BY <1>1
<1>4. begun.pc \notin Numbered \union {"done"} /\ begun.row = {}
  BY DEF Numbered, Holding
<1> HIDE DEF begun
<1>5. ASSUME NEW q \in DOMAIN req
      PROVE  /\ req'[q] \in RequestStates
             /\ req'[q].pc = req[q].pc /\ req'[q].domain = req[q].domain
             /\ req'[q].overlay = req[q].overlay /\ req'[q].config = req[q].config
             /\ req'[q].version = req[q].version /\ req'[q].row = req[q].row
             /\ req'[q].alone => req[q].alone
  <2>1. req[q] \in RequestStates
    BY DEF TableInv, ConfigTypes
  <2>2. CASE q \in InFlight
    <3>1. req'[q] = [req[q] EXCEPT !.alone = FALSE]
      BY <2>2, <1>3
    <3> QED BY <2>1, <3>1 DEF RequestStates
  <2>3. CASE q \notin InFlight
    BY <2>1, <2>3, <1>3
  <2> QED BY <2>2, <2>3
<1>6. ConfigTypes'
  <2>1. \A q \in DOMAIN req' : req'[q] \in RequestStates
    BY <1>2, <1>3, <1>5
  <2>2. req' = [q \in DOMAIN req' |-> req'[q]]
    BY <1>1
  <2> QED BY <2>1, <2>2, <1>1, <1>3 DEF TableInv, ConfigTypes
<1>7. RowsHeld'
  <2>1. ASSUME NEW q \in DOMAIN req'
        PROVE  /\ req'[q].row = IF req'[q].pc \in Holding THEN {RowOf(q, req'[q])} ELSE {}
               /\ req'[q].pc \in Numbered => req'[q].version >= 1 /\ Follows(configRows, req'[q].domain, req'[q].version)
    <3>1. CASE q = r
      BY <3>1, <1>3, <1>4 DEF Numbered
    <3>2. CASE q # r
      <4>1. q \in DOMAIN req /\ RowOf(q, req'[q]) = RowOf(q, req[q])
        BY <3>2, <1>3, <1>5 DEF RowOf
      <4> QED BY <4>1, <1>5 DEF TableInv, RowsHeld
    <3> QED BY <3>1, <3>2
  <2> QED BY <2>1, <1>1 DEF RowsHeld
<1>8. KeysHeld'
  <2>1. \A q \in DOMAIN req' : req'[q].pc \in Holding => q \in DOMAIN req
    BY <1>3, <1>4 DEF Numbered
  <2> SUFFICES ASSUME NEW p \in DOMAIN req', req'[p].pc \in Holding
               PROVE  /\ \A x \in configRows : ~SamePlace(x, req'[p].domain, req'[p].version)
                      /\ \A q \in DOMAIN req' \ {p} : req'[q].pc \in Holding => ~SamePlace(req'[q], req'[p].domain, req'[p].version)
    BY <1>1 DEF KeysHeld
  <2>2. p \in DOMAIN req /\ req[p].pc \in Holding /\ req'[p].domain = req[p].domain /\ req'[p].version = req[p].version
    BY <2>1, <1>5
  <2>3. ASSUME NEW q \in DOMAIN req' \ {p}, req'[q].pc \in Holding
        PROVE  ~SamePlace(req'[q], req'[p].domain, req'[p].version)
    <3>1. q \in DOMAIN req \ {p} /\ req[q].pc \in Holding /\ req'[q].domain = req[q].domain /\ req'[q].version = req[q].version
      BY <2>1, <2>3, <1>5
    <3> QED BY <2>2, <3>1 DEF TableInv, KeysHeld, SamePlace
  <2> QED BY <2>2, <2>3 DEF TableInv, KeysHeld
<1>9. \A x \in configRows : x.by \in DOMAIN req
  BY DEF TableInv, TableWhole
<1>10. TableWhole'
  BY <1>1, <1>3, <1>5, <1>9 DEF TableInv, TableWhole
<1>11. UpdatesBuildOnPredecessor'
  BY <1>1, <1>5, <1>9 DEF TableInv, UpdatesBuildOnPredecessor
<1> QED BY <1>1, <1>6, <1>7, <1>8, <1>10, <1>11 DEF TableInv, VersionsUnique

\* The state of a request after each of its steps.
LEMMA ReadVersionMoves ==
  ASSUME TableInv, NEW r \in DOMAIN req, ReadVersion(r)
  PROVE  \E q \in RequestStates :
           /\ req' = [req EXCEPT ![r] = q] /\ q.pc = "flush" /\ q.version = NextVersion(configRows, req[r].domain)
           /\ q.domain = req[r].domain /\ q.overlay = req[r].overlay /\ q.config = req[r].config
           /\ q.row = req[r].row /\ q.alone = req[r].alone /\ q.told = req[r].told /\ q.heard = req[r].heard
           /\ q.channel = req[r].channel
<1> DEFINE q == [req[r] EXCEPT !.pc = "flush", !.version = NextVersion(configRows, req[r].domain)]
<1>1. req[r] \in RequestStates /\ configRows \in SUBSET ConfigTable
  BY DEF TableInv, ConfigTypes
<1>2. NextVersion(configRows, req[r].domain) \in Nat
  BY <1>1, NextVersionTyped DEF RequestStates
<1>3. req' = [req EXCEPT ![r] = q]
  BY <1>1 DEF ReadVersion, RequestStates
<1>4. /\ q \in RequestStates /\ q.pc = "flush" /\ q.version = NextVersion(configRows, req[r].domain)
      /\ q.domain = req[r].domain /\ q.overlay = req[r].overlay /\ q.config = req[r].config
      /\ q.row = req[r].row /\ q.alone = req[r].alone /\ q.told = req[r].told /\ q.heard = req[r].heard
      /\ q.channel = req[r].channel
  BY <1>1, <1>2 DEF RequestStates, Numbered
<1> QED BY <1>3, <1>4

LEMMA FlushMoves ==
  ASSUME TableInv, NEW r \in DOMAIN req, Flush(r)
  PROVE  \E q \in RequestStates :
           /\ req' = [req EXCEPT ![r] = q] /\ q.version = req[r].version
           /\ q.domain = req[r].domain /\ q.overlay = req[r].overlay /\ q.config = req[r].config
           /\ q.alone = req[r].alone /\ q.told = req[r].told /\ q.heard = req[r].heard
           /\ q.channel = req[r].channel
           /\ \/ q.pc = "failed" /\ q.row = req[r].row
              \/ /\ q.pc = "config" /\ q.row = {RowOf(r, req[r])}
                 /\ \A x \in configRows : ~SamePlace(x, req[r].domain, req[r].version)
<1>1. req[r] \in RequestStates /\ r \in Updates
  BY DEF TableInv, ConfigTypes
<1>2. CASE \E x \in configRows : SameKey(x, r)
  <2> DEFINE q == [req[r] EXCEPT !.pc = "failed"]
  <2>1. req' = [req EXCEPT ![r] = q]
    BY <1>1, <1>2 DEF Flush, RequestStates
  <2>2. /\ q \in RequestStates /\ q.pc = "failed" /\ q.version = req[r].version
        /\ q.domain = req[r].domain /\ q.overlay = req[r].overlay /\ q.config = req[r].config
        /\ q.row = req[r].row /\ q.alone = req[r].alone /\ q.told = req[r].told /\ q.heard = req[r].heard
        /\ q.channel = req[r].channel
    BY <1>1 DEF RequestStates
  <2> QED BY <2>1, <2>2
<1>3. CASE ~ \E x \in configRows : SameKey(x, r)
  <2> DEFINE inserted == {RowOf(r, req[r])}
             q == [req[r] EXCEPT !.pc = "config", !.row = inserted]
  <2>1. req' = [req EXCEPT ![r] = q]
    BY <1>1, <1>3 DEF Flush, Inserted, RowOf, RequestStates
  <2>2. inserted \in SUBSET ConfigTable
    <3>1. req[r].version >= 1 /\ req[r].version \in Nat
      BY <1>1 DEF TableInv, RowsHeld, Flush, Numbered, RequestStates
    <3> QED BY <1>1, <3>1 DEF RowOf, ConfigTable, RequestStates
  <2>3. \A x \in configRows : ~SamePlace(x, req[r].domain, req[r].version)
    BY <1>3 DEF SameKey, SamePlace
  <2> HIDE DEF inserted
  <2>4. /\ q \in RequestStates /\ q.pc = "config" /\ q.version = req[r].version
        /\ q.domain = req[r].domain /\ q.overlay = req[r].overlay /\ q.config = req[r].config
        /\ q.row = inserted /\ q.alone = req[r].alone /\ q.told = req[r].told /\ q.heard = req[r].heard
        /\ q.channel = req[r].channel
    BY <1>1, <2>2 DEF RequestStates, Numbered, Holding
  <2> QED BY <2>1, <2>3, <2>4 DEF inserted
<1> QED BY <1>2, <1>3

LEMMA ReadRuntimeMoves ==
  ASSUME TableInv, NEW r \in DOMAIN req, ReadRuntimeConfig(r)
  PROVE  \E q \in RequestStates :
           /\ req' = [req EXCEPT ![r] = q] /\ q.pc = "publish" /\ q.version = req[r].version
           /\ q.domain = req[r].domain /\ q.overlay = req[r].overlay /\ q.config = req[r].config
           /\ q.row = req[r].row /\ q.alone = req[r].alone /\ q.told = req[r].told /\ q.heard = req[r].heard
           /\ q.channel = req[r].channel /\ q.runtime = RuntimeConfig(configRows \union req[r].row)
<1> DEFINE whole == RuntimeConfig(configRows \union req[r].row)
           q == [req[r] EXCEPT !.pc = "publish", !.runtime = whole]
<1>1. req[r] \in RequestStates /\ configRows \in SUBSET ConfigTable
  BY DEF TableInv, ConfigTypes
<1>2. whole \in WholeConfigs
  BY <1>1, RuntimeTyped DEF RequestStates
<1>3. Visible(r) = configRows \union req[r].row
  BY DEF Visible
<1>4. req' = [req EXCEPT ![r] = q]
  BY <1>1, <1>3 DEF ReadRuntimeConfig, RequestStates
<1> HIDE DEF whole
<1>5. /\ q \in RequestStates /\ q.pc = "publish" /\ q.version = req[r].version
      /\ q.domain = req[r].domain /\ q.overlay = req[r].overlay /\ q.config = req[r].config
      /\ q.row = req[r].row /\ q.alone = req[r].alone /\ q.told = req[r].told /\ q.heard = req[r].heard
      /\ q.channel = req[r].channel /\ q.runtime = whole
  BY <1>1, <1>2 DEF RequestStates, Numbered, Holding
<1> QED BY <1>4, <1>5 DEF whole

\* The engines that get a publication.
Hearers(r) == {e \in Channels(req[r].domain)[req[r].channel] : engine[e].status = "up"}

LEMMA ChannelsTyped ==
  ASSUME NEW d, NEW i \in 1..4
  PROVE  Channels(d)[i] \subseteq Engines
BY DEF Channels, Engines

LEMMA PublishMoves ==
  ASSUME TableInv, NEW r \in DOMAIN req, Publish(r)
  PROVE  \E q \in RequestStates :
           /\ req' = [req EXCEPT ![r] = q] /\ q.version = req[r].version
           /\ q.domain = req[r].domain /\ q.overlay = req[r].overlay /\ q.config = req[r].config
           /\ q.row = req[r].row /\ q.alone = req[r].alone /\ q.runtime = req[r].runtime
           /\ q.told = req[r].told \union Hearers(r)
           /\ q.heard = req[r].heard \ (Channels(req[r].domain)[req[r].channel] \ Hearers(r))
           /\ IF req[r].channel = 4 THEN q.pc = "commit" /\ q.channel = 4
              ELSE q.pc = "publish" /\ q.channel = req[r].channel + 1
<1> DEFINE audience == Channels(req[r].domain)[req[r].channel]
           newPc == IF req[r].channel = 4 THEN "commit" ELSE "publish"
           newChannel == IF req[r].channel = 4 THEN req[r].channel ELSE req[r].channel + 1
           newHeard == req[r].heard \ (audience \ Hearers(r))
           newTold == req[r].told \union Hearers(r)
           q == [req[r] EXCEPT !.pc = newPc, !.channel = newChannel, !.heard = newHeard, !.told = newTold]
<1>1. req[r] \in RequestStates
  BY DEF TableInv, ConfigTypes
<1>2. req' = [req EXCEPT ![r] = q]
  BY <1>1 DEF Publish, Hearers, RequestStates
<1>3. req[r].channel \in 1..4 /\ req[r].heard \subseteq Engines /\ req[r].told \subseteq Engines
  BY <1>1 DEF RequestStates
<1>4. Hearers(r) \subseteq Engines
  BY <1>3, ChannelsTyped DEF Hearers
<1>5. newPc \in Holding /\ newChannel \in 1..4 /\ newHeard \subseteq Engines /\ newTold \subseteq Engines
  BY <1>3, <1>4 DEF Holding
<1> HIDE DEF newPc, newChannel, newHeard, newTold
<1>6. q \in RequestStates
  BY <1>1, <1>5 DEF RequestStates, Numbered
<1>7. /\ q.version = req[r].version
      /\ q.domain = req[r].domain /\ q.overlay = req[r].overlay /\ q.config = req[r].config
      /\ q.row = req[r].row /\ q.alone = req[r].alone /\ q.runtime = req[r].runtime
      /\ q.told = newTold /\ q.heard = newHeard /\ q.pc = newPc /\ q.channel = newChannel
  BY <1>1 DEF RequestStates
<1> HIDE DEF q
<1>8. IF req[r].channel = 4 THEN q.pc = "commit" /\ q.channel = 4
      ELSE q.pc = "publish" /\ q.channel = req[r].channel + 1
  BY <1>7 DEF newPc, newChannel
<1>9. q.told = req[r].told \union Hearers(r) /\ q.heard = req[r].heard \ (audience \ Hearers(r))
  BY <1>7 DEF newHeard, newTold
<1> QED BY <1>2, <1>6, <1>7, <1>8, <1>9, Zenon

LEMMA FailMoves ==
  ASSUME TableInv, NEW r \in DOMAIN req, FailUpdate(r)
  PROVE  \E q \in RequestStates :
           /\ req' = [req EXCEPT ![r] = q] /\ q.pc = "failed" /\ q.version = req[r].version
           /\ q.domain = req[r].domain /\ q.overlay = req[r].overlay /\ q.config = req[r].config
           /\ q.row = {} /\ q.alone = req[r].alone
<1> DEFINE q == [req[r] EXCEPT !.pc = "failed", !.row = {}]
<1>1. req[r] \in RequestStates
  BY DEF TableInv, ConfigTypes
<1>2. req' = [req EXCEPT ![r] = q]
  BY <1>1 DEF FailUpdate, RequestStates
<1>3. /\ q \in RequestStates /\ q.pc = "failed" /\ q.version = req[r].version
      /\ q.domain = req[r].domain /\ q.overlay = req[r].overlay /\ q.config = req[r].config
      /\ q.row = {} /\ q.alone = req[r].alone
  BY <1>1 DEF RequestStates
<1> QED BY <1>2, <1>3

LEMMA CommitMoves ==
  ASSUME TableInv, NEW r \in DOMAIN req, Commit(r)
  PROVE  \E q \in RequestStates :
           /\ req' = [req EXCEPT ![r] = q] /\ q.pc = "done" /\ q.row = {}
           /\ q.overlay = req[r].overlay /\ q.alone = req[r].alone
<1> DEFINE q == [req[r] EXCEPT !.pc = "done", !.row = {}]
<1>1. req[r] \in RequestStates
  BY DEF TableInv, ConfigTypes
<1>2. req' = [req EXCEPT ![r] = q]
  BY <1>1 DEF Commit, RequestStates
<1>3. q \in RequestStates /\ q.pc = "done" /\ q.row = {} /\ q.overlay = req[r].overlay /\ q.alone = req[r].alone
  BY <1>1 DEF RequestStates
<1> QED BY <1>2, <1>3

LEMMA ReadVersionKeepsTable ==
  ASSUME TableInv, NEW r \in DOMAIN req, ReadVersion(r)
  PROVE  TableInv'
<1>1. PICK q \in RequestStates :
           /\ req' = [req EXCEPT ![r] = q] /\ q.pc = "flush" /\ q.version = NextVersion(configRows, req[r].domain)
           /\ q.domain = req[r].domain /\ q.row = req[r].row
  BY ReadVersionMoves
<1>2. req[r].pc = "version" /\ configRows' = configRows /\ engine' = engine /\ drift' = drift
  BY DEF ReadVersion
<1>3. req[r].row = {}
  BY <1>2 DEF TableInv, RowsHeld, Holding
<1>4. req[r].domain \in Domains /\ configRows \in SUBSET ConfigTable
  BY DEF TableInv, ConfigTypes, RequestStates
<1>5. q.version >= 1 /\ Follows(configRows, q.domain, q.version)
  BY <1>1, <1>4, NextVersionTyped
<1>6. q.pc \notin Holding
  BY <1>1 DEF Holding
<1>7. engine' \in [Engines -> EngineStates] /\ drift' \subseteq Engines
  BY <1>2 DEF TableInv, ConfigTypes
<1> QED BY <1>1, <1>2, <1>3, <1>5, <1>6, <1>7, MoveKeepsTable

LEMMA FlushKeepsTable ==
  ASSUME TableInv, NEW r \in DOMAIN req, Flush(r)
  PROVE  TableInv'
<1>1. PICK q \in RequestStates :
           /\ req' = [req EXCEPT ![r] = q] /\ q.version = req[r].version
           /\ q.domain = req[r].domain /\ q.config = req[r].config
           /\ \/ q.pc = "failed" /\ q.row = req[r].row
              \/ /\ q.pc = "config" /\ q.row = {RowOf(r, req[r])}
                 /\ \A x \in configRows : ~SamePlace(x, req[r].domain, req[r].version)
  BY FlushMoves
<1>2. /\ req[r].pc = "flush" /\ configRows' = configRows /\ engine' = engine /\ drift' = drift
      /\ \A p \in InFlight \ {r} : \A x \in req[p].row : ~SameKey(x, r)
  BY DEF Flush
<1>3. req[r].row = {} /\ req[r].version >= 1 /\ Follows(configRows, req[r].domain, req[r].version)
  BY <1>2 DEF TableInv, RowsHeld, Holding, Numbered
<1>4. engine' \in [Engines -> EngineStates] /\ drift' \subseteq Engines
  BY <1>2 DEF TableInv, ConfigTypes
<1>5. RowOf(r, q) = RowOf(r, req[r])
  BY <1>1 DEF RowOf
<1>6. ASSUME NEW p \in DOMAIN req \ {r}, req[p].pc \in Holding
      PROVE  ~SamePlace(req[p], q.domain, q.version)
  <2>1. p \in InFlight \ {r} /\ RowOf(p, req[p]) \in req[p].row
    BY <1>6 DEF InFlight, TableInv, RowsHeld, Holding
  <2>2. ~SameKey(RowOf(p, req[p]), r)
    BY <2>1, <1>2
  <2> QED BY <2>2, <1>1 DEF SameKey, SamePlace, RowOf
<1>7. q.row = IF q.pc \in Holding THEN {RowOf(r, q)} ELSE {}
  BY <1>1, <1>3, <1>5 DEF Holding
<1>8. q.pc \in Holding => \A x \in configRows : ~SamePlace(x, q.domain, q.version)
  BY <1>1 DEF Holding
<1> QED BY <1>1, <1>2, <1>3, <1>4, <1>6, <1>7, <1>8, MoveKeepsTable

LEMMA ReadRuntimeKeepsTable ==
  ASSUME TableInv, NEW r \in DOMAIN req, ReadRuntimeConfig(r)
  PROVE  TableInv'
<1>1. PICK q \in RequestStates :
           /\ req' = [req EXCEPT ![r] = q] /\ q.pc = "publish" /\ q.version = req[r].version
           /\ q.domain = req[r].domain /\ q.config = req[r].config /\ q.row = req[r].row
  BY ReadRuntimeMoves
<1>2. req[r].pc = "config" /\ configRows' = configRows /\ engine' = engine /\ drift' = drift
  BY DEF ReadRuntimeConfig
<1>3. engine' \in [Engines -> EngineStates] /\ drift' \subseteq Engines
  BY <1>2 DEF TableInv, ConfigTypes
<1>4. req[r].pc \in Holding /\ q.pc \in Holding
  BY <1>1, <1>2 DEF Holding
<1> QED BY <1>1, <1>2, <1>3, <1>4, StayKeepsTable

\* The engines after a publication.
LEMMA PublishReaches ==
  ASSUME TableInv, NEW r \in DOMAIN req, Publish(r)
  PROVE  /\ engine' \in [Engines -> EngineStates]
         /\ Hearers(r) \subseteq Engines
         /\ \A e \in Engines \ Hearers(r) : engine'[e] = engine[e]
         /\ \A e \in Hearers(r) : engine'[e].status = "up" /\ Final(engine'[e]) = req[r].runtime
<1>1. req[r] \in RequestStates /\ engine \in [Engines -> EngineStates]
  BY DEF TableInv, ConfigTypes
<1>2. req[r].runtime \in WholeConfigs /\ req[r].channel \in 1..4
  BY <1>1 DEF RequestStates
<1>3. Hearers(r) \subseteq Engines
  BY <1>2, ChannelsTyped DEF Hearers
<1>4. engine' = [e \in Engines |-> IF e \in Hearers(r) THEN [engine[e] EXCEPT !.inbox = Append(@, req[r].runtime)]
                                   ELSE engine[e]]
  BY DEF Publish, Hearers
<1>5. ASSUME NEW e \in Hearers(r)
      PROVE  engine'[e] \in EngineStates /\ engine'[e].status = "up" /\ Final(engine'[e]) = req[r].runtime
  <2> DEFINE more == Append(engine[e].inbox, req[r].runtime)
  <2>1. engine'[e] = [engine[e] EXCEPT !.inbox = more]
    BY <1>3, <1>4
  <2>2. engine[e] \in EngineStates /\ engine[e].status = "up"
    BY <1>1, <1>3 DEF Hearers
  <2>3. engine[e].inbox \in Seq(WholeConfigs)
    BY <2>2 DEF EngineStates
  <2>4. more \in Seq(WholeConfigs) /\ more # <<>> /\ more[Len(more)] = req[r].runtime
    BY <2>3, <1>2, EmptySeq
  <2> HIDE DEF more
  <2>5. engine'[e] \in EngineStates /\ engine'[e].status = "up" /\ engine'[e].inbox = more
    BY <2>1, <2>2, <2>4 DEF EngineStates
  <2> QED BY <2>4, <2>5 DEF Final
<1>6. \A e \in Engines \ Hearers(r) : engine'[e] = engine[e]
  BY <1>4
<1>7. engine' \in [Engines -> EngineStates]
  BY <1>1, <1>4, <1>5, <1>6
<1> QED BY <1>3, <1>5, <1>6, <1>7

LEMMA PublishKeepsTable ==
  ASSUME TableInv, NEW r \in DOMAIN req, Publish(r)
  PROVE  TableInv'
<1>1. PICK q \in RequestStates :
           /\ req' = [req EXCEPT ![r] = q] /\ q.version = req[r].version
           /\ q.domain = req[r].domain /\ q.config = req[r].config /\ q.row = req[r].row
           /\ IF req[r].channel = 4 THEN q.pc = "commit" /\ q.channel = 4
              ELSE q.pc = "publish" /\ q.channel = req[r].channel + 1
  BY PublishMoves
<1>2. req[r].pc = "publish" /\ configRows' = configRows /\ drift' = drift
  BY DEF Publish
<1>3. engine' \in [Engines -> EngineStates] /\ drift' \subseteq Engines
  BY <1>2, PublishReaches DEF TableInv, ConfigTypes
<1>4. req[r].pc \in Holding /\ q.pc \in Holding
  BY <1>1, <1>2 DEF Holding
<1> QED BY <1>1, <1>2, <1>3, <1>4, StayKeepsTable

LEMMA FailKeepsTable ==
  ASSUME TableInv, NEW r \in DOMAIN req, FailUpdate(r)
  PROVE  TableInv'
<1>1. PICK q \in RequestStates :
           /\ req' = [req EXCEPT ![r] = q] /\ q.pc = "failed" /\ q.version = req[r].version
           /\ q.domain = req[r].domain /\ q.config = req[r].config /\ q.row = {}
  BY FailMoves
<1>2. /\ req[r].pc \in {"publish", "commit"} /\ configRows' = configRows /\ engine' = engine
      /\ drift' = drift \union req[r].told
  BY DEF FailUpdate
<1>3. engine' \in [Engines -> EngineStates] /\ drift' \subseteq Engines
  BY <1>2 DEF TableInv, ConfigTypes, RequestStates
<1>4. req[r].pc \in Holding /\ q.pc \notin Holding
  BY <1>1, <1>2 DEF Holding
<1> QED BY <1>1, <1>2, <1>3, <1>4, StayKeepsTable

\* The row a request alone commits is the latest version with its fields over it.
LEMMA AloneBuildsOn ==
  ASSUME TableInv, AloneReads, NEW r \in DOMAIN req, req[r].pc = "commit", req[r].alone,
         NEW x, x = RowOf(r, req[r])
  PROVE  BuildsOn(x, Predecessors(configRows, x), req[r].overlay)
<1> DEFINE latest == GetLatest(configRows, req[r].domain)
           before == Predecessors(configRows, x)
<1>1. /\ req[r].config = EffectiveDomainConfig(configRows, req[r].domain, req[r].overlay)
      /\ req[r].version = NextVersion(configRows, req[r].domain)
  BY DEF AloneReads, InFlight
<1>2. /\ req[r].domain \in Domains /\ req[r].overlay \in PartialConfigs /\ configRows \in SUBSET ConfigTable
      /\ \A y \in configRows : y.version \in Nat \ {0}
  BY DEF TableInv, ConfigTypes, RequestStates, PartialConfigs, ConfigTable
<1>3. x.domain = req[r].domain /\ x.version = req[r].version /\ x.config = req[r].config
  BY DEF RowOf
<1>4. \A f \in Fields : x.config[f] = IF f \in DOMAIN req[r].overlay THEN req[r].overlay[f]
                                      ELSE IF latest = {} THEN Default ELSE (CHOOSE y \in latest : TRUE).config[f]
  <2>1. \A f \in Fields : EffectiveDomainConfig(configRows, req[r].domain, req[r].overlay)[f] =
            IF f \in DOMAIN req[r].overlay THEN req[r].overlay[f]
            ELSE IF latest = {} THEN Default ELSE (CHOOSE y \in latest : TRUE).config[f]
    BY <1>2, EffectiveTyped
  <2> QED BY <1>1, <1>3, <2>1, Zenon
<1>5. CASE latest = {}
  <2>1. x.version = 1
    BY <1>1, <1>2, <1>3, <1>5, NextVersionAfter
  <2>2. before = {}
    BY <2>1, <1>2 DEF Predecessors
  <2> QED BY <1>4, <1>5, <2>2 DEF BuildsOn
<1>6. CASE latest # {}
  <2> DEFINE y == CHOOSE z \in latest : TRUE
  <2>1. y \in latest
    BY <1>6
  <2> HIDE DEF y
  <2>2. y \in configRows /\ y.domain = req[r].domain
    BY <2>1 DEF GetLatest
  <2>3. x.version = y.version + 1
    BY <1>1, <1>2, <1>3, <2>1, NextVersionAfter
  <2>4. y \in before
    BY <2>2, <2>3, <1>2, <1>3 DEF Predecessors
  <2>5. \A f \in Fields : x.config[f] = IF f \in DOMAIN req[r].overlay THEN req[r].overlay[f] ELSE y.config[f]
    BY <1>4, <1>6 DEF y
  <2> HIDE DEF before
  <2>6. BuildsOn(x, before, req[r].overlay)
    BY <2>4, <2>5 DEF BuildsOn
  <2> QED BY <2>6 DEF before
<1> QED BY <1>5, <1>6

LEMMA CommitKeepsTable ==
  ASSUME TableInv, AloneReads, NEW r \in DOMAIN req, Commit(r)
  PROVE  TableInv'
<1> DEFINE x == RowOf(r, req[r])
<1>1. PICK q \in RequestStates :
           /\ req' = [req EXCEPT ![r] = q] /\ q.pc = "done" /\ q.row = {}
           /\ q.overlay = req[r].overlay /\ q.alone = req[r].alone
  BY CommitMoves
<1>2. req[r].pc = "commit" /\ engine' = engine /\ configRows' = configRows \union req[r].row
  BY DEF Commit
<1>3. /\ req[r].row = {x} /\ req[r].version >= 1 /\ Follows(configRows, req[r].domain, req[r].version)
      /\ req[r].version \in Nat /\ x \in ConfigTable /\ \A y \in configRows : y.version \in Nat \ {0}
  <2>1. req[r].row = {x} /\ req[r].version >= 1 /\ Follows(configRows, req[r].domain, req[r].version)
    BY <1>2 DEF TableInv, RowsHeld, Holding, Numbered
  <2>2. req[r] \in RequestStates
    BY DEF TableInv, ConfigTypes
  <2>3. req[r].version \in Nat /\ req[r].row \in SUBSET ConfigTable
    BY <2>2 DEF RequestStates
  <2>4. \A y \in configRows : y.version \in Nat \ {0}
    BY DEF TableInv, ConfigTypes, ConfigTable
  <2> QED BY <2>1, <2>3, <2>4
<1>4. configRows' = configRows \union {x}
  BY <1>2, <1>3
<1>5. x.domain = req[r].domain /\ x.version = req[r].version /\ x.by = r
  BY DEF RowOf
<1> HIDE DEF x
<1>6. DOMAIN req' = DOMAIN req /\ req'[r] = q /\ \A p \in DOMAIN req \ {r} : req'[p] = req[p]
  BY <1>1
<1>7. \A y \in configRows : ~(y.domain = x.domain /\ y.version = x.version)
  BY <1>2, <1>5 DEF TableInv, KeysHeld, Holding, SamePlace
<1>8. \A y \in configRows : y.by \in DOMAIN req \ {r}
  BY <1>2 DEF TableInv, TableWhole
<1>9. \A d, n : Follows(configRows, d, n) => Follows(configRows', d, n)
  BY <1>4 DEF Follows
<1>10. ConfigTypes'
  <2>1. drift' \subseteq Engines
    BY DEF Commit, TableInv, ConfigTypes
  <2> QED BY <1>2, <1>3, <1>4, <1>6, <1>1, <2>1 DEF TableInv, ConfigTypes
<1>11. RowsHeld'
  <2>1. q.pc \notin Holding \union Numbered
    BY <1>1 DEF Holding, Numbered
  <2> QED BY <1>1, <1>6, <1>9, <2>1 DEF TableInv, RowsHeld
<1>12. KeysHeld'
  <2>1. q.pc \notin Holding
    BY <1>1 DEF Holding
  <2> SUFFICES ASSUME NEW p \in DOMAIN req \ {r}, req[p].pc \in Holding
               PROVE  /\ \A y \in configRows' : ~SamePlace(y, req[p].domain, req[p].version)
                      /\ \A s \in DOMAIN req \ {p, r} : req[s].pc \in Holding => ~SamePlace(req[s], req[p].domain, req[p].version)
    BY <1>6, <1>1, <2>1 DEF KeysHeld
  <2>2. ~SamePlace(x, req[p].domain, req[p].version)
    BY <1>2, <1>5 DEF TableInv, KeysHeld, SamePlace, Holding
  <2> QED BY <2>2, <1>4 DEF TableInv, KeysHeld
<1>13. TableWhole'
  <2>1. \A y \in configRows : Follows(configRows', y.domain, y.version) /\ req'[y.by].pc = "done"
    BY <1>6, <1>8, <1>9 DEF TableInv, TableWhole
  <2>2. Follows(configRows', x.domain, x.version) /\ req'[x.by].pc = "done"
    BY <1>1, <1>3, <1>5, <1>6, <1>9
  <2> QED BY <2>1, <2>2, <1>4, <1>5, <1>6, <1>8 DEF TableWhole
<1>14. VersionsUnique'
  BY <1>4, <1>7 DEF TableInv, VersionsUnique
<1>15. ASSUME NEW y \in configRows, req[y.by].alone
       PROVE  BuildsOn(y, Predecessors(configRows', y), req[y.by].overlay)
  <2>1. ~(x.domain = y.domain /\ x.version = y.version - 1)
    <3> SUFFICES ASSUME x.domain = y.domain, x.version = y.version - 1 PROVE FALSE
      OBVIOUS
    <3>1. y.version > 1
      BY <1>3, <1>5
    <3>2. PICK z \in configRows : z.domain = y.domain /\ z.version = y.version - 1
      BY <3>1 DEF TableInv, TableWhole, Follows
    <3> QED BY <3>2, <1>7
  <2>2. Predecessors(configRows', y) = Predecessors(configRows, y)
    BY <1>4, <2>1 DEF Predecessors
  <2>3. BuildsOn(y, Predecessors(configRows, y), req[y.by].overlay)
    BY <1>15 DEF TableInv, UpdatesBuildOnPredecessor
  <2> QED BY <2>2, <2>3
<1>16. ASSUME req[r].alone
       PROVE  BuildsOn(x, Predecessors(configRows', x), req[r].overlay)
  <2>1. Predecessors(configRows', x) = Predecessors(configRows, x)
    BY <1>3, <1>4, <1>5 DEF Predecessors
  <2>2. BuildsOn(x, Predecessors(configRows, x), req[r].overlay)
    BY <1>2, <1>16, AloneBuildsOn DEF x
  <2> QED BY <2>1, <2>2
<1>17. UpdatesBuildOnPredecessor'
  <2> SUFFICES ASSUME NEW y \in configRows', req'[y.by].alone
               PROVE  BuildsOn(y, Predecessors(configRows', y), req'[y.by].overlay)
    BY DEF UpdatesBuildOnPredecessor
  <2>1. CASE y = x
    BY <2>1, <1>1, <1>5, <1>6, <1>16
  <2>2. CASE y \in configRows
    BY <2>2, <1>6, <1>8, <1>15
  <2> QED BY <2>1, <2>2, <1>4
<1> QED BY <1>10, <1>11, <1>12, <1>13, <1>14, <1>17 DEF TableInv

-----------------------------------------------------------------------------
(* The engines. *)

\* What an engine's own step leaves of it, and of the others.
LEMMA BootMoves ==
  ASSUME TableInv, NEW e \in Engines, NEW readable \in BOOLEAN, BootEngine(e, readable)
  PROVE  /\ engine' \in [Engines -> EngineStates]
         /\ \A o \in Engines \ {e} : engine'[o] = engine[o]
         /\ engine'[e].status = "booted"
         /\ readable => Final(engine'[e]) = RuntimeConfig(configRows)
<1> DEFINE whole == IF readable THEN RuntimeConfig(configRows) ELSE DefaultConfig
           booted == [status |-> "booted", inbox |-> <<>>, config |-> whole]
<1>1. engine' = [engine EXCEPT ![e] = booted] /\ engine \in [Engines -> EngineStates]
  BY DEF BootEngine, TableInv, ConfigTypes
<1>2. whole \in WholeConfigs
  BY RuntimeTyped, DefaultTyped DEF TableInv, ConfigTypes
<1>3. readable => whole = RuntimeConfig(configRows)
  OBVIOUS
<1> HIDE DEF whole
<1>4. <<>> \in Seq(WholeConfigs)
  BY EmptySeq
<1>5. booted \in EngineStates /\ booted.status = "booted" /\ Final(booted) = whole
  BY <1>2, <1>4 DEF EngineStates, Final
<1> HIDE DEF booted
<1> QED BY <1>1, <1>3, <1>5

LEMMA SubscribeMoves ==
  ASSUME TableInv, NEW e \in Engines, Subscribe(e)
  PROVE  /\ engine' \in [Engines -> EngineStates]
         /\ \A o \in Engines \ {e} : engine'[o] = engine[o]
         /\ engine'[e].status = "up" /\ Final(engine'[e]) = Final(engine[e])
<1> DEFINE s == [engine[e] EXCEPT !.status = "up"]
<1>1. engine \in [Engines -> EngineStates] /\ engine[e] \in EngineStates
  BY DEF TableInv, ConfigTypes
<1>2. engine' = [engine EXCEPT ![e] = s]
  BY <1>1 DEF Subscribe, EngineStates
<1>3. s \in EngineStates /\ s.status = "up" /\ s.inbox = engine[e].inbox /\ s.config = engine[e].config
  BY <1>1 DEF EngineStates
<1> HIDE DEF s
<1>4. Final(s) = Final(engine[e])
  BY <1>3 DEF Final
<1> QED BY <1>1, <1>2, <1>3, <1>4

\* The last configuration of the inbox is the one an engine ends with.
LEMMA ConsumeMoves ==
  ASSUME TableInv, NEW e \in Engines, Consume(e)
  PROVE  /\ engine' \in [Engines -> EngineStates]
         /\ \A o \in Engines \ {e} : engine'[o] = engine[o]
         /\ engine'[e].status = "up"
         /\ \A d \in Settings(e) : Final(engine'[e])[d] = Final(engine[e])[d]
<1> DEFINE box == engine[e].inbox
           new == Head(box)
           whole == IF e = "market-maker-engine" THEN new
                    ELSE [d \in Domains |-> IF d = "liquidity" THEN new[d] ELSE engine[e].config[d]]
           s == [engine[e] EXCEPT !.inbox = Tail(box), !.config = whole]
<1>1. engine \in [Engines -> EngineStates] /\ engine[e] \in EngineStates
  BY DEF TableInv, ConfigTypes
<1>2. box \in Seq(WholeConfigs) /\ box # <<>> /\ engine[e].config \in WholeConfigs /\ engine[e].status = "up"
  BY <1>1 DEF EngineStates, Consume
<1>3. engine' = [engine EXCEPT ![e] = s]
  BY <1>1 DEF Consume, EngineStates
<1> HIDE DEF box
<1>4. new \in WholeConfigs /\ Tail(box) \in Seq(WholeConfigs) /\ new = box[1]
  BY <1>2, HeadTailProperties
<1>5. whole \in WholeConfigs /\ \A d \in Settings(e) : whole[d] = new[d]
  <2>1. "liquidity" \in Domains
    BY ConfigAssumption
  <2> HIDE DEF new
  <2> QED BY <1>2, <1>4, <2>1 DEF WholeConfigs, Settings
<1>6. IF Tail(box) = <<>> THEN Len(box) = 1 ELSE Tail(box)[Len(Tail(box))] = box[Len(box)]
  <2>1. Len(Tail(box)) = Len(box) - 1 /\ Len(box) \in Nat \ {0} /\ \A i \in 1..(Len(box) - 1) : Tail(box)[i] = box[i + 1]
    BY <1>2, EmptySeq, HeadTailProperties
  <2>2. CASE Tail(box) = <<>>
    <3>1. Len(<<>>) = 0
      OBVIOUS
    <3>2. Len(Tail(box)) = 0
      BY <2>2, <3>1, Zenon
    <3> QED BY <2>1, <2>2, <3>2
  <2>3. CASE Tail(box) # <<>>
    <3>1. Len(Tail(box)) # 0
      BY <1>4, <2>3, EmptySeq
    <3> QED BY <2>1, <2>3, <3>1
  <2> QED BY <2>2, <2>3
<1> HIDE DEF whole, new
<1>7. s \in EngineStates /\ s.status = "up" /\ s.inbox = Tail(box) /\ s.config = whole
  BY <1>1, <1>2, <1>4, <1>5 DEF EngineStates
<1> HIDE DEF s
<1>8. \A d \in Settings(e) : Final(s)[d] = Final(engine[e])[d]
  <2>1. Final(engine[e]) = box[Len(box)]
    BY <1>2 DEF Final, box
  <2> QED BY <2>1, <1>4, <1>5, <1>6, <1>7 DEF Final
<1> QED BY <1>1, <1>3, <1>7, <1>8

LEMMA EndMoves ==
  ASSUME TableInv, NEW e \in Engines, EngineEnds(e)
  PROVE  /\ engine' \in [Engines -> EngineStates]
         /\ \A o \in Engines \ {e} : engine'[o] = engine[o]
         /\ engine'[e].status = "down"
         /\ DOMAIN req' = DOMAIN req /\ req' \in [DOMAIN req -> RequestStates]
         /\ \A r \in DOMAIN req :
              /\ req'[r].pc = req[r].pc /\ req'[r].domain = req[r].domain
              /\ req'[r].overlay = req[r].overlay /\ req'[r].config = req[r].config
              /\ req'[r].version = req[r].version /\ req'[r].row = req[r].row
              /\ req'[r].alone = req[r].alone /\ req'[r].runtime = req[r].runtime /\ req'[r].channel = req[r].channel
              /\ req'[r].told \subseteq req[r].told /\ req[r].told \subseteq req'[r].told \union {e}
              /\ req'[r].heard \ req'[r].told \subseteq req[r].heard \ req[r].told
              /\ r \in InFlight => e \notin req'[r].told
<1>1. engine \in [Engines -> EngineStates] /\ engine[e] \in EngineStates
  BY DEF TableInv, ConfigTypes
<1>2. /\ engine' \in [Engines -> EngineStates]
      /\ \A o \in Engines \ {e} : engine'[o] = engine[o]
      /\ engine'[e].status = "down"
  <2> DEFINE s == [engine[e] EXCEPT !.status = "down", !.inbox = <<>>]
  <2>1. engine' = [engine EXCEPT ![e] = s]
    BY <1>1 DEF EngineEnds, EngineStates
  <2>2. <<>> \in Seq(WholeConfigs)
    BY EmptySeq
  <2>3. s \in EngineStates /\ s.status = "down"
    BY <1>1, <2>2 DEF EngineStates
  <2> HIDE DEF s
  <2> QED BY <1>1, <2>1, <2>3
<1>3. req' = [r \in DOMAIN req |-> IF r \in InFlight
               THEN [req[r] EXCEPT !.told = @ \ {e}, !.heard = IF e \in req[r].told THEN @ \ {e} ELSE @]
               ELSE req[r]]
  BY DEF EngineEnds
<1>4. ASSUME NEW r \in DOMAIN req
      PROVE  /\ req'[r] \in RequestStates
             /\ req'[r].pc = req[r].pc /\ req'[r].domain = req[r].domain
             /\ req'[r].overlay = req[r].overlay /\ req'[r].config = req[r].config
             /\ req'[r].version = req[r].version /\ req'[r].row = req[r].row
             /\ req'[r].alone = req[r].alone /\ req'[r].runtime = req[r].runtime /\ req'[r].channel = req[r].channel
             /\ req'[r].told \subseteq req[r].told /\ req[r].told \subseteq req'[r].told \union {e}
             /\ req'[r].heard \ req'[r].told \subseteq req[r].heard \ req[r].told
             /\ r \in InFlight => e \notin req'[r].told
  <2>1. req[r] \in RequestStates
    BY DEF TableInv, ConfigTypes
  <2>2. CASE r \in InFlight
    <3> DEFINE newTold == req[r].told \ {e}
               newHeard == IF e \in req[r].told THEN req[r].heard \ {e} ELSE req[r].heard
    <3>1. req'[r] = [req[r] EXCEPT !.told = newTold, !.heard = newHeard]
      BY <2>1, <2>2, <1>3
    <3>2. newTold \in SUBSET Engines /\ newHeard \in SUBSET Engines
      BY <2>1 DEF RequestStates
    <3>3. /\ newTold \subseteq req[r].told /\ req[r].told \subseteq newTold \union {e} /\ e \notin newTold
          /\ newHeard \ newTold \subseteq req[r].heard \ req[r].told
      OBVIOUS
    <3> HIDE DEF newTold, newHeard
    <3>4. /\ req'[r] \in RequestStates
          /\ req'[r].pc = req[r].pc /\ req'[r].domain = req[r].domain
          /\ req'[r].overlay = req[r].overlay /\ req'[r].config = req[r].config
          /\ req'[r].version = req[r].version /\ req'[r].row = req[r].row
          /\ req'[r].alone = req[r].alone /\ req'[r].runtime = req[r].runtime /\ req'[r].channel = req[r].channel
          /\ req'[r].told = newTold /\ req'[r].heard = newHeard
      BY <2>1, <3>1, <3>2 DEF RequestStates
    <3> QED BY <3>3, <3>4
  <2>3. CASE r \notin InFlight
    <3>1. req'[r] = req[r]
      BY <2>3, <1>3
    <3> QED BY <2>1, <2>3, <3>1
  <2> QED BY <2>2, <2>3
<1>5. DOMAIN req' = DOMAIN req /\ req' \in [DOMAIN req -> RequestStates]
  BY <1>3, <1>4
<1> QED BY <1>2, <1>4, <1>5

LEMMA EngineStepsKeepTable ==
  ASSUME TableInv, NEW e \in Engines,
         EngineStep(e) \/ BootEngine(e, FALSE) \/ EngineEnds(e)
  PROVE  TableInv'
<1>1. req \in [DOMAIN req -> RequestStates] /\ drift \subseteq Engines
  BY DEF TableInv, ConfigTypes
<1>2. ASSUME NEW readable \in BOOLEAN, BootEngine(e, readable) PROVE TableInv'
  <2>1. configRows' = configRows /\ req' = req /\ drift' \subseteq Engines
    BY <1>1, <1>2 DEF BootEngine
  <2> QED BY <1>1, <1>2, <2>1, BootMoves, EngineStepKeepsTable
<1>3. CASE Subscribe(e)
  <2>1. configRows' = configRows /\ req' = req /\ drift' \subseteq Engines
    BY <1>1, <1>3 DEF Subscribe
  <2> QED BY <1>1, <1>3, <2>1, SubscribeMoves, EngineStepKeepsTable
<1>4. CASE Consume(e)
  <2>1. configRows' = configRows /\ req' = req /\ drift' \subseteq Engines
    BY <1>1, <1>4 DEF Consume
  <2> QED BY <1>1, <1>4, <2>1, ConsumeMoves, EngineStepKeepsTable
<1>5. CASE EngineEnds(e)
  <2>1. configRows' = configRows /\ drift' \subseteq Engines
    BY <1>1, <1>5 DEF EngineEnds
  <2> QED BY <1>5, <2>1, EndMoves, EngineStepKeepsTable
<1> QED BY <1>2, <1>3, <1>4, <1>5 DEF EngineStep

\* A step of an engine that leaves the requests alone: what it will run is what is
\* stored, or what it would have run before.
LEMMA QuietKeepsEngines ==
  ASSUME TableInv, EnginesInv, NEW e \in Engines, configRows' = configRows, req' = req,
         \A o \in Engines \ {e} : engine'[o] = engine[o] /\ (o \in drift' <=> o \in drift),
         \/ /\ engine[e].status = "down" /\ engine'[e].status = "booted"
            /\ e \notin drift' => Final(engine'[e]) = RuntimeConfig(configRows)
         \/ /\ engine[e].status # "down" /\ engine'[e].status = "up" /\ drift' = drift
            /\ \A d \in Settings(e) : Final(engine'[e])[d] = Final(engine[e])[d]
  PROVE  EnginesInv'
<1>1. InFlight' = InFlight
  BY DEF InFlight
<1>2. AloneReads' /\ UntoldNotConcerned'
  <2>1. AloneReads'
    BY <1>1 DEF EnginesInv, AloneReads
  <2>2. UntoldNotConcerned'
    BY <1>1 DEF EnginesInv, UntoldNotConcerned
  <2> QED BY <2>1, <2>2
<1>3. UntoldRunStored'
  BY <1>1 DEF EnginesInv, UntoldRunStored, WillRun
<1>4. ToldRunNew'
  <2> SUFFICES ASSUME NEW r \in InFlight, req[r].alone, NEW o \in req[r].told
               PROVE  engine'[o].status = "up" /\ WillRun(o, engine'[o], req[r].runtime)
    BY <1>1 DEF EnginesInv, ToldRunNew
  <2>1. engine[o].status = "up" /\ WillRun(o, engine[o], req[r].runtime)
    BY DEF EnginesInv, ToldRunNew
  <2>2. o \in Engines
    BY DEF TableInv, ConfigTypes, RequestStates, InFlight
  <2> QED BY <2>1, <2>2 DEF WillRun
<1> QED BY <1>2, <1>3, <1>4 DEF EnginesInv

LEMMA EngineStepsKeepEngines ==
  ASSUME TableInv, EnginesInv, NEW e \in Engines,
         EngineStep(e) \/ BootEngine(e, FALSE) \/ EngineEnds(e)
  PROVE  EnginesInv'
<1>1. ASSUME NEW readable \in BOOLEAN, BootEngine(e, readable) PROVE EnginesInv'
  <2>1. /\ configRows' = configRows /\ req' = req /\ engine[e].status = "down"
        /\ drift' = IF readable THEN drift \ {e} ELSE drift \cup {e}
    BY <1>1 DEF BootEngine
  <2>2. /\ \A o \in Engines \ {e} : engine'[o] = engine[o]
        /\ engine'[e].status = "booted"
        /\ readable => Final(engine'[e]) = RuntimeConfig(configRows)
    BY <1>1, BootMoves
  <2> QED BY <2>1, <2>2, QuietKeepsEngines
<1>2. CASE Subscribe(e)
  <2>1. configRows' = configRows /\ req' = req /\ engine[e].status # "down" /\ drift' = drift
    BY <1>2 DEF Subscribe
  <2> QED BY <1>2, <2>1, SubscribeMoves, QuietKeepsEngines
<1>3. CASE Consume(e)
  <2>1. configRows' = configRows /\ req' = req /\ engine[e].status # "down" /\ drift' = drift
    BY <1>3 DEF Consume
  <2> QED BY <1>3, <2>1, ConsumeMoves, QuietKeepsEngines
<1>4. CASE EngineEnds(e)
  <2>1. configRows' = configRows /\ drift' = drift
    BY <1>4 DEF EngineEnds
  <2>2. /\ \A o \in Engines \ {e} : engine'[o] = engine[o]
        /\ engine'[e].status = "down" /\ DOMAIN req' = DOMAIN req
        /\ \A r \in DOMAIN req :
              /\ req'[r].pc = req[r].pc /\ req'[r].domain = req[r].domain
              /\ req'[r].overlay = req[r].overlay /\ req'[r].config = req[r].config
              /\ req'[r].version = req[r].version /\ req'[r].row = req[r].row
              /\ req'[r].alone = req[r].alone /\ req'[r].runtime = req[r].runtime /\ req'[r].channel = req[r].channel
              /\ req'[r].told \subseteq req[r].told /\ req[r].told \subseteq req'[r].told \union {e}
              /\ req'[r].heard \ req'[r].told \subseteq req[r].heard \ req[r].told
              /\ r \in InFlight => e \notin req'[r].told
    BY <1>4, EndMoves
  <2>3. InFlight' = InFlight /\ \A r \in InFlight : r \in DOMAIN req
    BY <2>2 DEF InFlight
  <2>4. AloneReads'
    BY <2>1, <2>2, <2>3 DEF EnginesInv, AloneReads
  <2>5. UntoldRunStored'
    BY <2>1, <2>2, <2>3 DEF EnginesInv, UntoldRunStored
  <2>6. ToldRunNew'
    <3>1. \A r \in InFlight : req[r].told \subseteq Engines
      BY DEF TableInv, ConfigTypes, RequestStates, InFlight
    <3> QED BY <2>2, <2>3, <3>1 DEF EnginesInv, ToldRunNew
  <2>7. UntoldNotConcerned'
    <3>1. \A r \in InFlight : Passed(req'[r]) = Passed(req[r])
      BY <2>2, <2>3 DEF Passed
    <3> QED BY <2>2, <2>3, <3>1 DEF EnginesInv, UntoldNotConcerned
  <2> QED BY <2>4, <2>5, <2>6, <2>7 DEF EnginesInv
<1> QED BY <1>1, <1>2, <1>3, <1>4 DEF EngineStep

\* The requests under way after one of them moved, and the only one that can be alone.
LEMMA MoveInFlight ==
  ASSUME AloneReads, NEW r \in InFlight, NEW q, req' = [req EXCEPT ![r] = q]
  PROVE  /\ DOMAIN req' = DOMAIN req /\ req'[r] = q /\ \A p \in DOMAIN req \ {r} : req'[p] = req[p]
         /\ InFlight' = IF q.pc \in {"done", "failed"} THEN InFlight \ {r} ELSE InFlight
         /\ \A p \in InFlight \ {r} : ~req[p].alone /\ req'[p] = req[p]
         /\ req[r].alone => InFlight = {r}
<1>1. r \in DOMAIN req
  BY DEF InFlight
<1>2. DOMAIN req' = DOMAIN req /\ req'[r] = q /\ \A p \in DOMAIN req \ {r} : req'[p] = req[p]
  BY <1>1
<1>3. InFlight' = IF q.pc \in {"done", "failed"} THEN InFlight \ {r} ELSE InFlight
  BY <1>2 DEF InFlight
<1>4. \A p \in InFlight \ {r} : ~req[p].alone /\ req'[p] = req[p]
  BY <1>2 DEF AloneReads, InFlight
<1> QED BY <1>2, <1>3, <1>4 DEF AloneReads

\* A request ends: those still under way were not alone, so all there is to show is
\* that the engines run what is now stored.
LEMMA EndKeepsEngines ==
  ASSUME EnginesInv, NEW r \in InFlight, NEW q, req' = [req EXCEPT ![r] = q], q.pc \in {"done", "failed"},
         UntoldRunStored'
  PROVE  EnginesInv'
<1>1. /\ InFlight' = InFlight \ {r}
      /\ \A p \in InFlight \ {r} : ~req[p].alone /\ req'[p] = req[p]
  BY MoveInFlight DEF EnginesInv
<1>2. AloneReads'
  BY <1>1 DEF AloneReads
<1>3. ToldRunNew'
  BY <1>1 DEF EnginesInv, ToldRunNew
<1>4. UntoldNotConcerned'
  BY <1>1 DEF EnginesInv, UntoldNotConcerned
<1> QED BY <1>2, <1>3, <1>4 DEF EnginesInv

\* A request that has published nothing goes on.
LEMMA EarlyKeepsEngines ==
  ASSUME EnginesInv, NEW r \in InFlight, NEW q, req' = [req EXCEPT ![r] = q],
         req[r].pc \notin {"publish", "commit"}, q.pc \notin {"done", "failed", "commit"},
         configRows' = configRows, engine' = engine, drift' = drift,
         q.told = req[r].told, q.heard = req[r].heard, q.channel = req[r].channel, q.alone = req[r].alone,
         q.domain = req[r].domain, q.overlay = req[r].overlay, q.config = req[r].config,
         q.alone /\ q.pc # "version" => q.version = NextVersion(configRows, q.domain),
         q.pc = "publish" => q.runtime = RuntimeConfig(configRows \union q.row)
  PROVE  EnginesInv'
<1>1. /\ InFlight' = InFlight /\ req'[r] = q
      /\ \A p \in InFlight \ {r} : ~req[p].alone /\ req'[p] = req[p]
      /\ req[r].alone => InFlight = {r}
  BY MoveInFlight DEF EnginesInv
<1>2. q.told = {} /\ q.channel = 1
  BY DEF EnginesInv, ToldRunNew
<1>3. AloneReads'
  <2>1. q.alone => q.config = EffectiveDomainConfig(configRows, q.domain, q.overlay)
    BY DEF EnginesInv, AloneReads
  <2>2. q.pc \in {"publish", "commit"} => q.runtime = RuntimeConfig(configRows \union q.row)
    OBVIOUS
  <2>3. ASSUME NEW p \in InFlight, req'[p].alone PROVE p = r /\ req'[p] = q /\ q.alone /\ InFlight' = {r}
    BY <2>3, <1>1
  <2> QED BY <1>1, <2>1, <2>2, <2>3 DEF AloneReads
<1>4. UntoldRunStored'
  BY <1>1 DEF EnginesInv, UntoldRunStored
<1>5. ToldRunNew'
  BY <1>1, <1>2 DEF EnginesInv, ToldRunNew
<1>6. UntoldNotConcerned'
  <2>1. Passed(q) = {}
    BY <1>2 DEF Passed
  <2> QED BY <1>1, <2>1 DEF EnginesInv, UntoldNotConcerned
<1> QED BY <1>3, <1>4, <1>5, <1>6 DEF EnginesInv

LEMMA BeginKeepsEngines ==
  ASSUME TableInv, EnginesInv, NEW r \in Updates, NEW d \in Domains, NEW overlay \in Overlays,
         BeginUpdate(r, d, overlay)
  PROVE  EnginesInv'
<1> DEFINE merged == EffectiveDomainConfig(configRows, d, overlay)
           begun == [pc |-> IF Validated(merged) THEN "version" ELSE "failed",
                     domain |-> d, overlay |-> overlay, config |-> merged,
                     version |-> 0, row |-> {}, runtime |-> DefaultConfig,
                     channel |-> 1, alone |-> InFlight = {}, heard |-> Engines, told |-> {}]
<1>1. /\ req' = [q \in DOMAIN req \cup {r} |->
                   IF q = r THEN begun
                   ELSE IF q \in InFlight THEN [req[q] EXCEPT !.alone = FALSE] ELSE req[q]]
      /\ r \notin DOMAIN req /\ configRows' = configRows /\ engine' = engine /\ drift' = drift
  BY DEF BeginUpdate
<1>2. /\ begun.pc \in {"version", "failed"} /\ begun.domain = d /\ begun.overlay = overlay /\ begun.config = merged
      /\ begun.channel = 1 /\ begun.told = {} /\ (begun.alone <=> InFlight = {})
  <2>1. begun.pc \in {"version", "failed"} /\ begun.domain = d /\ begun.overlay = overlay /\ begun.config = merged
        /\ begun.channel = 1 /\ begun.told = {}
    OBVIOUS
  <2>2. begun.alone = (InFlight = {})
    OBVIOUS
  <2> QED BY <2>1, <2>2
<1>3. /\ DOMAIN req' = DOMAIN req \cup {r} /\ req'[r] = begun
      /\ \A q \in DOMAIN req : req'[q] = IF q \in InFlight THEN [req[q] EXCEPT !.alone = FALSE] ELSE req[q]
  BY <1>1
<1> HIDE DEF begun, merged
<1>4. ASSUME NEW q \in InFlight
      PROVE  /\ q \in DOMAIN req \ {r} /\ ~req'[q].alone
             /\ req'[q].pc = req[q].pc /\ req'[q].domain = req[q].domain
             /\ req'[q].told = req[q].told /\ req'[q].heard = req[q].heard /\ req'[q].channel = req[q].channel
  <2>1. q \in DOMAIN req \ {r}
    BY <1>1 DEF InFlight
  <2>2. req'[q] = [req[q] EXCEPT !.alone = FALSE] /\ req[q] \in RequestStates
    BY <2>1, <1>3 DEF TableInv, ConfigTypes
  <2> QED BY <2>1, <2>2 DEF RequestStates
<1>5. InFlight \subseteq InFlight' /\ InFlight' \subseteq InFlight \union {r}
  BY <1>3, <1>4 DEF InFlight
<1>6. AloneReads'
  <2> SUFFICES ASSUME NEW p \in InFlight', req'[p].alone
               PROVE  /\ InFlight' = {p}
                      /\ req'[p].config = EffectiveDomainConfig(configRows, req'[p].domain, req'[p].overlay)
                      /\ req'[p].pc = "version"
    BY <1>1 DEF AloneReads
  <2>1. p = r
    BY <1>4, <1>5
  <2>2. InFlight = {}
    BY <2>1, <1>2, <1>3
  <2>3. req'[p].pc = "version"
    BY <2>1, <1>2, <1>3 DEF InFlight
  <2> QED BY <2>1, <2>2, <2>3, <1>2, <1>3, <1>5 DEF merged
<1>7. UntoldRunStored'
  BY <1>1, <1>4, <1>5 DEF EnginesInv, UntoldRunStored
<1>8. ToldRunNew'
  BY <1>2, <1>3, <1>4, <1>5 DEF EnginesInv, ToldRunNew
<1>9. UntoldNotConcerned'
  <2>1. Passed(begun) = {}
    BY <1>2 DEF Passed
  <2>2. \A q \in InFlight : Passed(req'[q]) = Passed(req[q])
    BY <1>4 DEF Passed
  <2> QED BY <1>3, <1>4, <1>5, <2>1, <2>2 DEF EnginesInv, UntoldNotConcerned
<1> QED BY <1>6, <1>7, <1>8, <1>9 DEF EnginesInv

LEMMA ReadVersionKeepsEngines ==
  ASSUME TableInv, EnginesInv, NEW r \in DOMAIN req, ReadVersion(r)
  PROVE  EnginesInv'
<1>1. PICK q \in RequestStates :
           /\ req' = [req EXCEPT ![r] = q] /\ q.pc = "flush" /\ q.version = NextVersion(configRows, req[r].domain)
           /\ q.domain = req[r].domain /\ q.overlay = req[r].overlay /\ q.config = req[r].config
           /\ q.row = req[r].row /\ q.alone = req[r].alone /\ q.told = req[r].told /\ q.heard = req[r].heard
           /\ q.channel = req[r].channel
  BY ReadVersionMoves
<1>2. req[r].pc = "version" /\ configRows' = configRows /\ engine' = engine /\ drift' = drift /\ r \in InFlight
  BY DEF ReadVersion, InFlight
<1> QED BY <1>1, <1>2, EarlyKeepsEngines

LEMMA FlushKeepsEngines ==
  ASSUME TableInv, EnginesInv, NEW r \in DOMAIN req, Flush(r)
  PROVE  EnginesInv'
<1>1. PICK q \in RequestStates :
           /\ req' = [req EXCEPT ![r] = q] /\ q.version = req[r].version
           /\ q.domain = req[r].domain /\ q.overlay = req[r].overlay /\ q.config = req[r].config
           /\ q.alone = req[r].alone /\ q.told = req[r].told /\ q.heard = req[r].heard
           /\ q.channel = req[r].channel /\ q.pc \in {"failed", "config"}
  BY FlushMoves
<1>2. req[r].pc = "flush" /\ configRows' = configRows /\ engine' = engine /\ drift' = drift /\ r \in InFlight
  BY DEF Flush, InFlight
<1>3. CASE q.pc = "config"
  <2>1. q.alone => q.version = NextVersion(configRows, q.domain)
    BY <1>1, <1>2 DEF EnginesInv, AloneReads
  <2> QED BY <1>1, <1>2, <1>3, <2>1, EarlyKeepsEngines
<1>4. CASE q.pc = "failed"
  <2>1. InFlight' = InFlight \ {r} /\ \A p \in InFlight \ {r} : req'[p] = req[p]
    BY <1>1, <1>2, <1>4, MoveInFlight DEF EnginesInv
  <2>2. req[r].told = {}
    BY <1>2 DEF EnginesInv, ToldRunNew
  <2>3. UntoldRunStored'
    BY <1>2, <2>1, <2>2 DEF EnginesInv, UntoldRunStored
  <2> QED BY <1>1, <1>2, <1>4, <2>3, EndKeepsEngines
<1> QED BY <1>1, <1>3, <1>4

LEMMA ReadRuntimeKeepsEngines ==
  ASSUME TableInv, EnginesInv, NEW r \in DOMAIN req, ReadRuntimeConfig(r)
  PROVE  EnginesInv'
<1>1. PICK q \in RequestStates :
           /\ req' = [req EXCEPT ![r] = q] /\ q.pc = "publish" /\ q.version = req[r].version
           /\ q.domain = req[r].domain /\ q.overlay = req[r].overlay /\ q.config = req[r].config
           /\ q.row = req[r].row /\ q.alone = req[r].alone /\ q.told = req[r].told /\ q.heard = req[r].heard
           /\ q.channel = req[r].channel /\ q.runtime = RuntimeConfig(configRows \union req[r].row)
  BY ReadRuntimeMoves
<1>2. req[r].pc = "config" /\ configRows' = configRows /\ engine' = engine /\ drift' = drift /\ r \in InFlight
  BY DEF ReadRuntimeConfig, InFlight
<1>3. q.alone => q.version = NextVersion(configRows, q.domain)
  BY <1>1, <1>2 DEF EnginesInv, AloneReads
<1> QED BY <1>1, <1>2, <1>3, EarlyKeepsEngines

LEMMA PublishKeepsEngines ==
  ASSUME TableInv, EnginesInv, NEW r \in DOMAIN req, Publish(r)
  PROVE  EnginesInv'
<1> DEFINE audience == Channels(req[r].domain)[req[r].channel]
<1>1. PICK q \in RequestStates :
           /\ req' = [req EXCEPT ![r] = q] /\ q.version = req[r].version
           /\ q.domain = req[r].domain /\ q.overlay = req[r].overlay /\ q.config = req[r].config
           /\ q.row = req[r].row /\ q.alone = req[r].alone /\ q.runtime = req[r].runtime
           /\ q.told = req[r].told \union Hearers(r)
           /\ q.heard = req[r].heard \ (audience \ Hearers(r))
           /\ IF req[r].channel = 4 THEN q.pc = "commit" /\ q.channel = 4
              ELSE q.pc = "publish" /\ q.channel = req[r].channel + 1
  BY PublishMoves
<1>2. req[r].pc = "publish" /\ configRows' = configRows /\ drift' = drift /\ r \in InFlight
  BY DEF Publish, InFlight
<1>3. /\ \A e \in Engines \ Hearers(r) : engine'[e] = engine[e]
      /\ \A e \in Hearers(r) : engine'[e].status = "up" /\ Final(engine'[e]) = req[r].runtime
  BY PublishReaches
<1>4. /\ InFlight' = InFlight /\ req'[r] = q
      /\ \A p \in InFlight \ {r} : ~req[p].alone /\ req'[p] = req[p]
      /\ req[r].alone => InFlight = {r}
  BY <1>1, <1>2, MoveInFlight DEF EnginesInv
<1> HIDE DEF audience
<1>5. q.pc \in {"publish", "commit"}
  BY <1>1
<1>6. AloneReads'
  <2>1. q.alone => /\ q.config = EffectiveDomainConfig(configRows, q.domain, q.overlay)
                   /\ q.version = NextVersion(configRows, q.domain)
                   /\ q.runtime = RuntimeConfig(configRows \union q.row)
    BY <1>1, <1>2 DEF EnginesInv, AloneReads
  <2>2. ASSUME NEW p \in InFlight, req'[p].alone PROVE p = r /\ req'[p] = q /\ q.alone /\ InFlight' = {r}
    BY <2>2, <1>1, <1>4
  <2> QED BY <1>2, <1>4, <2>1, <2>2 DEF AloneReads
<1>7. UntoldRunStored'
  <2> SUFFICES ASSUME NEW e \in Engines \ drift, engine'[e].status # "down",
                      \A p \in InFlight : e \notin req'[p].told
               PROVE  WillRun(e, engine'[e], RuntimeConfig(configRows))
    BY <1>2, <1>4 DEF UntoldRunStored
  <2>1. e \notin Hearers(r) /\ \A p \in InFlight : e \notin req[p].told
    BY <1>1, <1>2, <1>4
  <2> QED BY <2>1, <1>3 DEF EnginesInv, UntoldRunStored
<1>8. ToldRunNew'
  <2>1. ASSUME q.alone, NEW e \in q.told
        PROVE  engine'[e].status = "up" /\ WillRun(e, engine'[e], q.runtime)
    <3>1. CASE e \in Hearers(r)
      BY <3>1, <1>1, <1>3 DEF WillRun
    <3>2. CASE e \notin Hearers(r)
      <4>1. e \in req[r].told /\ e \in Engines
        BY <2>1, <3>2, <1>1 DEF RequestStates
      <4>2. engine[e].status = "up" /\ WillRun(e, engine[e], req[r].runtime)
        BY <2>1, <4>1, <1>1, <1>2 DEF EnginesInv, ToldRunNew
      <4> QED BY <3>2, <4>1, <4>2, <1>1, <1>3
    <3> QED BY <3>1, <3>2
  <2>2. ASSUME NEW p \in InFlight \ {r}, req[p].pc \notin {"publish", "commit"}
        PROVE  req[p].told = {} /\ req[p].channel = 1
    BY <2>2 DEF EnginesInv, ToldRunNew
  <2> QED BY <1>4, <1>5, <2>1, <2>2 DEF ToldRunNew
<1>9. UntoldNotConcerned'
  <2>1. ASSUME NEW e \in q.heard \ q.told, NEW i \in Passed(q)
        PROVE  e \notin Channels(q.domain)[i]
    <3>1. e \in req[r].heard \ req[r].told /\ e \notin audience
      BY <1>1
    <3>2. req[r].channel \in 1..4 /\ i \in 1..4
      BY DEF TableInv, ConfigTypes, RequestStates, Passed
    <3>3. i < req[r].channel \/ i = req[r].channel
      BY <1>1, <3>2 DEF Passed
    <3>4. CASE i = req[r].channel
      BY <1>1, <3>1, <3>4 DEF audience
    <3>5. CASE i < req[r].channel
      <4>1. i \in Passed(req[r])
        BY <3>2, <3>5 DEF Passed
      <4> QED BY <1>1, <1>2, <3>1, <4>1 DEF EnginesInv, UntoldNotConcerned
    <3> QED BY <3>3, <3>4, <3>5
  <2> QED BY <1>4, <2>1 DEF EnginesInv, UntoldNotConcerned
<1> QED BY <1>6, <1>7, <1>8, <1>9 DEF EnginesInv

LEMMA FailKeepsEngines ==
  ASSUME TableInv, EnginesInv, NEW r \in DOMAIN req, FailUpdate(r)
  PROVE  EnginesInv'
<1>1. PICK q \in RequestStates : req' = [req EXCEPT ![r] = q] /\ q.pc = "failed"
  BY FailMoves
<1>2. configRows' = configRows /\ engine' = engine /\ drift' = drift \union req[r].told /\ r \in InFlight
  BY DEF FailUpdate, InFlight
<1>3. InFlight' = InFlight \ {r} /\ \A p \in InFlight \ {r} : req'[p] = req[p]
  BY <1>1, <1>2, MoveInFlight DEF EnginesInv
<1>4. UntoldRunStored'
  BY <1>2, <1>3 DEF EnginesInv, UntoldRunStored
<1> QED BY <1>1, <1>2, <1>4, EndKeepsEngines

\* An engine on none of a request's channels takes nothing of its domain.
LEMMA NotConcerned ==
  ASSUME NEW d \in Domains, NEW e \in Engines, \A i \in 1..4 : e \notin Channels(d)[i]
  PROVE  d \notin Settings(e)
<1>1. e # "market-maker-engine" /\ d \notin Feed
  <2>1. Channels(d)[1] = {"market-maker-engine"}
    BY DEF Channels
  <2>2. d \in Feed => Channels(d)[4] = {"market-data-engine"}
    BY DEF Channels
  <2>3. e \notin Channels(d)[1] /\ e \notin Channels(d)[4]
    OBVIOUS
  <2> QED BY <2>1, <2>2, <2>3 DEF Engines
<1> QED BY <1>1, ConfigAssumption DEF Settings

LEMMA CommitKeepsEngines ==
  ASSUME TableInv, EnginesInv, NEW r \in DOMAIN req, Commit(r)
  PROVE  EnginesInv'
<1>1. PICK q \in RequestStates : req' = [req EXCEPT ![r] = q] /\ q.pc = "done"
  BY CommitMoves
<1>2. /\ req[r].pc = "commit" /\ engine' = engine /\ configRows' = configRows \union req[r].row /\ r \in InFlight
      /\ drift' = IF ~req[r].alone THEN Engines
                  ELSE (drift \ (req[r].told \cap req[r].heard)) \cup (Engines \ req[r].heard)
  BY DEF Commit, InFlight
<1>3. UntoldRunStored'
  <2> SUFFICES ASSUME NEW e \in Engines \ drift', engine[e].status # "down"
               PROVE  WillRun(e, engine[e], RuntimeConfig(configRows'))
    BY <1>2 DEF UntoldRunStored
  <2>1. req[r].alone /\ e \in req[r].heard /\ (e \in req[r].told \/ e \notin drift)
    BY <1>2
  <2>2. InFlight = {r} /\ req[r].runtime = RuntimeConfig(configRows')
    BY <1>2, <2>1 DEF EnginesInv, AloneReads
  <2>3. CASE e \in req[r].told
    BY <1>2, <2>1, <2>2, <2>3 DEF EnginesInv, ToldRunNew
  <2>4. CASE e \notin req[r].told
    <3>1. WillRun(e, engine[e], RuntimeConfig(configRows))
      BY <2>1, <2>2, <2>4 DEF EnginesInv, UntoldRunStored
    <3>2. req[r].domain \in Domains
      BY DEF TableInv, ConfigTypes, RequestStates
    <3>3. \A i \in 1..4 : e \notin Channels(req[r].domain)[i]
      BY <1>2, <2>1, <2>4 DEF EnginesInv, UntoldNotConcerned, Passed
    <3>4. req[r].domain \notin Settings(e)
      BY <3>2, <3>3, NotConcerned
    <3> DEFINE x == RowOf(r, req[r])
    <3>5. configRows' = configRows \union {x} /\ x.domain = req[r].domain
      BY <1>2 DEF TableInv, RowsHeld, Holding, RowOf
    <3> HIDE DEF x
    <3>6. Settings(e) \subseteq Domains
      BY ConfigAssumption DEF Settings
    <3>7. \A d \in Settings(e) : RuntimeConfig(configRows')[d] = RuntimeConfig(configRows)[d]
      BY <3>4, <3>5, <3>6, OtherDomain
    <3> QED BY <3>1, <3>7 DEF WillRun
  <2> QED BY <2>3, <2>4
<1> QED BY <1>1, <1>2, <1>3, EndKeepsEngines

-----------------------------------------------------------------------------
LEMMA ConfigStarts ==
  ASSUME ConfigInit
  PROVE  ConfigInv
<1>1. DOMAIN req = {} /\ InFlight = {} /\ configRows = {}
  <2>1. DOMAIN <<>> = {}
    OBVIOUS
  <2> QED BY <2>1 DEF ConfigInit, InFlight
<1>2. ConfigTypes
  <2>1. <<>> \in Seq(WholeConfigs)
    BY EmptySeq
  <2>2. engine \in [Engines -> EngineStates]
    BY <2>1, DefaultTyped DEF ConfigInit, EngineStates
  <2>3. req = [r \in {} |-> r] /\ DOMAIN req = {}
    BY <1>1 DEF ConfigInit
  <2>4. req \in [DOMAIN req -> RequestStates]
    BY <2>3
  <2> QED BY <1>1, <2>2, <2>4 DEF ConfigTypes, ConfigInit
<1>3. TableInv
  BY <1>1, <1>2 DEF TableInv, RowsHeld, KeysHeld, TableWhole, VersionsUnique, UpdatesBuildOnPredecessor
<1>4. \A e \in Engines : engine[e].status = "down"
  BY DEF ConfigInit
<1>5. EnginesInv
  BY <1>1, <1>4 DEF EnginesInv, AloneReads, UntoldRunStored, ToldRunNew, UntoldNotConcerned
<1> QED BY <1>3, <1>5 DEF ConfigInv

LEMMA ConfigGoesOn ==
  ASSUME ConfigInv, [ConfigNext]_configVars
  PROVE  ConfigInv'
<1>1. TableInv /\ EnginesInv /\ AloneReads
  BY DEF ConfigInv, EnginesInv
<1>2. CASE \E r \in Updates, d \in Domains, o \in Overlays : BeginUpdate(r, d, o)
  BY <1>1, <1>2, BeginKeepsTable, BeginKeepsEngines DEF ConfigInv
<1>3. ASSUME NEW r \in DOMAIN req, RequestStep(r) \/ FailUpdate(r) PROVE ConfigInv'
  <2>1. CASE ReadVersion(r)
    BY <1>1, <2>1, ReadVersionKeepsTable, ReadVersionKeepsEngines DEF ConfigInv
  <2>2. CASE Flush(r)
    BY <1>1, <2>2, FlushKeepsTable, FlushKeepsEngines DEF ConfigInv
  <2>3. CASE ReadRuntimeConfig(r)
    BY <1>1, <2>3, ReadRuntimeKeepsTable, ReadRuntimeKeepsEngines DEF ConfigInv
  <2>4. CASE Publish(r)
    BY <1>1, <2>4, PublishKeepsTable, PublishKeepsEngines DEF ConfigInv
  <2>5. CASE Commit(r)
    BY <1>1, <2>5, CommitKeepsTable, CommitKeepsEngines DEF ConfigInv
  <2>6. CASE FailUpdate(r)
    BY <1>1, <2>6, FailKeepsTable, FailKeepsEngines DEF ConfigInv
  <2> QED BY <1>3, <2>1, <2>2, <2>3, <2>4, <2>5, <2>6 DEF RequestStep
<1>4. ASSUME NEW e \in Engines, EngineStep(e) \/ BootEngine(e, FALSE) \/ EngineEnds(e) PROVE ConfigInv'
  BY <1>1, <1>4, EngineStepsKeepTable, EngineStepsKeepEngines DEF ConfigInv
<1>5. CASE UNCHANGED configVars
  <2>1. configRows' = configRows /\ req' = req /\ engine' = engine /\ drift' = drift
    BY <1>5 DEF configVars
  <2>2. InFlight' = InFlight
    BY <2>1 DEF InFlight
  <2>3. TableInv'
    BY <1>1, <2>1 DEF TableInv, ConfigTypes, RowsHeld, KeysHeld, TableWhole, VersionsUnique, UpdatesBuildOnPredecessor
  <2>4. EnginesInv'
    BY <1>1, <2>1, <2>2 DEF EnginesInv, AloneReads, UntoldRunStored, ToldRunNew, UntoldNotConcerned
  <2> QED BY <2>3, <2>4 DEF ConfigInv
<1> QED BY <1>2, <1>3, <1>4, <1>5 DEF ConfigNext

LEMMA ConfigAgrees ==
  ASSUME ConfigInv
  PROVE  UpdatesConsistent
<1>1. EnginesRunStored
  <2> SUFFICES ASSUME InFlight = {}, NEW e \in Engines \ drift, engine[e].status = "up", engine[e].inbox = <<>>,
                      NEW d \in Domains, e = "market-maker-engine" \/ d = "liquidity"
               PROVE  engine[e].config[d] = RuntimeConfig(configRows)[d]
    BY DEF EnginesRunStored
  <2>1. WillRun(e, engine[e], RuntimeConfig(configRows))
    BY DEF ConfigInv, EnginesInv, UntoldRunStored
  <2>2. d \in Settings(e)
    BY DEF Settings
  <2> QED BY <2>1, <2>2 DEF WillRun, Final
<1> QED BY <1>1 DEF ConfigInv, TableInv, UpdatesConsistent

\* PUT /admin/config/{domain} and the engines' reload, for every set of domains, fields,
\* overlays and requests and every interleaving of them: a version of a domain is committed
\* once; a request that met no other one stores its predecessor's configuration with
\* its own fields over it; and with nothing under way, an engine the last
\* update reached runs what is stored.
THEOREM UpdatesConsistentAlways == ConfigSpec => []UpdatesConsistent
<1>1. ConfigInit => ConfigInv
  BY ConfigStarts
<1>2. ConfigInv /\ [ConfigNext]_configVars => ConfigInv'
  BY ConfigGoesOn
<1>3. ConfigInv => UpdatesConsistent
  BY ConfigAgrees
<1> QED BY <1>1, <1>2, <1>3, PTL DEF ConfigSpec

-----------------------------------------------------------------------------
(* Exchange accounts: ExchangeAccounts. *)

Handling == {"new", "loaded", "ok", "missing", "failed"}

AccountTypes ==
  /\ row \in Rows /\ loaded \in [AccountRequests -> Rows]
  /\ at \in [AccountRequests -> Handling]

\* A credential in a row, committed or loaded, was brought by a request that is over:
\* what a request in flight brings is different from all of them.
Over == {NoRequest} \union {r \in AccountRequests : at[r] = "ok"}

CredentialsOf(old) == {old.key, old.secret, old.passphrase}

CredentialsUsed ==
  /\ CredentialsOf(row) \subseteq Over
  /\ \A r \in AccountRequests : CredentialsOf(loaded[r]) \subseteq Over

\* Key, secret and passphrase of one request.
OneRequest(old) == old.secret = old.key /\ (Passphrases = {TRUE} => old.passphrase = old.key)

LoadedWhole == \A r \in AccountRequests : OneRequest(loaded[r])

AccountsInv ==
  /\ AccountTypes
  /\ CredentialsUsed /\ LoadedWhole
  /\ AccountsConsistent

-----------------------------------------------------------------------------
(* Rows. *)

LEMMA BlankTyped == Blank \in Rows
BY DEF Blank, Rows, Creds, Statuses

LEMMA RowFields ==
  ASSUME NEW x \in Rows
  PROVE  /\ x.key \in Creds /\ x.secret \in Creds /\ x.passphrase \in Creds /\ x.enabled \in BOOLEAN
         /\ x.status \in Statuses /\ x.rest \in BOOLEAN /\ x.ws \in BOOLEAN /\ x.private \in BOOLEAN
BY DEF Rows

\* What an UPDATE stores, column by column.
LEMMA StoredColumns ==
  ASSUME NEW r, NEW new
  PROVE  /\ Stored(r, new).key = IF new.key = loaded[r].key THEN row.key ELSE new.key
         /\ Stored(r, new).secret = IF new.secret = loaded[r].secret THEN row.secret ELSE new.secret
         /\ Stored(r, new).passphrase = IF new.passphrase = loaded[r].passphrase THEN row.passphrase ELSE new.passphrase
         /\ Stored(r, new).enabled = IF new.enabled = loaded[r].enabled THEN row.enabled ELSE new.enabled
         /\ Stored(r, new).status = IF new.status = loaded[r].status THEN row.status ELSE new.status
         /\ Stored(r, new).rest = IF new.rest = loaded[r].rest THEN row.rest ELSE new.rest
         /\ Stored(r, new).ws = IF new.ws = loaded[r].ws THEN row.ws ELSE new.ws
         /\ Stored(r, new).private = IF new.private = loaded[r].private THEN row.private ELSE new.private
BY DEF Stored, Columns

\* It is a row again.
LEMMA StoredTyped ==
  ASSUME row \in Rows, NEW r, NEW new \in Rows
  PROVE  Stored(r, new) \in Rows
BY DEF Stored, Columns, Rows

LEMMA AccountsStart == AccountsInit => AccountsInv
<1> SUFFICES ASSUME AccountsInit PROVE AccountsInv
  OBVIOUS
<1>1. row = Blank /\ loaded = [r \in AccountRequests |-> Blank] /\ at = [r \in AccountRequests |-> "new"]
  BY DEF AccountsInit
<1>2. AccountTypes
  BY <1>1, BlankTyped DEF AccountTypes, Handling
<1> QED BY <1>1, <1>2 DEF Blank, AccountsInv, CredentialsUsed, CredentialsOf, Over, LoadedWhole, OneRequest,
                          AccountsConsistent, ConnectedMeansTested, FlagsAgree, CredentialsWhole

\* A request that moves on keeps every credential used.
LEMMA OverGrows ==
  ASSUME AccountTypes, NEW r \in AccountRequests, at[r] # "ok", NEW p \in Handling, at' = [at EXCEPT ![r] = p]
  PROVE  Over \subseteq Over' /\ (p = "ok" => r \in Over')
BY DEF Over, AccountTypes

\* A handler moves on without writing the row.
LEMMA NoWriteKeeps ==
  ASSUME AccountsInv, NEW r \in AccountRequests, at[r] # "ok", NEW p \in Handling, at' = [at EXCEPT ![r] = p],
         UNCHANGED <<row, loaded, tested, overlap, unreset>>
  PROVE  AccountsInv'
<1>1. AccountTypes'
  BY DEF AccountsInv, AccountTypes
<1>2. Over \subseteq Over'
  BY OverGrows DEF AccountsInv
<1>3. CredentialsUsed'
  BY <1>2 DEF AccountsInv, CredentialsUsed, CredentialsOf
<1> QED BY <1>1, <1>3 DEF AccountsInv, LoadedWhole, OneRequest, AccountsConsistent, ConnectedMeansTested, FlagsAgree, CredentialsWhole

LEMMA LoadKeeps ==
  ASSUME AccountsInv, NEW r \in AccountRequests, Load(r)
  PROVE  AccountsInv'
<1>1. PICK p \in Handling : at' = [at EXCEPT ![r] = p]
  BY DEF Load, Handling
<1>2. /\ at[r] # "ok" /\ loaded' = [loaded EXCEPT ![r] = row]
      /\ UNCHANGED <<row, tested, overlap, unreset>>
  BY DEF Load
<1>3. AccountTypes'
  BY <1>1, <1>2 DEF AccountsInv, AccountTypes
<1>4. \A q \in AccountRequests : loaded'[q] = loaded[q] \/ loaded'[q] = row
  BY <1>2 DEF AccountsInv, AccountTypes
<1>5. Over \subseteq Over'
  BY <1>1, <1>2, OverGrows DEF AccountsInv
<1>6. CredentialsUsed'
  BY <1>2, <1>4, <1>5 DEF AccountsInv, CredentialsUsed, CredentialsOf
<1>7. LoadedWhole'
  BY <1>4 DEF AccountsInv, LoadedWhole, OneRequest, AccountsConsistent, CredentialsWhole
<1> QED BY <1>2, <1>3, <1>6, <1>7 DEF AccountsInv, AccountsConsistent, ConnectedMeansTested, FlagsAgree, CredentialsWhole

\* Another row is stored by a handler: what is left to show is about that row.
LEMMA WriteKeeps ==
  ASSUME AccountsInv, NEW r \in AccountRequests, at[r] = "loaded", at' = [at EXCEPT ![r] = "ok"],
         row' \in Rows, loaded' = loaded,
         CredentialsOf(row') \subseteq Over \union {r}, OneRequest(row'),
         ConnectedMeansTested', FlagsAgree'
  PROVE  AccountsInv'
<1>1. AccountTypes'
  BY DEF AccountsInv, AccountTypes, Handling
<1>2. Over \subseteq Over' /\ r \in Over'
  BY OverGrows DEF AccountsInv, Handling
<1>3. CredentialsUsed'
  BY <1>2 DEF AccountsInv, CredentialsUsed, CredentialsOf
<1>4. CredentialsWhole'
  BY DEF OneRequest, CredentialsWhole
<1> QED BY <1>1, <1>3, <1>4 DEF AccountsInv, LoadedWhole, OneRequest, AccountsConsistent

\* The credentials a request brings are none of those it loaded.
LEMMA BringsNew ==
  ASSUME AccountsInv, NEW r \in AccountRequests, at[r] = "loaded"
  PROVE  r # NoRequest /\ r \notin Over /\ r \notin CredentialsOf(loaded[r])
BY AccountsAssumption DEF AccountsInv, CredentialsUsed, Over

\* A request that stores credentials stores its own, whatever was stored meanwhile.
LEMMA NewCredentials ==
  ASSUME AccountsInv, NEW r \in AccountRequests, at[r] = "loaded", NEW pass \in Passphrases, NEW new,
         new.key = r, new.secret = r, new.passphrase = IF pass THEN r ELSE NoRequest
  PROVE  CredentialsOf(Stored(r, new)) \subseteq Over \union {r} /\ OneRequest(Stored(r, new))
<1>1. r \notin CredentialsOf(loaded[r])
  BY BringsNew
<1>2. Stored(r, new).key = r /\ Stored(r, new).secret = r
  BY <1>1, StoredColumns DEF CredentialsOf
<1>3. pass => Stored(r, new).passphrase = r
  BY <1>1, StoredColumns DEF CredentialsOf
<1>4. Stored(r, new).passphrase \in {r, NoRequest, row.passphrase}
  BY StoredColumns
<1>5. row.passphrase \in Over /\ NoRequest \in Over
  BY DEF AccountsInv, CredentialsUsed, CredentialsOf, Over
<1>6. Passphrases = {TRUE} => pass
  OBVIOUS
<1> QED BY <1>2, <1>3, <1>4, <1>5, <1>6 DEF CredentialsOf, OneRequest

\* A request that brings none leaves those of the row.
LEMMA OldCredentials ==
  ASSUME AccountsInv, NEW r \in AccountRequests, NEW new,
         new.key = loaded[r].key, new.secret = loaded[r].secret, new.passphrase = loaded[r].passphrase
  PROVE  CredentialsOf(Stored(r, new)) \subseteq Over \union {r} /\ OneRequest(Stored(r, new))
<1>1. Stored(r, new).key = row.key /\ Stored(r, new).secret = row.secret /\ Stored(r, new).passphrase = row.passphrase
  BY StoredColumns
<1>2. CredentialsOf(row) \subseteq Over /\ OneRequest(row)
  BY DEF AccountsInv, CredentialsUsed, AccountsConsistent, CredentialsWhole, OneRequest
<1> QED BY <1>1, <1>2 DEF CredentialsOf, OneRequest

\* An UPDATE of a row nobody changed since it was loaded stores what the handler made.
LEMMA StoredAlone ==
  ASSUME NEW r, NEW new, row = loaded[r]
  PROVE  /\ Stored(r, new).key = new.key /\ Stored(r, new).status = new.status
         /\ Stored(r, new).rest = new.rest /\ Stored(r, new).ws = new.ws /\ Stored(r, new).private = new.private
BY StoredColumns

-----------------------------------------------------------------------------
(* What the handlers make of the row they loaded. *)

LEMMA CredentialsColumns ==
  ASSUME NEW old \in Rows, NEW r \in AccountRequests, NEW pass \in Passphrases, NEW on \in BOOLEAN
  PROVE  LET new == Credentials(r, old, pass, on) IN
         /\ new \in Rows
         /\ new.key = r /\ new.secret = r /\ new.passphrase = IF pass THEN r ELSE NoRequest
         /\ new.status = old.status /\ new.rest = old.rest /\ new.ws = old.ws /\ new.private = old.private
BY AccountsAssumption DEF Rows, Credentials, Creds

LEMMA ResetColumns ==
  ASSUME NEW old \in Rows
  PROVE  LET new == ResetStatus(old) IN
         /\ new \in Rows /\ new.status = "disconnected"
         /\ new.key = old.key /\ new.secret = old.secret /\ new.passphrase = old.passphrase
BY DEF Rows, ResetStatus, Statuses

\* _test_exchange_connection: connected means that every step of the test passed.
LEMMA OutcomeColumns ==
  ASSUME NEW o \in Outcomes
  PROVE  /\ o.status \in Statuses /\ o.rest \in BOOLEAN /\ o.ws \in BOOLEAN /\ o.private \in BOOLEAN
         /\ o.status = "connected" => o.rest = TRUE /\ o.ws = TRUE /\ o.private = TRUE
<1>1. ASSUME NEW rest \in BOOLEAN, o = [status |-> "network_error", rest |-> rest, ws |-> FALSE, private |-> TRUE]
      PROVE  /\ o.status \in Statuses /\ o.rest \in BOOLEAN /\ o.ws \in BOOLEAN /\ o.private \in BOOLEAN
             /\ o.status # "connected"
  BY <1>1 DEF Statuses
<1>2. ASSUME NEW s \in {"invalid_credentials", "rest_failed", "private_ws_failed"},
             o = [status |-> s, rest |-> TRUE, ws |-> TRUE, private |-> FALSE]
      PROVE  /\ o.status \in Statuses /\ o.rest \in BOOLEAN /\ o.ws \in BOOLEAN /\ o.private \in BOOLEAN
             /\ o.status # "connected"
  BY <1>2 DEF Statuses
<1>3. ASSUME o = [status |-> "connected", rest |-> TRUE, ws |-> TRUE, private |-> TRUE]
      PROVE  o.status \in Statuses /\ o.rest = TRUE /\ o.ws = TRUE /\ o.private = TRUE
  BY <1>3 DEF Statuses
<1> QED BY <1>1, <1>2, <1>3, Zenon DEF Outcomes

LEMMA ResultColumns ==
  ASSUME NEW old \in Rows, NEW o, o.status \in Statuses, o.rest \in BOOLEAN, o.ws \in BOOLEAN, o.private \in BOOLEAN
  PROVE  LET new == ApplyTestResult(old, o) IN
         /\ new \in Rows
         /\ new.status = o.status /\ new.rest = o.rest /\ new.ws = o.ws /\ new.private = o.private
         /\ new.key = old.key /\ new.secret = old.secret /\ new.passphrase = old.passphrase
BY DEF Rows, ApplyTestResult

LEMMA EnabledColumns ==
  ASSUME NEW old \in Rows, NEW on \in BOOLEAN
  PROVE  LET new == [old EXCEPT !.enabled = on] IN
         /\ new \in Rows
         /\ new.status = old.status /\ new.rest = old.rest /\ new.ws = old.ws /\ new.private = old.private
         /\ new.key = old.key /\ new.secret = old.secret /\ new.passphrase = old.passphrase
BY DEF Rows

-----------------------------------------------------------------------------
(* The handlers. *)

\* exchanges_connect and coinstore_account_upsert on an account that is not there.
LEMMA InsertKeeps ==
  ASSUME AccountsInv, NEW r \in AccountRequests, NEW pass \in Passphrases, NEW on \in BOOLEAN,
         InsertAccount(r, Credentials(r, Blank, pass, on))
  PROVE  AccountsInv'
<1> DEFINE new == Credentials(r, Blank, pass, on)
<1>1. /\ new \in Rows /\ new.key = r /\ new.secret = r /\ new.passphrase = (IF pass THEN r ELSE NoRequest)
      /\ new.status = Blank.status
  BY CredentialsColumns, BlankTyped
<1>2. /\ row' = new /\ at[r] = "loaded" /\ at' = [at EXCEPT ![r] = "ok"] /\ loaded' = loaded
  BY DEF InsertAccount, localVars
<1> HIDE DEF new
<1>3. CredentialsOf(new) \subseteq Over \union {r}
  BY <1>1 DEF CredentialsOf, Over
<1>4. OneRequest(new)
  <2>1. Passphrases = {TRUE} => pass
    OBVIOUS
  <2> QED BY <1>1, <2>1 DEF OneRequest
<1>5. new.status = "disconnected"
  BY <1>1 DEF Blank
<1>6. ConnectedMeansTested' /\ FlagsAgree'
  BY <1>2, <1>5 DEF ConnectedMeansTested, FlagsAgree
<1> QED BY <1>1, <1>2, <1>3, <1>4, <1>6, WriteKeeps

\* exchanges_connect on an account that is there.
LEMMA ReconnectKeeps ==
  ASSUME AccountsInv, NEW r \in AccountRequests, NEW pass \in Passphrases, NEW on \in BOOLEAN,
         Update(r, ResetStatus(Credentials(r, loaded[r], pass, on))), UNCHANGED <<tested, unreset>>
  PROVE  AccountsInv'
<1> DEFINE cred == Credentials(r, loaded[r], pass, on)
           new == ResetStatus(cred)
<1>0. loaded[r] \in Rows /\ row \in Rows
  BY DEF AccountsInv, AccountTypes
<1>1. cred \in Rows /\ cred.key = r /\ cred.secret = r /\ cred.passphrase = IF pass THEN r ELSE NoRequest
  BY <1>0, CredentialsColumns
<1>2. /\ new \in Rows /\ new.status = "disconnected"
      /\ new.key = r /\ new.secret = r /\ new.passphrase = IF pass THEN r ELSE NoRequest
  <2> HIDE DEF cred
  <2> QED BY <1>1, ResetColumns
<1>3. /\ at[r] = "loaded" /\ at' = [at EXCEPT ![r] = "ok"] /\ loaded' = loaded
      /\ row' = Stored(r, new) /\ overlap' = (overlap \/ row # loaded[r])
  BY DEF Update, localVars
<1> HIDE DEF new
<1>4. row' \in Rows
  BY <1>0, <1>2, <1>3, StoredTyped
<1>5. CredentialsOf(row') \subseteq Over \union {r} /\ OneRequest(row')
  BY <1>2, <1>3, NewCredentials
<1>6. row = loaded[r] => row'.status # "connected"
  BY <1>2, <1>3, StoredAlone
<1>7. ConnectedMeansTested' /\ FlagsAgree'
  BY <1>3, <1>6 DEF ConnectedMeansTested, FlagsAgree
<1> QED BY <1>3, <1>4, <1>5, <1>7, WriteKeeps

\* coinstore_account_upsert on an account that is there.
LEMMA UpsertKeeps ==
  ASSUME AccountsInv, NEW r \in AccountRequests, NEW pass \in Passphrases, NEW on \in BOOLEAN,
         Update(r, Credentials(r, loaded[r], pass, on)), unreset', UNCHANGED tested
  PROVE  AccountsInv'
<1> DEFINE new == Credentials(r, loaded[r], pass, on)
<1>0. loaded[r] \in Rows /\ row \in Rows
  BY DEF AccountsInv, AccountTypes
<1>1. /\ new \in Rows
      /\ new.key = r /\ new.secret = r /\ new.passphrase = (IF pass THEN r ELSE NoRequest)
      /\ new.status = loaded[r].status /\ new.rest = loaded[r].rest /\ new.ws = loaded[r].ws /\ new.private = loaded[r].private
  BY <1>0, CredentialsColumns
<1>2. /\ at[r] = "loaded" /\ at' = [at EXCEPT ![r] = "ok"] /\ loaded' = loaded
      /\ row' = Stored(r, new) /\ overlap' = (overlap \/ row # loaded[r])
  BY DEF Update, localVars
<1> HIDE DEF new
<1>3. row' \in Rows
  BY <1>0, <1>1, <1>2, StoredTyped
<1>4. CredentialsOf(row') \subseteq Over \union {r} /\ OneRequest(row')
  BY <1>1, <1>2, NewCredentials
<1>5. row = loaded[r] => row'.status = row.status /\ row'.rest = row.rest /\ row'.ws = row.ws /\ row'.private = row.private
  BY <1>1, <1>2, StoredAlone
<1>6. FlagsAgree
  BY DEF AccountsInv, AccountsConsistent
<1>7. ConnectedMeansTested' /\ FlagsAgree'
  BY <1>2, <1>5, <1>6 DEF ConnectedMeansTested, FlagsAgree
<1> QED BY <1>2, <1>3, <1>4, <1>7, WriteKeeps

\* coinstore_account_status
LEMMA SetEnabledKeeps ==
  ASSUME AccountsInv, NEW r \in AccountRequests, NEW on \in BOOLEAN, SetEnabled(r, on)
  PROVE  AccountsInv'
<1> DEFINE new == [loaded[r] EXCEPT !.enabled = on]
<1>0. loaded[r] \in Rows /\ row \in Rows
  BY DEF AccountsInv, AccountTypes
<1>1. /\ new \in Rows
      /\ new.status = loaded[r].status /\ new.rest = loaded[r].rest /\ new.ws = loaded[r].ws /\ new.private = loaded[r].private
      /\ new.key = loaded[r].key /\ new.secret = loaded[r].secret /\ new.passphrase = loaded[r].passphrase
  BY <1>0, EnabledColumns
<1>2. /\ at[r] = "loaded" /\ at' = [at EXCEPT ![r] = "ok"] /\ loaded' = loaded
      /\ row' = Stored(r, new) /\ overlap' = (overlap \/ row # loaded[r]) /\ UNCHANGED <<tested, unreset>>
  BY DEF SetEnabled, Update, localVars
<1> HIDE DEF new
<1>3. row' \in Rows
  BY <1>0, <1>1, <1>2, StoredTyped
<1>4. CredentialsOf(row') \subseteq Over \union {r} /\ OneRequest(row')
  BY <1>1, <1>2, OldCredentials
<1>5. row = loaded[r] => /\ row'.key = row.key /\ row'.status = row.status
                         /\ row'.rest = row.rest /\ row'.ws = row.ws /\ row'.private = row.private
  BY <1>1, <1>2, StoredAlone
<1>6. ConnectedMeansTested /\ FlagsAgree
  BY DEF AccountsInv, AccountsConsistent
<1>7. ConnectedMeansTested' /\ FlagsAgree'
  BY <1>2, <1>5, <1>6 DEF ConnectedMeansTested, FlagsAgree
<1> QED BY <1>2, <1>3, <1>4, <1>7, WriteKeeps

\* exchanges_test
LEMMA TestKeeps ==
  ASSUME AccountsInv, NEW r \in AccountRequests, NEW o \in Outcomes, Test(r, o)
  PROVE  AccountsInv'
<1> DEFINE new == ApplyTestResult(loaded[r], o)
<1>0. loaded[r] \in Rows /\ row \in Rows
  BY DEF AccountsInv, AccountTypes
<1>1. /\ new \in Rows
      /\ new.status = o.status /\ new.rest = o.rest /\ new.ws = o.ws /\ new.private = o.private
      /\ new.key = loaded[r].key /\ new.secret = loaded[r].secret /\ new.passphrase = loaded[r].passphrase
  BY <1>0, OutcomeColumns, ResultColumns
<1>2. /\ at[r] = "loaded" /\ at' = [at EXCEPT ![r] = "ok"] /\ loaded' = loaded
      /\ row' = Stored(r, new) /\ overlap' = (overlap \/ row # loaded[r]) /\ UNCHANGED unreset
      /\ o.status = "connected" => loaded[r].key \in tested'
  BY DEF Test, Update, localVars
<1> HIDE DEF new
<1>3. row' \in Rows
  BY <1>0, <1>1, <1>2, StoredTyped
<1>4. CredentialsOf(row') \subseteq Over \union {r} /\ OneRequest(row')
  BY <1>1, <1>2, OldCredentials
<1>5. row = loaded[r] => /\ row'.key = loaded[r].key /\ row'.status = o.status
                         /\ row'.rest = o.rest /\ row'.ws = o.ws /\ row'.private = o.private
  BY <1>1, <1>2, StoredAlone
<1>6. o.status = "connected" => o.rest = TRUE /\ o.ws = TRUE /\ o.private = TRUE
  BY OutcomeColumns
<1>7. ConnectedMeansTested'
  BY <1>2, <1>5 DEF ConnectedMeansTested
<1>8. FlagsAgree'
  BY <1>2, <1>5, <1>6 DEF FlagsAgree
<1> QED BY <1>2, <1>3, <1>4, <1>7, <1>8, WriteKeeps

LEMMA RemoveKeeps ==
  ASSUME AccountsInv, NEW r \in AccountRequests, Remove(r)
  PROVE  AccountsInv'
<1>1. row' = Blank /\ at[r] = "loaded" /\ at' = [at EXCEPT ![r] = "ok"] /\ loaded' = loaded
  BY DEF Remove, localVars
<1>2. row' \in Rows
  BY <1>1, BlankTyped
<1>3. CredentialsOf(Blank) \subseteq Over /\ OneRequest(Blank) /\ Blank.status = "disconnected"
  BY DEF Blank, CredentialsOf, OneRequest, Over
<1>4. ConnectedMeansTested' /\ FlagsAgree'
  BY <1>1, <1>3 DEF ConnectedMeansTested, FlagsAgree
<1> QED BY <1>1, <1>2, <1>3, <1>4, WriteKeeps

LEMMA AccountsKeeps ==
  ASSUME AccountsInv, [AccountsNext]_accountVars
  PROVE  AccountsInv'
<1>1. ASSUME NEW r \in AccountRequests, Load(r) PROVE AccountsInv'
  BY <1>1, LoadKeeps
<1>2. ASSUME NEW r \in AccountRequests, NEW pass \in Passphrases, NEW on \in BOOLEAN, ExchangesConnect(r, pass, on)
      PROVE  AccountsInv'
  BY <1>2, InsertKeeps, ReconnectKeeps DEF ExchangesConnect
<1>3. ASSUME NEW r \in AccountRequests, NEW pass \in Passphrases, NEW on \in BOOLEAN, Upsert(r, pass, on)
      PROVE  AccountsInv'
  BY <1>3, InsertKeeps, UpsertKeeps DEF Upsert
<1>4. ASSUME NEW r \in AccountRequests, NEW on \in BOOLEAN, SetEnabled(r, on) PROVE AccountsInv'
  BY <1>4, SetEnabledKeeps
<1>5. ASSUME NEW r \in AccountRequests, NEW o \in Outcomes, Test(r, o) PROVE AccountsInv'
  BY <1>5, TestKeeps
<1>6. ASSUME NEW r \in AccountRequests, SyncBalances(r) \/ RollbackRequest(r) PROVE AccountsInv'
  <2>1. PICK p \in Handling : at' = [at EXCEPT ![r] = p]
    BY <1>6 DEF SyncBalances, RollbackRequest, Handling
  <2> QED BY <1>6, <2>1, NoWriteKeeps DEF SyncBalances, RollbackRequest, localVars
<1>7. ASSUME NEW r \in AccountRequests, Remove(r) PROVE AccountsInv'
  BY <1>7, RemoveKeeps
<1>8. CASE UNCHANGED accountVars
  BY <1>8 DEF accountVars, AccountsInv, AccountTypes, CredentialsUsed, CredentialsOf, Over, LoadedWhole, OneRequest,
              AccountsConsistent, ConnectedMeansTested, FlagsAgree, CredentialsWhole
<1> QED BY <1>1, <1>2, <1>3, <1>4, <1>5, <1>6, <1>7, <1>8 DEF AccountsNext, Handler

\* The account handlers, for any number of requests of any kinds that overlap in any
\* way: the credentials of a row come from one request, and a connected account was
\* tested with them and has all its flags, except where an upsert or an overlap left
\* it otherwise.
THEOREM AccountsConsistentAlways == AccountsSpec => []AccountsConsistent
<1>1. AccountsInv /\ [AccountsNext]_accountVars => AccountsInv'
  BY AccountsKeeps
<1>2. AccountsInv => AccountsConsistent
  BY DEF AccountsInv
<1> QED BY AccountsStart, <1>1, <1>2, PTL DEF AccountsSpec

-----------------------------------------------------------------------------
(* The dashboard's stream: OperationsStream. *)

\* Typing of what the polls compare.
StreamTypes ==
  /\ tableRows \in [Tables -> Nat] /\ polled \in [Tables -> Nat] /\ first \in [Tables -> Nat]
  /\ known \in [Tables -> SUBSET Nat]
  /\ poll \in {"off", "sleep", "counters"} \union Tables

\* What last_seen holds of a table came from its queries, and no query is further
\* behind than a burst.
PollsFollow ==
  IF poll = "off" THEN \A t \in Tables : known[t] = {}
  ELSE \A t \in Tables : /\ first[t] <= polled[t] /\ polled[t] <= tableRows[t]
                         /\ tableRows[t] - polled[t] <= Burst
                         /\ known[t] \subseteq 1..polled[t]

\* The last QueryLimit of n rows.
LastRows(n) == {i \in 1..n : i > n - QueryLimit}

\* Once a risk event has been sent, the last ones the query returned are shown.
RiskSent ==
  poll # "off" =>
    \/ polled["risk_events"] = first["risk_events"] /\ known["risk_events"] = {}
    \/ LastRows(polled["risk_events"]) \subseteq shown

StreamInv == StreamTypes /\ PollsFollow /\ NoRowLost /\ RiskSent

LEMMA StreamStart == StreamInit => StreamInv
BY DEF StreamInit, StreamInv, StreamTypes, PollsFollow, NoRowLost, RiskSent, NoRows, Tables

LEMMA InsertRowKeeps ==
  ASSUME StreamInv, NEW t \in Tables, InsertRow(t)
  PROVE  StreamInv'
BY StreamAssumption DEF InsertRow, StreamInv, StreamTypes, PollsFollow, NoRowLost, RiskSent, LastRows, connectionVars

LEMMA SendRowsKeeps ==
  ASSUME StreamInv, NEW t \in {"orders", "trades"}, NEW next \in {"trades", "risk_events"}, SendRows(t, next)
  PROVE  StreamInv'
<1>a. t \in Tables /\ next \in Tables /\ t # "risk_events" /\ poll # "off" /\ poll' # "off"
  BY DEF SendRows, Tables
<1>b. tableRows' = tableRows /\ first' = first /\ shown' = shown
  BY DEF SendRows
<1>c. polled' = [polled EXCEPT ![t] = tableRows[t]] /\ known' = [known EXCEPT ![t] = @ \union Latest(t)]
  BY DEF SendRows
<1>d. Latest(t) \subseteq 1..tableRows[t]
  BY DEF Latest
<1>1. StreamTypes'
  BY <1>a, <1>b, <1>c, <1>d DEF SendRows, StreamInv, StreamTypes
<1>2. PollsFollow'
  <2>1. ASSUME NEW u \in Tables, u # t
        PROVE  first'[u] <= polled'[u] /\ polled'[u] <= tableRows'[u] /\ tableRows'[u] - polled'[u] <= Burst
               /\ known'[u] \subseteq 1..polled'[u]
    BY <2>1, <1>a, <1>b, <1>c DEF StreamInv, StreamTypes, PollsFollow
  <2>2. polled'[t] = tableRows[t] /\ known'[t] = known[t] \union Latest(t)
    BY <1>a, <1>c DEF StreamInv, StreamTypes
  <2>3. first[t] <= polled[t] /\ polled[t] <= tableRows[t] /\ known[t] \subseteq 1..polled[t]
    BY <1>a DEF StreamInv, PollsFollow
  <2>4. known'[t] \subseteq 1..tableRows[t]
    BY <2>2, <2>3, <1>d, <1>a DEF StreamInv, StreamTypes
  <2>5. first'[t] <= polled'[t] /\ polled'[t] <= tableRows'[t] /\ tableRows'[t] - polled'[t] <= Burst
        /\ known'[t] \subseteq 1..polled'[t]
    BY <2>2, <2>3, <2>4, <1>a, <1>b, StreamAssumption DEF StreamInv, StreamTypes
  <2> QED BY <2>1, <2>5, <1>a DEF PollsFollow
<1>3. NoRowLost'
  <2> SUFFICES ASSUME Burst <= QueryLimit, NEW u \in {"orders", "trades"}, NEW i \in 1..polled'[u], i > first'[u]
               PROVE  i \in known'[u]
    BY DEF NoRowLost
  <2>0. u \in Tables BY DEF Tables
  <2>1. CASE u # t
    BY <2>0, <2>1, <1>a, <1>b, <1>c DEF StreamInv, StreamTypes, NoRowLost
  <2>2. CASE u = t
    <3>1. polled'[t] = tableRows[t] /\ known'[t] = known[t] \union Latest(t)
      BY <1>a, <1>c DEF StreamInv, StreamTypes
    <3>2. CASE i \in 1..polled[t]
      BY <3>1, <3>2, <2>2, <1>a, <1>b DEF StreamInv, NoRowLost
    <3>3. CASE i \notin 1..polled[t]
      <4>1. polled[t] \in Nat /\ tableRows[t] \in Nat /\ tableRows[t] - polled[t] <= Burst
        BY <1>a DEF StreamInv, StreamTypes, PollsFollow
      <4>2. i \in 1..tableRows[t] /\ i > tableRows[t] - QueryLimit
        BY <4>1, <3>1, <3>3, <2>2, StreamAssumption
      <4> QED BY <4>2, <3>1, <2>2 DEF Latest
    <3> QED BY <3>2, <3>3
  <2> QED BY <2>1, <2>2
<1>4. RiskSent'
  BY <1>a, <1>b, <1>c DEF StreamInv, StreamTypes, RiskSent, LastRows, Tables
<1> QED BY <1>1, <1>2, <1>3, <1>4 DEF StreamInv

LEMMA SendRiskKeeps ==
  ASSUME StreamInv, SendRisk
  PROVE  StreamInv'
<1> DEFINE t == "risk_events"
           n == tableRows[t]
<1>a. t \in Tables /\ poll # "off" /\ poll' = "sleep"
  BY DEF SendRisk, Tables
<1>b. tableRows' = tableRows /\ first' = first /\ polled' = [polled EXCEPT ![t] = tableRows[t]]
  BY DEF SendRisk
<1>c. /\ n \in Nat /\ polled[t] \in Nat /\ first[t] \in Nat /\ first[t] <= polled[t] /\ polled[t] <= n
      /\ known[t] \subseteq 1..polled[t] /\ polled'[t] = n
  BY <1>a, <1>b DEF StreamInv, StreamTypes, PollsFollow
<1>d. Latest(t) = LastRows(n) /\ Latest(t) \subseteq 1..n
  BY DEF Latest, LastRows
<1>e. /\ known' \in [Tables -> SUBSET Nat]
      /\ \A u \in Tables \ {t} : known'[u] = known[u]
      /\ known'[t] \subseteq known[t] \union Latest(t)
  <2>1. CASE Latest(t) \ known[t] = {}
    BY <2>1 DEF SendRisk, StreamInv, StreamTypes
  <2>2. CASE Latest(t) \ known[t] # {}
    <3>1. PICK i \in Latest(t) \ known[t] : known' = [known EXCEPT ![t] = @ \union {i}]
      BY <2>2 DEF SendRisk
    <3> QED BY <3>1, <1>a, <1>d DEF StreamInv, StreamTypes
  <2> QED BY <2>1, <2>2
<1>1. StreamTypes'
  BY <1>a, <1>b, <1>e DEF StreamInv, StreamTypes
<1>2. PollsFollow'
  <2>1. ASSUME NEW u \in Tables, u # t
        PROVE  first'[u] <= polled'[u] /\ polled'[u] <= tableRows'[u] /\ tableRows'[u] - polled'[u] <= Burst
               /\ known'[u] \subseteq 1..polled'[u]
    BY <2>1, <1>a, <1>b, <1>e DEF StreamInv, StreamTypes, PollsFollow
  <2>2. known'[t] \subseteq 1..n
    BY <1>c, <1>d, <1>e
  <2>3. first'[t] <= polled'[t] /\ polled'[t] <= tableRows'[t] /\ tableRows'[t] - polled'[t] <= Burst
        /\ known'[t] \subseteq 1..polled'[t]
    BY <1>b, <1>c, <2>2, StreamAssumption
  <2> QED BY <2>1, <2>3, <1>a DEF PollsFollow
<1>3. NoRowLost'
  <2> SUFFICES ASSUME Burst <= QueryLimit, NEW u \in {"orders", "trades"}, NEW i \in 1..polled'[u], i > first'[u]
               PROVE  i \in known'[u]
    BY DEF NoRowLost
  <2>0. u \in Tables \ {t} BY DEF Tables
  <2>1. polled'[u] = polled[u] /\ known'[u] = known[u]
    BY <2>0, <1>b, <1>e DEF StreamInv, StreamTypes
  <2> QED BY <2>1, <1>a, <1>b DEF StreamInv, NoRowLost
<1>4. RiskSent'
  <2>1. CASE Latest(t) \ known[t] = {}
    <3>0. known' = known /\ shown' = shown
      BY <2>1 DEF SendRisk
    <3>1. CASE n = 0
      <4>1. LastRows(n) = {} BY <3>1 DEF LastRows
      <4> QED BY <4>1, <1>c DEF RiskSent
    <3>2. CASE n # 0
      <4>1. n \in Latest(t)
        BY <3>2, <1>c, <1>d, StreamAssumption DEF LastRows
      <4>2. n \in known[t] BY <4>1, <2>1
      <4>3. polled[t] = n BY <4>2, <1>c
      <4>4. LastRows(polled[t]) \subseteq shown
        BY <4>2, <1>a DEF StreamInv, RiskSent
      <4> QED BY <4>3, <4>4, <3>0, <1>c DEF RiskSent
    <3> QED BY <3>1, <3>2
  <2>2. CASE Latest(t) \ known[t] # {}
    <3>1. shown' = Latest(t)
      BY <2>2 DEF SendRisk
    <3> QED BY <3>1, <1>c, <1>d DEF RiskSent
  <2> QED BY <2>1, <2>2
<1> QED BY <1>1, <1>2, <1>3, <1>4 DEF StreamInv

LEMMA StreamKeeps ==
  ASSUME StreamInv, [StreamNext]_streamVars
  PROVE  StreamInv'
<1>1. ASSUME NEW t \in Tables, InsertRow(t) PROVE StreamInv'
  BY <1>1, InsertRowKeeps
<1>2. CASE UNCHANGED <<tableRows, connectionVars>>
  BY <1>2 DEF StreamInv, StreamTypes, PollsFollow, NoRowLost, RiskSent, LastRows, connectionVars
<1>3. CASE Count \/ EngineBeat \/ Expire \/ StopEngine \/ Restart
  BY <1>2, <1>3 DEF Count, EngineBeat, Expire, StopEngine, Restart
<1>4. CASE StreamConnect
  BY <1>4, StreamAssumption DEF StreamConnect, StreamInv, StreamTypes, PollsFollow, NoRowLost, RiskSent, LastRows, Tables
<1>5. CASE StreamDisconnect
  BY <1>5 DEF StreamDisconnect, NoRows, StreamInv, StreamTypes, PollsFollow, NoRowLost, RiskSent, Tables
<1>6. CASE Wake \/ Counters
  <2>1. /\ poll # "off" /\ poll' # "off" /\ poll' \in {"counters", "orders"}
        /\ UNCHANGED <<tableRows, known, polled, first, shown>>
    BY <1>6 DEF Wake, Counters
  <2> QED BY <2>1 DEF StreamInv, StreamTypes, PollsFollow, NoRowLost, RiskSent, LastRows, Tables
<1>7. CASE SendOrders \/ SendTrades
  BY <1>7, SendRowsKeeps DEF SendOrders, SendTrades
<1>8. CASE SendRisk
  BY <1>8, SendRiskKeeps
<1>9. CASE UNCHANGED streamVars
  BY <1>2, <1>9 DEF streamVars, connectionVars
<1> QED BY <1>1, <1>3, <1>4, <1>5, <1>6, <1>7, <1>8, <1>9 DEF StreamNext, Poll

LEMMA DashboardFollows == StreamInv => DashboardCurrent
<1> SUFFICES ASSUME StreamInv, poll \in {"sleep", "counters", "orders", "trades"},
                    NEW i \in 1..polled["risk_events"], i > first["risk_events"],
                    i > polled["risk_events"] - QueryLimit
             PROVE  i \in shown
  BY DEF DashboardCurrent, RiskListCurrent, StreamInv
<1>1. polled["risk_events"] \in Nat /\ first["risk_events"] \in Nat
  BY DEF StreamInv, StreamTypes, Tables
<1>2. i \in LastRows(polled["risk_events"])
  BY DEF LastRows
<1>3. polled["risk_events"] # first["risk_events"]
  BY <1>1
<1> QED BY <1>2, <1>3 DEF StreamInv, RiskSent

\* _send_operation_events, for any inserts, polls, lost connections, reconnects and
\* engine stops: an order or a trade a poll has passed was sent, as long as no more rows
\* arrive between two polls than a query returns; and after every poll the dashboard
\* shows the latest risk events.
THEOREM DashboardCurrentAlways == StreamSpec => []DashboardCurrent
<1>1. StreamInv /\ [StreamNext]_streamVars => StreamInv'
  BY StreamKeeps
<1> QED BY StreamStart, <1>1, DashboardFollows, PTL DEF StreamSpec
=============================================================================
