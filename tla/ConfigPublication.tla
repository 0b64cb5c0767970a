------------------------- MODULE ConfigPublication -------------------------
(***************************************************************************)
(* Runtime configuration: PUT /admin/config/{domain} reads the latest row  *)
(* of the domain, merges the request over it, inserts the next version,    *)
(* publishes the whole runtime configuration to the engines, and commits   *)
(* only when the handler is over (the session's context manager).  Every   *)
(* read and every publication is an await of its own, so two requests      *)
(* interleave; an engine reads the stored configuration when it boots, and *)
(* subscribes to publications at its first tick.                           *)
(*                                                                         *)
(* Reads are those of PostgreSQL's default READ COMMITTED: committed rows  *)
(* and the transaction's own.  runtime_config() reads domain by domain; it *)
(* is one step here, which is exact for two domains, the request's own     *)
(* being read from its own uncommitted row.  The two Redis keys the update *)
(* writes have no reader, and acknowledgements are not read either: both   *)
(* are left out.                                                           *)
(***************************************************************************)
EXTENDS Integers, Sequences, FiniteSets, FiniteSetsExt

CONSTANTS
  Domains,      \* configuration domains (DOMAIN_MODELS)
  Feed,         \* those the market data engine is told of: exchange, liquidity
  Fields,       \* the fields of a domain's configuration
  Default,      \* the value of every field in default_runtime_config()
  Overlays,     \* the partial configurations an operator may send
  Updates,      \* update requests
  UpdateFaults  \* how often a publication or a commit may fail

ASSUME ConfigAssumption ==
  /\ "liquidity" \in Feed /\ Feed \subseteq Domains
  /\ \A overlay \in Overlays : DOMAIN overlay \subseteq Fields
  /\ UpdateFaults \in Nat

Engines == {"market-maker-engine", "market-data-engine"}

VARIABLES
  configRows,   \* committed bot_configs rows
  req,          \* the update requests, by request
  engine,       \* the engines: status, configuration they run, bus inbox
  drift,        \* history: engines that may run something else than the store
  updateFaults  \* faults so far

configVars == <<configRows, req, engine, drift, updateFaults>>

----------------------------------------------------------------------------
(* Rows and reads.                                                         *)

DefaultConfig == [d \in Domains |-> [f \in Fields |-> Default]]

\* The rows transaction r sees: the committed ones and its own.
Visible(r) == configRows \cup IF r \in DOMAIN req THEN req[r].row ELSE {}

\* get_latest: the row of the domain with the highest version, as a set.
GetLatest(seen, d) ==
  {x \in seen : x.domain = d /\ \A y \in seen : y.domain = d => y.version <= x.version}

\* _deep_merge: the overlay's fields over the base's.
DeepMerge(base, overlay) ==
  [f \in DOMAIN base \cup DOMAIN overlay |-> IF f \in DOMAIN overlay THEN overlay[f] ELSE base[f]]

\* Mutant of EffectiveDomainConfig: the stored version is not merged in.
EffectiveIgnoresStored(seen, d, overlay) == DeepMerge(DefaultConfig[d], overlay)

\* effective_domain_config: defaults, the latest stored version, the overlay.
EffectiveDomainConfig(seen, d, overlay) ==
  LET stored == GetLatest(seen, d)
      base   == IF stored = {} THEN DefaultConfig[d]
                ELSE DeepMerge(DefaultConfig[d], (CHOOSE x \in stored : TRUE).config)
  IN  DeepMerge(base, overlay)

RuntimeConfig(seen) == [d \in Domains |-> EffectiveDomainConfig(seen, d, <<>>)]

InFlight == {r \in DOMAIN req : req[r].pc \notin {"done", "failed"}}

----------------------------------------------------------------------------
(* The request.                                                            *)

\* model_validate of the merged domain.
Validated(config) == \A f \in Fields : config[f] # "invalid"

\* update_domain_config, update_domain up to the merge: the request reads
\* the latest row; an overlay the model rejects ends it here.
BeginUpdate(r, d, overlay) ==
  /\ r \notin DOMAIN req
  /\ LET merged == EffectiveDomainConfig(configRows, d, overlay)
         others == InFlight
         begun  == [pc |-> IF Validated(merged) THEN "version" ELSE "failed",
                    domain |-> d, overlay |-> overlay, config |-> merged,
                    version |-> 0, row |-> {}, runtime |-> DefaultConfig,
                    channel |-> 1, alone |-> others = {}, heard |-> Engines, told |-> {}]
     IN  req' = [q \in DOMAIN req \cup {r} |->
                   IF q = r THEN begun
                   ELSE IF q \in others THEN [req[q] EXCEPT !.alone = FALSE] ELSE req[q]]
  /\ UNCHANGED <<configRows, engine, drift, updateFaults>>

\* The version after the latest one.
NextVersion(seen, d) == 1 + Max({0} \cup {x.version : x \in GetLatest(seen, d)})

\* upsert_domain reads the latest version again ...
ReadVersion(r) ==
  /\ req[r].pc = "version"
  /\ req' = [req EXCEPT ![r].pc = "flush", ![r].version = NextVersion(configRows, req[r].domain)]
  /\ UNCHANGED <<configRows, engine, drift, updateFaults>>

SameKey(x, r) == x.domain = req[r].domain /\ x.version = req[r].version

Inserted(r) ==
  [req EXCEPT ![r].pc = "config",
     ![r].row = {[domain |-> req[r].domain, version |-> req[r].version,
                  config |-> req[r].config, by |-> r]}]

\* ... and inserts: it waits for a transaction holding the same
\* (name, version), and the constraint refuses a version already committed.
Flush(r) ==
  /\ req[r].pc = "flush"
  /\ \A q \in InFlight \ {r} : \A x \in req[q].row : ~SameKey(x, r)
  /\ req' = IF \E x \in configRows : SameKey(x, r)
            THEN [req EXCEPT ![r].pc = "failed"]
            ELSE Inserted(r)
  /\ UNCHANGED <<configRows, engine, drift, updateFaults>>

\* runtime_config(): the configuration of every domain, for the engines.
ReadRuntimeConfig(r) ==
  /\ req[r].pc = "config"
  /\ req' = [req EXCEPT ![r].pc = "publish", ![r].runtime = RuntimeConfig(Visible(r))]
  /\ UNCHANGED <<configRows, engine, drift, updateFaults>>

\* The channels in the order update_domain publishes on them, each as the
\* set of engines subscribed to it; runtime.events has no engine on it.
Channels(d) ==
  << {"market-maker-engine"},                                           \* runtime.config.updated
     {"market-maker-engine"} \cup IF d \in Feed THEN {"market-data-engine"} ELSE {},
     {"market-maker-engine"},                                           \* engine commands
     IF d \in Feed THEN {"market-data-engine"} ELSE {} >>

\* One publication: engines subscribed now get it, the others never will.
Publish(r) ==
  /\ req[r].pc = "publish"
  /\ LET audience == Channels(req[r].domain)[req[r].channel]
         up       == {e \in audience : engine[e].status = "up"}
         last     == req[r].channel = 4
     IN  /\ engine' = [e \in Engines |->
              IF e \in up THEN [engine[e] EXCEPT !.inbox = Append(@, req[r].runtime)]
                          ELSE engine[e]]
         /\ req' = [req EXCEPT ![r].pc = IF last THEN "commit" ELSE "publish",
                      ![r].channel = IF last THEN @ ELSE @ + 1,
                      ![r].heard = @ \ (audience \ up), ![r].told = @ \cup up]
  /\ UNCHANGED <<configRows, drift, updateFaults>>

\* The session's commit, after the handler.
Commit(r) ==
  /\ req[r].pc = "commit"
  /\ configRows' = configRows \cup req[r].row
  /\ req' = [req EXCEPT ![r].pc = "done", ![r].row = {}]
  /\ drift' = IF ~req[r].alone THEN Engines
              ELSE (drift \ (req[r].told \cap req[r].heard)) \cup (Engines \ req[r].heard)
  /\ UNCHANGED <<engine, updateFaults>>

\* A publication or the commit fails: rollback, whatever was published.
FailUpdate(r) ==
  /\ req[r].pc \in {"publish", "commit"}
  /\ updateFaults < UpdateFaults
  /\ updateFaults' = updateFaults + 1
  /\ req' = [req EXCEPT ![r].pc = "failed", ![r].row = {}]
  /\ drift' = drift \cup req[r].told
  /\ UNCHANGED <<configRows, engine>>

----------------------------------------------------------------------------
(* The engines.                                                            *)

\* _initialize_dependencies: the stored configuration, or the defaults when
\* the database cannot be read.
BootEngine(e, readable) ==
  /\ engine[e].status = "down"
  /\ readable \/ updateFaults < UpdateFaults
  /\ updateFaults' = IF readable THEN updateFaults ELSE updateFaults + 1
  /\ engine' = [engine EXCEPT ![e] =
       [status |-> "booted", inbox |-> <<>>,
        config |-> IF readable THEN RuntimeConfig(configRows) ELSE DefaultConfig]]
  /\ drift' = IF readable THEN drift \ {e} ELSE drift \cup {e}
  /\ UNCHANGED <<configRows, req>>

\* ensure_started: the subscription, at the first tick.
Subscribe(e) ==
  /\ engine[e].status = "booted"
  /\ engine' = [engine EXCEPT ![e].status = "up"]
  /\ UNCHANGED <<configRows, req, drift, updateFaults>>

\* _apply_config_payload: the whole configuration is replaced; the market
\* data engine (_consume_runtime_commands) takes its liquidity settings.
Consume(e) ==
  /\ engine[e].status = "up"
  /\ engine[e].inbox # <<>>
  /\ LET new == Head(engine[e].inbox)
     IN  engine' = [engine EXCEPT ![e].inbox = Tail(@),
           ![e].config = IF e = "market-maker-engine" THEN new
                         ELSE [d \in Domains |-> IF d = "liquidity" THEN new[d] ELSE @[d]]]
  /\ UNCHANGED <<configRows, req, drift, updateFaults>>

\* The process ends: its subscription and what it had not consumed go too.
EngineEnds(e) ==
  /\ engine[e].status # "down"
  /\ updateFaults < UpdateFaults
  /\ updateFaults' = updateFaults + 1
  /\ engine' = [engine EXCEPT ![e].status = "down", ![e].inbox = <<>>]
  /\ req' = [r \in DOMAIN req |-> IF r \in InFlight
               THEN [req[r] EXCEPT !.told = @ \ {e},
                                   !.heard = IF e \in req[r].told THEN @ \ {e} ELSE @]
               ELSE req[r]]
  /\ UNCHANGED <<configRows, drift>>

----------------------------------------------------------------------------
ConfigInit ==
  /\ configRows = {}
  /\ req = <<>>
  /\ engine = [e \in Engines |-> [status |-> "down", inbox |-> <<>>, config |-> DefaultConfig]]
  /\ drift = {}
  /\ updateFaults = 0

RequestStep(r) ==
  \/ ReadVersion(r)
  \/ Flush(r)
  \/ ReadRuntimeConfig(r)
  \/ Publish(r)
  \/ Commit(r)

EngineStep(e) == BootEngine(e, TRUE) \/ Subscribe(e) \/ Consume(e)

ConfigNext ==
  \/ \E r \in Updates, d \in Domains, o \in Overlays : BeginUpdate(r, d, o)
  \/ \E r \in DOMAIN req : RequestStep(r) \/ FailUpdate(r)
  \/ \E e \in Engines : EngineStep(e) \/ BootEngine(e, FALSE) \/ EngineEnds(e)

ConfigSpec == ConfigInit /\ [][ConfigNext]_configVars

----------------------------------------------------------------------------
(* Properties.                                                             *)

Configs == [Domains -> [Fields -> {Default, "on", "invalid"}]]

\* The engines run, and requests carry, whole configurations of every
\* domain with no rejected value in them.
ConfigTypeOK ==
  /\ \A e \in Engines : engine[e].config \in Configs
  /\ \A x \in configRows : x.version \in Nat \ {0} /\ \A f \in Fields : x.config[f] # "invalid"
  /\ drift \subseteq Engines
  /\ updateFaults \in 0..UpdateFaults

\* bot_configs (name, version) names one configuration: two requests for the
\* same domain that both read version n cannot both commit n + 1.
VersionsUnique ==
  \A x, y \in configRows : x.domain = y.domain /\ x.version = y.version => x = y

\* The version of its domain before x.
Predecessors(seen, x) == {y \in seen : y.domain = x.domain /\ y.version = x.version - 1}

\* x is one of `before`, or the defaults, with the fields of the overlay over it.
BuildsOn(x, before, overlay) ==
  \A f \in Fields :
    IF f \in DOMAIN overlay THEN x.config[f] = overlay[f]
    ELSE x.config[f] \in IF before = {} THEN {Default} ELSE {y.config[f] : y \in before}

\* The configuration version n + 1 stores is version n with the request's
\* fields over it, for every request that met no other one under way: an
\* update never drops what an earlier update set.
UpdatesBuildOnPredecessor ==
  \A x \in configRows : req[x.by].alone => BuildsOn(x, Predecessors(configRows, x), req[x.by].overlay)

\* When nothing is under way, an engine runs the stored configuration (the
\* market data engine: its liquidity settings), unless it is one of those
\* the last update did not reach: updates that overlapped, a rollback after
\* a publication, a boot that fell between, and nothing else.  The next
\* update that runs alone and reaches the engine brings it back.
EnginesRunStored ==
  InFlight = {} =>
    \A e \in Engines \ drift :
      engine[e].status = "up" /\ engine[e].inbox = <<>> =>
        \A d \in Domains : e = "market-maker-engine" \/ d = "liquidity" =>
          engine[e].config[d] = RuntimeConfig(configRows)[d]

\* publish_update and the engines' reload: two requests for a domain that both read
\* version n cannot both commit version n + 1; a version is its predecessor with
\* the request's fields over it, for every request that met no other one under
\* way; and when nothing is under way, an engine the last update reached runs the
\* stored configuration.
UpdatesConsistent == VersionsUnique /\ UpdatesBuildOnPredecessor /\ EnginesRunStored
=============================================================================
