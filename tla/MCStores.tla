------------------------------- MODULE MCStores -------------------------------
(***************************************************************************)
(* What the processes keep beside the chain: the caches that make a proof  *)
(* and a token single-use, the rate counters, the registries of resources  *)
(* and actions, the verification of a resource, the Coordinator's          *)
(* directory and the Recommender's proposals.  None of these reads the     *)
(* state of another: a behaviour of this module is one of one of them, and *)
(* the others stay as they begin.                                          *)
(***************************************************************************)
EXTENDS SingleUse, FiniteSets, Sequences, TLC

CONSTANTS
  Instances, Handlers, None,
  Requests, MaxActions, RateWindow, RateFaults, RateTime,
  CacheTTL, Delay, PolicyFiles, Statuses, Budgets,
  MaxActionWrites,
  Urls, Secure, Scans, Cards, MaxChanges, MaxAsked, MaxLost,
  Tenants, Shared, Shapes, Findings, Enough, ReportWindow, Memory, Horizon, MaxEvidence, Rounds, Odd,
  t1, t2, s1, u1, u2,
  MaxFields    \* bound: fields present in a declaration

VARIABLES
  file, doc, policy, saving, inst, call, left, since, mine, count, overlap, puts, answer,
  request, outcome, result,
  store, acting, writes, revoked, lasting,
  second, up, counter, savedCounters, flight, pc, stamp, approved, disturbed,
  hour, evidence, proposals, tick, rounds, missed,
  web, dir, work, bound, latest, crossed,
  part    \* which of the seven this behaviour is of

FieldsOf ==
  [db |-> {"url", "project_id", "instance", "engine", "conn_known_scheme", "conn_garbage"},
   api |-> {"url", "base_url", "auth_type", "openapi_spec_url"},
   storage |-> {"url", "bucket", "account", "creds", "aws_keys", "bearer_token", "null_creds"},
   queue |-> {"url", "topic", "project_id", "creds", "aws_keys", "account_id", "username",
              "management_url", "broker_host", "bad_broker_port", "host", "bad_port",
              "null_creds"},
   function |-> {"url", "project_id", "region", "function_name", "creds", "aws_keys"}]
ProvidersOf ==
  [db |-> {"firestore", "cloudsql", "other"}, api |-> {},
   storage |-> {"gcs", "s3", "azure_blob", "other"},
   queue |-> {"pubsub", "sqs", "rabbitmq", "kafka"},
   function |-> {"cloud_functions", "cloud_run_jobs", "lambda"}]

\* Credentials are an object with or without the keys, or null.
Sensible(fields) ==
  /\ "null_creds" \in fields => "creds" \notin fields
  /\ fields \intersect {"aws_keys", "username", "bearer_token"} # {} => "creds" \in fields
  /\ Cardinality(fields) <= MaxFields

Declarations == UNION {
  {[type |-> t, has |-> fields \union provider] :
     fields \in {f \in SUBSET FieldsOf[t] : Sensible(f)},
     provider \in {{}} \union {{"provider", p} : p \in ProvidersOf[t]}} :
  t \in DOMAIN FieldsOf}

\* Writes of the registry without policies, three or two and a fault; and
\* policies without writes.
MCBudgets == {[starts |-> 2, puts |-> 0, writes |-> 3, faults |-> 0],
              [starts |-> 2, puts |-> 0, writes |-> 2, faults |-> 1],
              [starts |-> 3, puts |-> 2, writes |-> 0, faults |-> 1]}

\* A scan names both URLs.
MCScans == {<<u1, u2>>}

\* Two ticks for one tenant, one tick for two; t1 is the tenant "default".
MCRounds == {[tenants |-> <<t2>>, ticks |-> 2, failures |-> 1],
             [tenants |-> <<t1, t2>>, ticks |-> 1, failures |-> 1]}
MCFindings == {[kind |-> "conflict", tenant |-> t2, shape |-> s1],
               [kind |-> "isolation", tenant |-> t1, shape |-> s1]}

\* One pair of model values serves as instances, proofs, ticks, handlers and two
\* of the requests.
Symmetry == Permutations(Instances)

L == INSTANCE RateLimit WITH
       Window <- RateWindow, Faults <- RateFaults, MaxTime <- RateTime,
       now <- second, doc <- savedCounters
R == INSTANCE Resources WITH Verdicts <- Statuses, TTL <- CacheTTL
V == INSTANCE Verification
A == INSTANCE Actions WITH call <- acting, left <- writes, MaxWrites <- MaxActionWrites
P == INSTANCE Recommending WITH
       Ticks <- Handlers, Window <- ReportWindow, Budgets <- Rounds, left <- rounds, now <- hour
D == INSTANCE Directory WITH Clerks <- Handlers

ASSUME StoresAssumption ==
  /\ L!RateAssumption /\ R!ResourcesAssumption /\ A!ActionsAssumption
  /\ V!VerificationAssumption /\ P!RecommendingAssumption /\ D!DirectoryAssumption

rateVars == <<second, up, counter, savedCounters, flight, pc, stamp, approved, disturbed>>
resourceVars == <<file, doc, policy, saving, inst, call, left, since, mine, count, overlap,
                  puts, answer>>
probeVars == <<request, outcome, result>>
actionVars == <<store, acting, writes, revoked, lasting>>
tickVars == <<hour, evidence, proposals, tick, rounds, missed>>
directoryVars == <<web, dir, work, bound, latest, crossed>>
storesVars ==
  <<vars, rateVars, resourceVars, probeVars, actionVars, tickVars, directoryVars, part>>

\* The parts a behaviour is not of begin in one state.
StoresInit ==
  /\ part \in {"proofs", "rate", "resources", "verification", "actions", "proposals", "directory"}
  /\ Init /\ L!Init /\ R!Init /\ V!Init /\ A!Init /\ P!Init /\ D!Init
  /\ part # "proofs" => \A p \in Proofs : iat[p] = 0
  /\ part # "resources" => file = CHOOSE f \in PolicyFiles : TRUE
  /\ part # "resources" => left = CHOOSE b \in Budgets : TRUE
  /\ part # "actions" => store.legacy = None
  /\ part # "proposals" => Len(rounds.tenants) = 1
  /\ part # "directory" => web = [u \in Urls |-> CHOOSE c \in Cards : TRUE]

StoresNext ==
  /\ UNCHANGED part
  /\ \/ /\ part = "proofs" /\ Next
        /\ UNCHANGED <<rateVars, resourceVars, probeVars, actionVars, tickVars, directoryVars>>
     \/ /\ part = "rate" /\ L!Next
        /\ UNCHANGED <<vars, resourceVars, probeVars, actionVars, tickVars, directoryVars>>
     \/ /\ part = "resources" /\ R!Next
        /\ UNCHANGED <<vars, rateVars, probeVars, actionVars, tickVars, directoryVars>>
     \/ /\ part = "verification" /\ V!Next
        /\ UNCHANGED <<vars, rateVars, resourceVars, actionVars, tickVars, directoryVars>>
     \/ /\ part = "actions" /\ A!Next
        /\ UNCHANGED <<vars, rateVars, resourceVars, probeVars, tickVars, directoryVars>>
     \/ /\ part = "proposals" /\ P!Next
        /\ UNCHANGED <<vars, rateVars, resourceVars, probeVars, actionVars, directoryVars>>
     \/ /\ part = "directory" /\ D!Next
        /\ UNCHANGED <<vars, rateVars, resourceVars, probeVars, actionVars, tickVars>>

StoresSpec == StoresInit /\ [][StoresNext]_storesVars

-----------------------------------------------------------------------------
\* The limit of approvals per window holds, and counters and answers agree, over
\* restarts and overlapping writes of the counters (RateLimit).
RateBound == part = "rate" => L!RateBound

\* An answer about a resource is at most a cache lifetime old, and an instance
\* sees its own writes at once (Resources).
AnswersAreRecent == part = "resources" => R!AnswersAreRecent

\* The resource's document is what its registrations and updates add up to
\* (Resources).
DocumentIsConsistent == part = "resources" => R!DocumentIsConsistent

\* The policy put last is the policy after every later start, with a policy file
\* or without one: the stored policy wins, against docs/policy.md (Resources).
PolicyOutlivesRestart == part = "resources" => R!PolicyOutlivesRestart

\* A verdict on a resource is what the probes found (Verification).
HonestVerdict == part = "verification" => V!HonestVerdict

\* A revoked action stays so, and an active one is found (Actions).
ActionLookupsAreSound == part = "actions" => A!ActionLookupsAreSound

\* A pattern is proposed once and not overlooked (Recommending).
ProposedOnce == part = "proposals" => P!ProposedOnce

\* The directory says what was found out last (Directory).
DirectoryIsCurrent == part = "directory" => D!DirectoryIsCurrent
=============================================================================
