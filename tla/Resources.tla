------------------------------ MODULE Resources ------------------------------
(***************************************************************************)
(* The resource registry (gateway/resources.py) and the runtime policy     *)
(* whose require_resource_registration flag makes it count, on several     *)
(* instances of the REST service that share one Firestore.                 *)
(*                                                                         *)
(* One resource.  A handler calls the registry synchronously, so the       *)
(* registry calls of one instance do not interleave; those of different    *)
(* instances do, at every call of Firestore.  A step is one such call and  *)
(* the local code that follows the answer of the call before it.           *)
(*                                                                         *)
(* Time passes in ticks, of which a cache entry lasts TTL; a handler is    *)
(* answered by Firestore, or given up, within Delay ticks.                 *)
(***************************************************************************)
EXTENDS Naturals, FiniteSets

CONSTANTS
  Instances,     \* instances of the REST service
  TTL,           \* _CACHE_TTL
  Delay,         \* bound: ticks a handler takes
  Verdicts,      \* the statuses a verification may have
  PolicyFiles,   \* what POLICY_YAML_PATH may hold: "loose", "strict" or "broken"
  Budgets,       \* bound: the starts, puts, writes and faults of a behaviour
  None           \* no document, no entry, no call

Documents == [status : {"active", "revoked"}, version : Nat, id : Nat,
              verdict : {None} \union [id : Nat, status : Verdicts \union {None}]]
Policies == [strict : BOOLEAN, put : Nat]
Calls == [op : {"start", "open", "register", "revoke", "update", "lookup"},
          at : {"load", "warm", "write", "record", "finish", "get"},
          read : Documents \union Policies \union {None},
          verdict : Verdicts \union {None}, id : Nat, age : Nat]
Means == [starts : Nat, puts : Nat, writes : Nat, faults : Nat]

ResourcesAssumption ==
  /\ TTL \in Nat \ {0} /\ Delay \in Nat
  /\ PolicyFiles \subseteq {"loose", "strict", "broken"}
  /\ Budgets \subseteq Means
  /\ None \notin Documents \union Policies \union Calls

VARIABLES
  file,     \* the policy file the service is deployed with
  doc,      \* the resource's document
  policy,   \* the policy document
  saving,   \* policy documents sent by PUT /policy and not yet written
  inst,     \* per instance: its policy, registry and cache entry
  call,     \* per instance: the handler at work
  left,     \* bound: what is left of the budget
  since,    \* history: ticks since the resource was last registered or revoked
  mine,     \* history: what the instance last wrote, until another one writes
  count,    \* history: the version that the writes add up to
  overlap,  \* history: kinds of calls that crossed one another
  puts,     \* history: policies put so far
  answer    \* history: the authorization answered in this step

vars == <<file, doc, policy, saving, inst, call, left, since, mine, count, overlap, puts,
          answer>>
registryVars == <<file, doc, since, mine, count>>
policyVars == <<policy, saving, puts>>

Forever == TTL + Delay
DocActive == doc # None /\ doc.status = "active"

Down == [up |-> FALSE, ready |-> FALSE, strict |-> FALSE, put |-> 0, heard |-> 0,
         registry |-> "memory", cache |-> None]

Init ==
  /\ file \in PolicyFiles
  /\ doc = None
  /\ policy = None
  /\ saving = {}
  /\ inst = [i \in Instances |-> Down]
  /\ call = [i \in Instances |-> None]
  /\ left \in Budgets
  /\ since = Forever
  /\ mine = [i \in Instances |-> None]
  /\ count = 0
  /\ overlap = {}
  /\ puts = 0
  /\ answer = None

Idle(i) == inst[i].ready /\ call[i] = None
At(i, op, at) == call[i] # None /\ call[i].op = op /\ call[i].at = at
Begin(i, op, at, verdict) ==
  call' = [call EXCEPT ![i] = [op |-> op, at |-> at, read |-> doc, verdict |-> verdict,
                               id |-> left.writes, age |-> 0]]
Goto(i, at) == call' = [call EXCEPT ![i].at = at]
End(i) == call' = [call EXCEPT ![i] = None]
Spend(what) == left' = [left EXCEPT ![what] = @ - 1]

CachePut(i, active) == inst' = [inst EXCEPT ![i].cache = [active |-> active, age |-> 0]]

\* Faulty variant: an entry never expires.
FreshForever(i) == inst[i].cache # None
Fresh(i) == inst[i].cache # None /\ inst[i].cache.age < TTL

\* A write that registers (TRUE) or revokes (FALSE) the resource.
Turns(i, active) ==
  /\ since' = 0
  /\ mine' = [j \in Instances |-> IF j = i THEN active ELSE None]

\* The writes of a call that read the document as it still is count; another
\* version of it has come in between otherwise.
Crossing(i) ==
  LET version(d) == IF d = None THEN <<>> ELSE <<d.version, d.status, d.id>>
  IN IF version(call[i].read) = version(doc) THEN {} ELSE {"write"}

-----------------------------------------------------------------------------
(* Starting and stopping an instance: its policy.                          *)

\* load_policy_from_yaml raises on a file that is not a policy.
Loads == file # "broken"

\* get_active_policy: the flag is in the file, or off as in the demo policy.
ActivePolicyIsStrict == file = "strict"

\* lifespan logs what it raises and the service comes up without a gateway: every
\* request answers 500.
StartBroken(i) ==
  /\ ~inst[i].up
  /\ left.starts > 0
  /\ ~Loads
  /\ inst' = [inst EXCEPT ![i].up = TRUE]
  /\ Spend("starts")
  /\ answer' = None
  /\ UNCHANGED <<registryVars, policyVars, call, overlap>>

\* GatewayService with the configured policy, then lifespan's get_policy.
Start(i) ==
  /\ ~inst[i].up /\ call[i] = None
  /\ left.starts > 0
  /\ Loads
  /\ inst' = [inst EXCEPT ![i].strict = ActivePolicyIsStrict]
  /\ call' = [call EXCEPT ![i] = [op |-> "start", at |-> "load", read |-> policy,
                verdict |-> None, id |-> IF saving = {} THEN puts ELSE 0, age |-> 0]]
  /\ Spend("starts")
  /\ answer' = None
  /\ UNCHANGED <<registryVars, policyVars, overlap>>

\* Faulty variant: the flag is not read back.
LoadRulesOnly(i) ==
  /\ At(i, "start", "load")
  /\ call[i].read # None
  /\ inst' = [inst EXCEPT ![i].up = TRUE, ![i].ready = TRUE, ![i].put = call[i].read.put,
                ![i].heard = call[i].id]
  /\ End(i)
  /\ answer' = None
  /\ UNCHANGED <<registryVars, policyVars, left, overlap>>

\* A stored policy replaces the configured one, whatever file it came from.
LoadPolicy(i) ==
  /\ At(i, "start", "load")
  /\ call[i].read # None
  /\ inst' = [inst EXCEPT ![i].up = TRUE, ![i].ready = TRUE, ![i].heard = call[i].id,
                ![i].strict = call[i].read.strict, ![i].put = call[i].read.put]
  /\ End(i)
  /\ answer' = None
  /\ UNCHANGED <<registryVars, policyVars, left, overlap>>

\* There was none: the configured rules are saved, without the flag.
SaveDefault(i) ==
  /\ At(i, "start", "load")
  /\ call[i].read = None
  /\ policy' = [strict |-> FALSE, put |-> 0]
  /\ overlap' = overlap \union (IF puts > 0 THEN {"policy"} ELSE {})
  /\ inst' = [inst EXCEPT ![i].up = TRUE, ![i].ready = TRUE, ![i].heard = call[i].id]
  /\ End(i)
  /\ answer' = None
  /\ UNCHANGED <<registryVars, saving, puts, left>>

Crash(i) ==
  /\ inst[i].up
  /\ left.faults > 0
  /\ inst' = [inst EXCEPT ![i] = Down]
  /\ call' = [call EXCEPT ![i] = None]
  /\ mine' = [mine EXCEPT ![i] = None]
  /\ Spend("faults")
  /\ answer' = None
  /\ UNCHANGED <<file, doc, since, count, policyVars, overlap>>

\* PUT /policy: the instance's own policy first, then the document, awaited.
UpdatePolicy(i, strict) ==
  /\ Idle(i)
  /\ left.puts > 0
  /\ puts' = puts + 1
  /\ inst' = [inst EXCEPT ![i].strict = strict, ![i].put = puts + 1]
  /\ saving' = saving \union {[strict |-> strict, put |-> puts + 1]}
  /\ overlap' = overlap \union (IF saving # {} THEN {"policy"} ELSE {})
  /\ Spend("puts")
  /\ answer' = None
  /\ UNCHANGED <<registryVars, policy, call>>

PolicySaved(p) ==
  /\ p \in saving
  /\ policy' = p
  /\ saving' = saving \ {p}
  /\ answer' = None
  /\ UNCHANGED <<registryVars, puts, inst, call, left, overlap>>

\* The exception is logged and the caller is told "updated".
PolicyNotSaved(p) ==
  /\ p \in saving
  /\ left.faults > 0
  /\ saving' = saving \ {p}
  /\ overlap' = overlap \union {"policy"}
  /\ Spend("faults")
  /\ answer' = None
  /\ UNCHANGED <<registryVars, policy, puts, inst, call>>

-----------------------------------------------------------------------------
(* The registry.                                                           *)

\* The first request under /resources replaces the registry kept in memory by
\* one that uses Firestore and streams the collection into its cache.
OpenRegistry(i) ==
  /\ Idle(i)
  /\ inst[i].registry = "memory"
  /\ Begin(i, "open", "warm", None)
  /\ answer' = None
  /\ UNCHANGED <<registryVars, policyVars, inst, left, overlap>>

WarmCache(i) ==
  /\ At(i, "open", "warm")
  /\ inst' = [inst EXCEPT ![i].registry = "store",
                ![i].cache = IF call[i].read = None THEN None
                             ELSE [active |-> call[i].read.status = "active", age |-> 0]]
  /\ End(i)
  /\ answer' = None
  /\ UNCHANGED <<registryVars, policyVars, left, overlap>>

\* register, revoke and update_metadata read the document first; a conflict, an
\* unknown or a revoked resource is answered 409, 404 or 400.
BeginWrite(i, op, verdict) ==
  /\ Idle(i)
  /\ inst[i].registry = "store"
  /\ left.writes > 0
  /\ DocActive <=> op # "register"
  /\ Begin(i, op, "write", verdict)
  /\ Spend("writes")
  /\ answer' = None
  /\ UNCHANGED <<registryVars, policyVars, inst, overlap>>

\* Faulty variant: the document is merged, so that it keeps the old verdict.
RegisterByMerge(i) ==
  /\ At(i, "register", "write")
  /\ LET old == call[i].read IN
       doc' = [status |-> "active", id |-> call[i].id,
               version |-> IF old = None THEN 1 ELSE old.version + 1,
               verdict |-> IF doc = None THEN None ELSE doc.verdict]
  /\ count' = count + 1
  /\ overlap' = overlap \union Crossing(i)
       \union (IF \E j \in Instances \ {i} : At(j, "register", "record") THEN {"verdict"} ELSE {})
  /\ Turns(i, TRUE)
  /\ Goto(i, "record")
  /\ answer' = None
  /\ UNCHANGED <<file, policyVars, inst, left>>

Register(i) ==
  /\ At(i, "register", "write")
  /\ LET old == call[i].read IN
       doc' = [status |-> "active", id |-> call[i].id,
               version |-> IF old = None THEN 1 ELSE old.version + 1, verdict |-> None]
  /\ count' = count + 1
  /\ overlap' = overlap \union Crossing(i)
       \union (IF \E j \in Instances \ {i} : At(j, "register", "record") THEN {"verdict"} ELSE {})
  /\ Turns(i, TRUE)
  /\ Goto(i, "record")
  /\ answer' = None
  /\ UNCHANGED <<file, policyVars, inst, left>>

\* register returns, and the endpoint calls update_verification.
UpdateVerification(i) ==
  /\ At(i, "register", "record")
  /\ CachePut(i, TRUE)
  /\ doc' = [doc EXCEPT !.verdict = [id |-> call[i].id, status |-> call[i].verdict]]
  /\ End(i)
  /\ answer' = None
  /\ UNCHANGED <<file, since, mine, count, policyVars, left, overlap>>

Revoke(i) ==
  /\ At(i, "revoke", "write")
  /\ doc' = [doc EXCEPT !.status = "revoked"]
  /\ overlap' = overlap \union Crossing(i)
  /\ Turns(i, FALSE)
  /\ Goto(i, "finish")
  /\ answer' = None
  /\ UNCHANGED <<file, count, policyVars, inst, left>>

\* Faulty variant: the entry of the resource is left to expire.
RevokeAndWait(i) ==
  /\ At(i, "revoke", "finish")
  /\ End(i)
  /\ answer' = None
  /\ UNCHANGED <<registryVars, policyVars, inst, left, overlap>>

RevokeReturns(i) ==
  /\ At(i, "revoke", "finish")
  /\ CachePut(i, FALSE)
  /\ End(i)
  /\ answer' = None
  /\ UNCHANGED <<registryVars, policyVars, left, overlap>>

\* Faulty variant: the version counts from the one just written.
UpdateKeepsVersion(i) ==
  /\ At(i, "update", "write")
  /\ doc' = [doc EXCEPT !.version = call[i].read.version]
  /\ count' = count + 1
  /\ overlap' = overlap \union Crossing(i)
  /\ Goto(i, "finish")
  /\ answer' = None
  /\ UNCHANGED <<file, since, mine, policyVars, inst, left>>

UpdateMetadata(i) ==
  /\ At(i, "update", "write")
  /\ doc' = [doc EXCEPT !.version = call[i].read.version + 1]
  /\ count' = count + 1
  /\ overlap' = overlap \union Crossing(i)
  /\ Goto(i, "finish")
  /\ answer' = None
  /\ UNCHANGED <<file, since, mine, policyVars, inst, left>>

\* The entry says active, whatever the document says by now.
UpdateReturns(i) ==
  /\ At(i, "update", "finish")
  /\ CachePut(i, TRUE)
  /\ End(i)
  /\ answer' = None
  /\ UNCHANGED <<registryVars, policyVars, left, overlap>>

\* A call of Firestore raises, before or after it took effect: the handler
\* answers 500.  Warming the cache and loading the policy only log it.
StoreFails(i) ==
  /\ call[i] # None
  /\ left.faults > 0
  /\ End(i)
  /\ mine' = [mine EXCEPT ![i] = None]
  /\ inst' = CASE call[i].op = "open" -> [inst EXCEPT ![i].registry = "store"]
               [] call[i].op = "start" -> [inst EXCEPT ![i].up = TRUE, ![i].ready = TRUE]
               [] OTHER -> inst
  /\ Spend("faults")
  /\ answer' = None
  /\ UNCHANGED <<file, doc, since, count, policyVars, overlap>>

-----------------------------------------------------------------------------
(* authorize: is_registered_and_active, and the strict check.              *)

Answer(i, active) ==
  answer' = [by |-> i, active |-> active,
             decision |-> IF inst[i].strict /\ ~active THEN "deny" ELSE "evaluate"]

\* The registry in memory knows no resource; a fresh entry is the answer.
AuthorizeAtOnce(i) ==
  /\ Idle(i)
  /\ \/ inst[i].registry = "memory" /\ Answer(i, FALSE)
     \/ Fresh(i) /\ Answer(i, inst[i].cache.active)
  /\ UNCHANGED <<registryVars, policyVars, inst, call, left, overlap>>

Lookup(i) ==
  /\ Idle(i)
  /\ inst[i].registry = "store" /\ ~Fresh(i)
  /\ Begin(i, "lookup", "get", None)
  /\ answer' = None
  /\ UNCHANGED <<registryVars, policyVars, inst, left, overlap>>

LookupReturns(i) ==
  /\ At(i, "lookup", "get")
  /\ LET active == call[i].read # None /\ call[i].read.status = "active" IN
       CachePut(i, active) /\ Answer(i, active)
  /\ End(i)
  /\ UNCHANGED <<registryVars, policyVars, left, overlap>>

Tick ==
  /\ \A i \in Instances : call[i] # None => call[i].age < Delay
  /\ since' = IF since < Forever THEN since + 1 ELSE since
  /\ inst' = [i \in Instances |->
       IF Fresh(i) THEN [inst[i] EXCEPT !.cache.age = @ + 1] ELSE inst[i]]
  /\ call' = [i \in Instances |->
       IF call[i] = None THEN None ELSE [call[i] EXCEPT !.age = @ + 1]]
  /\ answer' = None
  /\ UNCHANGED <<file, doc, mine, count, policyVars, left, overlap>>

Step(i) ==
  \/ StartBroken(i) \/ Start(i) \/ LoadPolicy(i) \/ SaveDefault(i) \/ Crash(i)
  \/ \E strict \in BOOLEAN : UpdatePolicy(i, strict)
  \/ OpenRegistry(i) \/ WarmCache(i)
  \/ \E v \in Verdicts : BeginWrite(i, "register", v)
  \/ BeginWrite(i, "revoke", None) \/ BeginWrite(i, "update", None)
  \/ Register(i) \/ UpdateVerification(i)
  \/ Revoke(i) \/ RevokeReturns(i) \/ UpdateMetadata(i) \/ UpdateReturns(i)
  \/ StoreFails(i)
  \/ AuthorizeAtOnce(i) \/ Lookup(i) \/ LookupReturns(i)

Next ==
  \/ \E i \in Instances : Step(i)
  \/ \E p \in saving : PolicySaved(p) \/ PolicyNotSaved(p)
  \/ Tick

Spec == Init /\ [][Next]_vars

-----------------------------------------------------------------------------
\* What an instance that uses the store answers about a resource was true at some
\* moment less than TTL + Delay ago, whatever the other instances registered,
\* revoked or updated meanwhile (is_registered_and_active and _cache_put).
ForeignWritesAreSeen ==
  answer # None /\ inst[answer.by].registry = "store" /\ answer.active # DocActive
    => since < TTL + Delay

\* An instance that has revoked or registered the resource answers so at once,
\* until another instance changes it (_cache_put at the end of both).
OwnWritesAreSeen ==
  answer # None /\ mine[answer.by] # None => answer.active = mine[answer.by]

\* An answer is at most a cache lifetime and a handler's delay old, and never
\* older than what the instance itself has written.
AnswersAreRecent == ForeignWritesAreSeen /\ OwnWritesAreSeen

\* Unless two calls crossed, the version of the document counts its
\* registrations and updates, and its verification was made for the registration
\* it describes (register, update_metadata, update_verification).
DocumentIsConsistent ==
  doc # None =>
    /\ "write" \notin overlap => doc.version = count
    /\ "verdict" \notin overlap /\ doc.verdict # None => doc.verdict.id = doc.id

\* The policy put last is the policy of every instance that was started after it
\* was saved, unless a save failed or crossed another one (update_policy, lifespan):
\* also of one that has a policy file.  docs/policy.md:144-147 says the reverse,
\* that the file wins and is reloaded, and the stored policy polled; the code reads
\* each once, and the stored one wins.
PolicyOutlivesRestart ==
  saving = {} /\ puts > 0 /\ "policy" \notin overlap =>
    /\ policy # None /\ policy.put = puts
    /\ \A i \in Instances :
         inst[i].up /\ inst[i].heard = puts =>
           inst[i].put = puts /\ inst[i].strict = policy.strict
=============================================================================
