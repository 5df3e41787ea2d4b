# Verification of the agent authorization gateway

TLA+ specifications of the gateway in `src/gateway/`, model-checked with TLC on
small instances and, for the core, proved with TLAPS for every instance. The
code is the reference: each definition that models code has its source lines
under `map` in `PROJECT.json`. Line numbers below refer to `src/`.

## The system

An agent signs a short-lived proof of what it is about to do; the gateway
verifies the proof, evaluates a policy, signs a *receipt* that extends a hash
chain, stores it, and answers with a decision and (if approved) a token. A
protected resource admits the token once. Receipts and the signed artifacts of
other agents are appended to one artifact log whose Merkle roots are anchored
on the Base L2 chain.

| component | state | operations | interacts with |
|---|---|---|---|
| REST path `gateway/api.py`, `gateway_service.py` | gateway singleton, hot-path mode | `authorize`, dry run, flush, start-up and shutdown (`lifespan`) | everything below, by calls that await |
| MCP tool `mcp_server.py`, `serve_mcp.py`; ADK tool `tools/authorize_tool.py` | a gateway singleton of their own | `gateway_authorize_action`, `authorize_action`, chain resumption | the same Firestore collection |
| receipt chain `receipts.py` | `_seq`, `_prev_receipt_hash` | `sign_decision` | resumed from the store at start-up |
| evidence store `store.py` | receipts, stats, counters, policy, keys, anchor records | `save_*`, `get_*`, `list_anchor_records` | Firestore, awaited |
| evidence buffer `evidence_buffer.py` | queue, drain task | enqueue, flush, drain, stop | store; `HOT_PATH_MODE=async` |
| artifact log `artifact_log.py` | `_seq` per object, one collection | append, resume, queries | REST path, other agents, anchoring |
| anchoring `anchor_scheduler.py`, `base_anchor.py`, `/anchors/trigger` | last anchored position, anchor records | poll, submit, record | log, store, Base L2 |
| agent proofs `identity.py` | registry, replay cache | `verify_agent_proof`, register, revoke | REST path |
| tokens `tokens.py`, `middleware.py` | replay cache of the resource | `issue_token`, `verify` | gateway keys |
| policy `policy.py` | rules, strict mode, rate counters | evaluate, dry run, load, replace | saved and restored by REST |
| registration `identity.py`, `api.py:1154-1390` | challenges, registry, agent documents | challenge, register, delete, hydrate | card and liveness callbacks, awaited |
| liveness `liveness.py` | records per agent | sweep, check, gate of `authorize` | registration |
| resource registry `resources.py` | cache with TTL, documents | register, revoke, update, look up | strict mode of `authorize`; `verification/` |
| action registry `actions.py` | documents under two keys | register, revoke, update, get | endpoints under `/actions` |
| resource verification `verification/` | none | strategies and probes of five types | called before a resource is registered |
| evidence out `merkle.py`, `verify.py`, `audit_packet_verifier.py`, `/chain`, `/audit-packet`, `/verify-receipt` | key document | trees, proofs, chain checks, export, paging | log, store, anchors, keys |
| auditor `auditor/` | checkpoint, audit reports | `/audit-tick`, `/audit-receipt` | receipts in the store; announces a CONFLICT over Pub/Sub |
| investigator `investigator/` | incident reports | `/investigate` | pushed by Pub/Sub, asks a model on its event loop, calls the isolator and waits 120 s |
| isolator `isolator/` | isolation records | `/isolate` | `DELETE /agents/{id}` of the gateway |
| recommender `recommender/` | policy proposals | `/recommend-tick` | reads what the auditor, investigator and isolator stored |
| coordinator `coordinator/` | directory of agent cards | `/discover`, `/scan`, routing | fetches cards from the web |
| A2A, PDF, demos | none of interest | | |

Where the difficulty lies. One event loop per process interleaves handlers at
each `await`; several processes share Firestore without transactions; every
in-memory head, counter and cache is read from Firestore once, at start-up, by
code that logs a failed read and serves all the same; writes may fail, be lost
in a crash, or be applied after their sender gave up; Firestore documents that
hold a whole snapshot are overwritten in any order. `hazards` in
`PROJECT.json` lists where each of these bites.

What makes the components correct:

* authorization: no decision leaves without stored evidence; links of the chain
  resolve; positions of answered requests are distinct; the stored chain has no
  gap or fork;
* buffer: every item is handled once, none vanishes, shutdown terminates;
* log and anchoring: append-only; what is claimed to be anchored is on chain,
  everything is anchored in time; the proof handed out matches an anchored root;
* proofs and tokens: one proof, one action, in time; revocation takes effect;
* rate limit: the limit holds over concurrency and restarts;
* audit: the checkpoint passes over no receipt, every receipt is audited, no
  CONFLICT is lost;
* containment: a revocation can be traced to a CONFLICT on a stored receipt and is
  recorded, records are truthful, announcements and HIGH incidents are acted upon;
* evidence out: a packet verifies exactly when the chain in it is whole; no altered
  copy passes; proofs lead to anchored roots; pages add up to the chain;
* registries: an answer is at most a cache lifetime old, documents are what their
  operations add up to, the policy put last is the one in force after a restart;
* verification: a verdict says what the probe found;
* recommender, coordinator: a pattern is proposed once and not overlooked; an entry
  is the one of the latest discovery;
* agents: a challenge is spent once; the registered key is the one of the last
  operation; the liveness gate is lifted by nothing but a correct answer; every
  registered agent is challenged again.

## Modules

| module | models | state and actions against the code |
|---|---|---|
| `AuditTrail` | what authorization promises, abstractly | `trail` only grows; `Release` needs the record |
| `Gateway` | the synchronous path on all surfaces | `chain` is a `ReceiptChain` per process, `store` the collection, `wire` the writes sent and not applied. `Authorize` is `GatewayService.authorize` up to the first `await`; `ReceiptSaved`, `StatsSaved`, `RatesSaved` are the continuations; `PersistFailed` the `except` branch; `Start` the resumption, `Shutdown` and `Crash` the ends of a process |
| `EvidenceBuffer` | the asynchronous buffer | `queue`, and per coroutine the batch it has in hand; `TakeBatch` is `_collect_batch` (no await, hence one step), `Persist` one iteration of `_persist_batch` |
| `AsyncGateway` | the asynchronous path: chain, buffer, crash and restart | extends `EvidenceBuffer`; `Authorize` signs and enqueues in one step; `Restart` empties memory and reads the stored chain, or fails to and begins at one; `LandLate` applies a write of a dead process (`wire`) |
| `ArtifactLog` | positions and documents of the log, written by several instances | `head` is `_seq` of each instance's object, `Unopened` before first use; `outdated` are the instances whose object missed entries |
| `Anchoring` | scheduler, trigger, transactions, records | extends `ArtifactLog`; `sched` holds the scheduler's frozen `head_seq` and `last_anchor_seq`; a batch moves through `listing`, `sent`, `recording`; `cut` is what a batch left out at the limit, `misplaced` what an outdated instance appended |
| `SingleUse` | one agent's proofs, tokens, both replay caches | time in whole seconds; cache clean-ups are part of the actions that call them |
| `RateLimit` | one rule, one agent | `counter`, the saved `doc` and the snapshots of the writes in `flight` are sets of timestamps, each with the request that left it: of the lists in the code only the length and the times count |
| `Agents` | one agent: registration, registry and document, liveness record, checks | `challenge` is the challenge cache; a registration is `BeginRegistration` (or `BeginByUrl`) up to the first `await` and `CompleteRegistration` after the last; `Start` is hydration; `SweepPick`, `SweepAsk`, `CheckAnswered` are the sweep between its awaits, `ManualAsk` the check by request; `RegistrationRaises`, `CheckRaises` and `SweepCut` are cards and callbacks that answer JSON and no object. `check[c].current` says whether the record object a check holds is still the registered one |
| `Auditing` | the auditor of one tenant, any number of overlapping ticks | `tick` is a handler with the batch it fetched; `ReadCheckpoint`, `Fetch`, then per receipt `Report`, `SetCheckpoint`, `Publish`, each with its `except` branch; `AnswerUnusable` is an answer that raises outside of it, `Hang` a model call that never ends, `Stubborn` the receipts whose answer always raises; `topic` holds announcements not yet acknowledged |
| `Merkle` | hash trees of receipts and artifacts | operators only; a digest is the tuple of its domain and inputs, `Level` is `_build_tree` as a recursive function |
| `Packet` | signing with rotating keys, publication of keys, export, paging, both verifiers | `inst` is a process with its key, head and own receipts; `ReadReceipts`, `ReadAnchorsAndLog`, `CompletePacket` are `get_audit_packet` between its awaits; `ReadLog` is `get_entries_since` with its limit; `Integrity`, `LinkTo`, `VerifyChain` are `verify.py`, `ReceiptsHold`, `Continuous`, `InclusionHolds`, `Passed` the offline verifier |
| `Resources` | one resource and the policy, on several instances | `inst` holds the cache entry, the policy and the kind of registry; a step is one call of Firestore and the local code after the call before it; `Tick` is time |
| `Verification` | the verifiers and probes | `Verifiers` is a sequence of strategies per type, in the order of the code; `Probed` uses the first applicable one (`Used`) and one outcome of its request |
| `Actions` | one action under its two keys | `call` is a handler between its read and its write |
| `Recommending` | `/recommend-tick` | `tick` is a handler: three reads of evidence, one of proposals, the model, one write per proposal. `evidence` and `proposals` are sequences; a read counts the indices `Within` its window; what the model lists (`raw`) is a set |
| `Directory` | `/discover` and `/scan` | `work` is a handler: fetch, assess, store, next URL |
| `Containment` | investigator, isolator and the gateway's registry | extends `Auditing`; `inv` and `iso` are the handlers; `Answer` is the 200 that acknowledges; `Revoke` one DELETE, `Record` the isolation record; `InvestigatorHangs` and `IsolatorHangs` stop a whole service; an incident is told apart by its number |

Operators commented "Faulty variant" state a plausible bug of the definition
that follows them. Nothing in the specifications uses them; they exist to show
that each property notices the bug it is meant to notice (`mutants`).

Composition: `Gateway` implements `AuditTrail` (`ImplementsTrail`, a refinement mapping
of the stored receipts and the answered requests). `AsyncGateway` composes the chain
with the buffer by extending it, `Anchoring` the scheduler with the log. `Containment`
extends `Auditing`: the whole path from a stored receipt to a revoked registration.
`Packet` extends `Merkle`. `Agents` keeps registration and liveness in one module since
the handlers that register and delete change both in one step. `MCStores` is no
composition but a sum: `SingleUse`, `RateLimit`, `Resources`, `Verification`, `Actions`,
`Recommending` and `Directory` read nothing of each other, so one run checks all seven,
and its variable `part`, chosen at the start and never changed, says which of them a
behaviour is of.

## Runs

| run | instance | result |
|---|---|---|
| `gateway_faults` | REST and MCP surface, 3 requests; failing and late writes, crashes, failing resumption | all hold: evidence before answers, artifacts stored, links resolve, positions answered by one surface distinct, the chain of a lone surface unbroken until a request loses its evidence, refinement |
| `gateway_surfaces` | two surfaces, no fault | **violated**: the stored chain forks |
| `async` | 2 requests (6 items), batches of 2, drain, one flush, stop; failing store calls, crashes, late writes, restarts and failing start-up reads; fairness | all hold: items handled once, none vanishes, `stop()` returns and loses at most a batch, receipts settle, stored links are signed; dense while only the drain task persists and nothing `disrupted` the resumption |
| `anchoring_faults` | 2 instances and 2 starts, 2 artifacts, threshold 2, batches of 1 (below the backlog), a trigger on one instance; failing appends, queries, resumptions, transactions, records; fairness | all hold, each naming its exceptions: the log is append-only but for an `outdated` instance; what is claimed to be anchored is on chain, `cut` at the limit or `misplaced` by such an instance; what an instance found at its start is anchored, likewise. The exceptions do happen: two findings |
| `anchoring_frozen` | no fault, threshold 1; fairness | **violated**: later artifacts are never anchored |
| `anchoring_proof` | no fault | **violated**: proofs lead to a root that was not anchored |
| `agents` | 2 registration requests, 2 challenges with room for 1, 2 keys, sweep and manual check, any number of restarts; failing writes and start-up reads, answers that raise, sweeps cut by an earlier agent; fairness | all hold: challenges spent once, registry follows the operations, gate holds, old agents are challenged again unless sweeps are cut again and again (a finding) |
| `agents_restart` | 1 request, 1 key, no fault; fairness | **violated**: after a restart a registered agent is not challenged |
| `auditing` | 4 receipts, 2 of them stubborn and first, one above them or beside the first, one last; stored in any order; 2 overlapping ticks, batches of 2, on-demand audits, an error, crash or hanging call; fairness | all hold: nothing passed over, conflicts accounted for, every receipt audited unless a full batch of stubborn receipts comes first or every handler hangs (a finding) |
| `packet` | 1 REST and 1 MCP process with 2 versions of the key, 3 requests of 2 agents, 2 batches anchored, a log with 3 earlier entries of which 5 are read, 2 starts, 1 lost call or failing read; a whole and a filtered export, pages of 2 | all hold: every copy that a reader can make by leaving out or changing a receipt is refused or genuine, both verifiers agree, proofs are sound, keys stay published, pages add up. The specification of the format differs (a finding) |
| `stores` | one of: 2 proofs (MaxAge 2, TTL 2, skew 2, 8 seconds); 3 requests against 2 actions per 2 seconds, over 2 seconds; 2 instances with 1 resource and 3 writes, 2 writes and a fault, or 2 policies and a fault; all declarations of up to 4 fields of 5 types; 2 action handlers with 4 writes; 2 ticks over 1 tenant or 1 over 2, 1 failure; 2 discoveries of 2 URLs with 2 requests | all hold: proofs and tokens once and in time, the limit over restarts, lookups recent, documents consistent, the policy put last kept over the deployed file (a finding), verdicts honest (a finding), patterns proposed once, directory current |
| `containment` | 1 receipt, 1 tick, 1 agent, 2 overlapping deliveries, up to 2 incidents of which an operator names the first, 1 error, hanging call or crash anywhere in the three services; fairness | all hold: revocations traceable and recorded, records truthful (`RevocationsJustified`), announcements investigated, each HIGH incident contained, unless a service hangs for ever (a finding) |

The type invariants of `Gateway`, `SingleUse`, `Agents`, `Auditing`, `Resources`,
`Actions` and `Directory` are proved and left out of the runs; those of
`EvidenceBuffer`, `AsyncGateway`, `Anchoring`, `RateLimit` and `Containment` are the
first conjunct of a property their run checks (`EveryItemAccounted`,
`StoredChainResumes`, `AnchoredIsOnChain`, `RateBound`, `RevocationsJustified`). Several
invariants are conjunctions of named parts that concern one promise; each part is
commented where it is defined.

Bounds, and why they suffice. Three requests on two surfaces give a fork, a gap below a
stored receipt, and a request signed after each; positions matter only by order. Six
items in batches of two give a full batch, a partial one and a batch cut short, for each
coroutine. `MaxStarts` = 2 gives one restart with state left behind. In `Anchoring` they
give two instances one start each or one instance two; two artifacts and a `Limit` of 1
are a backlog that a batch cuts, as 501 entries are against 500; `MaxTxs` = 1 lets a
transaction fail or be mined late beside a retry and a manual trigger (it guards
`Trigger` and late mining, not the retries of the scheduler), and `Triggered` leaves the
second instance its scheduler alone. `MaxTime` = 8 in `SingleUse` exceeds MaxAge + TTL +
skew for every issue time a proof can be accepted at, so both caches forget while the
other side might still accept. In `RateLimit` time passes the window once, so what was
counted at the start is forgotten while a later request still counts. In `Agents` two
registrations with two keys give a replaced key, a registration that overlaps a
deletion, and a second registration on a gated record; room for one challenge makes the
expired one block the next. In `Auditing`, `MaxMishaps` bounds errors, hanging calls and
crashes and `MaxSeq` positions. Two stubborn receipts fill a batch of two; `Positions`
puts the third above them, where it starves, or beside the first, which breaks the batch
up, and any may be stored late; two ticks give a checkpoint that moves back.
`Conflicting` and `OnDemand` confine conflicts and audits on demand to that third
receipt. In `Containment` one mishap strikes any step of any of the three services;
deliveries overlap with each other and with an operator's call, and the agent is
restored and revoked again; `MaxIncidents` = 2 gives one announcement two incidents, one
of which an operator (`Named`) may name as well. In `Packet` three receipts give a
first, a middle and a last to leave out, a partial page and, from two processes, a fork;
with three earlier entries the trees have up to five leaves, the last of them promoted
twice, and `LogLimit` = 5 leaves out a sixth; one batch may cover some receipts and not
others. In `Resources` two instances and three writes give a revocation and a
registration of the other instance between a read and its write; `Delay` = 1 is a
handler that outlives a tick, so an entry of `TTL` = 2 can be 3 old. The budgets
separate writes from policies, which share no step, and give each a fault (three writes
without one, two with it). In `Verification` four fields are enough for every strategy
of every verifier, the one with the most needs included. `Actions`: two handlers cover
every order of a read and a foreign write. `Recommending`: two reports of one shape
warrant a proposal, one does not; memory exceeds the window as 7 days exceed 24 hours.
`Directory`: one change of the web during two requests gives an older fetch written
last. Deadlock is not checked: every instance ends when its requests, artifacts or clock
are used up. Symmetry is used in safety runs only; liveness runs declare none.

Fairness. `EvidenceBuffer`: the event loop schedules its tasks and a store call returns
or raises (the Firestore client has deadlines), so each coroutine's steps are weakly
fair, also after a crash and restart; enqueueing, flushing, stopping, crashing and late
writes are not. `Anchoring`: `anchor_loop` polls for ever (line 73), its waits are
finite (an hour, the 120 s of `wait_for_transaction_receipt`), and a record write
returns or raises; appends, triggers and restarts are not fair. `Confirm` is strongly
fair, which says that transactions do not fail for ever: with a node that does, nothing
is anchored, and the code can do no better than retry. `Agents`: the sweep loop runs as
long as the process and outlives every error (`api.py:309-328`), each agent before this
one is answered or times out after 5 s (`liveness.py:271`) or raises and ends the sweep
(`SweepCut`, which the property exempts when it never stops), so picking, asking and
answering of the sweep are weakly fair; registrations, deletions, manual checks, starts,
stops and answers that raise are not. `Auditing`: Cloud Scheduler calls `/audit-tick`
for ever, and store calls and `publish` end, so the steps of a tick are weakly fair;
storing, on-demand audits and mishaps are not. No time limit ends a model call: `with
ThreadPoolExecutor() as pool: ... .result(timeout=120)` raises after 120 s and then
waits for the call on leaving the block. A call either ends, which fairness covers, or
it is one that hangs: a step of its own (`Hang`) after which the handler does nothing
until its process dies. `Containment`: Pub/Sub pushes an announcement until a push is
answered, although handlers may be taken by others in between, so `Deliver` is strongly
fair, while the Investigator takes requests; the limits of 180 s and 120 s end no model
call here either, and both endpoints are coroutines that make it on the event loop, so a
call that hangs (`InvestigatorHangs`, `IsolatorHangs`) stops all steps of its service
until the process dies. The other steps (HTTP calls with limits, store calls) are weakly
fair; operators are not.

### What the violated runs show

* `gateway_surfaces`: `SECURITY.md:125` claims an unbroken chain "across
  surfaces". Each process reads the head when it starts and then counts alone.
  The same property fails on one surface when a receipt write fails (the
  position is used up, `receipts.py:147`) or a crash loses the lower of two
  outstanding writes; `ChainUnbrokenWhileHealthy` says that nothing else breaks it.
* `anchoring_frozen`: the scheduler compares positions with an `ArtifactLog` of
  its own that nobody appends to (`anchor_scheduler.py:53,75`).
* `anchoring_proof`: `/artifacts/proof` builds the tree of the whole log
  (`api.py:2206`), the anchors those of batches.
* `agents_restart`: `liveness.py:3` promises periodic challenges of registered
  agents, but start-up restores the registry only (`api.py:261-267`), and the sweep
  walks the records in memory. A suspension is gone with the record as well.

### What the passing runs exempt

These runs contain a case in which the code does not do what it, or a document, says.
Their properties name the case as an exception, and fail without it.

* `anchoring_faults`, `AppendOnly`: of two instances that append concurrently each
  counts positions alone, so one writes over what the other accepted
  (`artifact_log.py:118`); so does an instance whose resume query failed (line 95).
* `anchoring_faults`, `AnchoredIsOnChain`: a batch takes 500 hashes at most while its
  record claims the range up to the head (`anchor_scheduler.py:86,114`), so the rest of
  a longer backlog is recorded as anchored and is not.
* `agents`, `OldIsRechallenged`: a callback that answers JSON and no object raises at
  `liveness.py:281`, which ends the sweep; the agents listed after it are challenged by
  none, against `liveness.py:14`.
* `auditing`, `EveryReceiptAudited`: an answer that is JSON and no object raises at
  `auditor_agent.py:233`, outside of every `try`. The checkpoint moves with successful
  audits only, so as many such receipts as `MAX_PER_TICK` keep everything above them
  from being audited, and one of them is passed over by the next success, against
  `docs/system-guide.md:717` ("audits every receipt"). A model call that never ends holds
  its handler whatever the limit of 120 s.
* `containment`, `HighIncidentsContained`: leaving `with ThreadPoolExecutor()` waits for
  the model call (`investigator_agent.py:217`, `isolator_agent.py:130`), on the event
  loop: one call that never ends stops the service, against
  `docs/system-guide.md:758-760`.
* `packet`, `ProofsSound`: `docs/audit-packet-spec.md:165-167` has leaves and nodes of an
  inclusion proof hashed as `BI_RECEIPT_LEAF_V1` and `BI_RECEIPT_NODE_V1` and the root
  compared with the referenced anchor; gateway and verifier use the tags of artifacts, and
  the verifier compares with the root that the proof itself carries
  (`audit_packet_verifier.py:130,337`). The property says when the two are the same: when
  the first batch was the whole log that the proof was computed over.
* `stores`, `PolicyOutlivesRestart`: `docs/policy.md:144-147` puts the YAML file first and
  has Firestore polled; the stored policy replaces the file's at each start (`api.py:219`)
  and is read once. The run deploys a file and the policy put last wins.
* `stores`, `HonestVerdict`: `verification/base.py:8` says `skipped` means that no metadata
  was given; a verifier skips whatever no strategy can use, such as a connection string
  without host and port (`verification/db.py:79`).

Analysed while modelling, without a run of their own:

* buffer: `EvidenceBuffer.stop` drops the rest of the batch it interrupts although its
  docstring says it flushes what remains;
* registration: a soft delete that fails (`identity.py:210`) is undone by the next
  start, against `docs/system-guide.md:151` ("Revoked agents cannot authorize new
  actions"); a registration in flight while its agent is deleted registers it again
  (`api.py:1334`); a check that was sent for a replaced key marks the record of the new
  one as verified (`liveness.py:178`); a challenge cache full of expired entries refuses
  new ones until somebody sends a proof (`api.py:1178` precedes the clean-up in `issue`);
* policy: an overtaken write of the rate counters followed by a restart lets an agent
  exceed its limit; `PUT /policy` reaches the instance that serves it and starts its
  counters anew (`api.py:813`); a start that finds no policy saves the configured one
  without its flag (`api.py:234`), so the next start turns strict mode off;
  `policy.py:253` says that the Gateway will not start with a broken policy, while
  `lifespan` logs the error and the service answers 500 to every request;
* resources: `GatewayService` builds its registry without Firestore
  (`gateway_service.py:69`) and `_get_resource_registry` replaces it on the first request
  under `/resources` (`api.py:1857`): until then a restarted instance in strict mode
  denies registered resources, against `docs/marketplace/ARCHITECTURE.md:61`; an update
  marks its cache entry active whatever the document says by then (`resources.py:295`);
  a listing restarts at its first page when the resource its cursor names was revoked
  (`resources.py:221-226`); a broker port that is no number, or credentials that are
  null, or a port above 65535, raise (`verification/queue.py:90,100`, `probe_tcp`) and the
  registration fails, against the docstring at `api.py:1902-1904`;
* actions: DELETE and PATCH use the id alone (`api.py:1778,1789`), under which nothing
  is registered, and answer 404 for registered actions; registering a revoked action
  begins at version 1 again;
* evidence out: `metadata.chain_integrity` PASS says that the links hold
  (`api.py:2393-2404`) while `docs/audit-packet-spec.md:135` also promises that every
  signature verifies against the included keys; the keys of MCP processes are in the
  packet only while they are those of the REST service; the A2A server runs a gateway of
  its own and its skill `authorize_action` answers with a receipt that it does not store
  (`a2a/executor.py:117`), so what `Gateway` claims is claimed of the REST, MCP and ADK
  surfaces alone;
* audit: a receipt stored at or below the checkpoint is never audited; an isolation
  record that cannot be written leaves revocations in no record
  (`isolator_service.py:250`), against `isolator/isolator_agent.py:11`; a redelivered or
  slow containment revokes an agent that an operator restored meanwhile: nothing relates
  a revocation to the registration it was planned for; the isolator imports `GRequest`
  from a module that has no such name (`isolator_service.py:187`), swallows the error
  and calls the gateway without credentials;
* recommender: `GET /proposals` returns the oldest `limit` proposals
  (`recommender_service.py:191-192` over an ascending sort) and the A2A skill the newest;
  isolation records of the tenant `default` are listed to it twice
  (`audit_reader.py:105`); its `timeout=180` ends no call either
  (`recommender_agent.py:183`); a model that fails
  leaves no error in the summary of a tick;
* coordinator: a card that is JSON but no object, or has null skills, is answered 500
  by `/discover`; two discoveries of one URL may leave the entry of the older fetch.

The exemptions `failed`, `irregular`, `told`, `swallowed` and `dropped` of the audit
properties, `StopLosesAtMostABatch`, the guards `alone`, `disrupted`, `disturbed`, `blind`,
`failedWrite` and `hydrated`, and the histories `outdated`, `cut`, `misplaced`, `keyFault`,
`overlap`, `heard`, `crossed` and `troubled` of the properties mark these limits.

## Proofs

`GatewayProofs` (for any sets of requests and surfaces, any faults):

* `TypeCorrect` from `TypeInv`, which adds that a request in its handler has a
  signed receipt with a real decision;
* `NoAnswerWithoutEvidence` and `ArtifactsNameStoredReceipts` from `EvidenceInv`:
  a handler past its first write has a stored receipt. Without this the step
  that answers (which looks only at the program counter) is not inductive;
* `LinksAlwaysResolve` from `LinkInv`: the in-memory head of every chain
  resolves too, and every stored or outstanding receipt is signed;
* `AnsweredPositionsNeverCollide`, without assumptions, from `PositionInv`: as
  long as no start-up read failed (`blind`), the head of a running surface is at
  least the position of each request it has answered or still may answer, and
  those positions are distinct: a restart forgets only what nobody waits for.
  `gateway_surfaces` shows that nothing similar holds between surfaces;
* `GatewayImplementsTrail`: initial states and steps map to those of `AuditTrail`.

`LimitsProofs`, for proofs and tokens (every MaxAge, TTL, skew): `ProofsAreUsedOnce` from
`ProofInv` (an accepted proof is in the cache or too old, the bound the
clean-up `v < now` just keeps), `ActionsHappenOnce` from `ActionInv` (a token
that led to an action is remembered for as long as validation would admit it),
`ActionsAreTimely` and `RevocationEndsActions` from `TokenInv` (when a token
expires relative to its proof and to the revocation).

`LimitsProofs`, for the rate limit (any limit, window, requests and faults, over the
specification of the `stores` run): `RateLimitHolds` from `RateInv`. The bound itself says nothing
of the copies that a restart may load. So `CopiesInv` says of every copy of the
counters (in memory, saved, in a write under way) that its timestamps inside the
window are at most `MaxActions` and each is that of an evaluated request, and
`HeldInv` that, undisturbed, each copy holds every answered approval and each write
under way those of the requests whose writes are before it, its own included. So whatever a crash
leaves behind holds every approval given; and it fits the limit. (`disturbed` is part
of the property: an overtaken write, a failed start-up read and a replaced policy do
break the bound, as described above.)

`LimitsProofs`, for the Recommender (any reports, tenants, window, memory, number of overlapping
ticks and failures): `PatternsProposedOnce` from `RecommendingInv`. `TickInv` follows a tick
that met no failure through its steps: what it has read so far contains what was warranted
when it began (`Warranted` only shrinks with time and only grows with reports), it knows
every recent proposal stored before it began, and takes for known nothing that was not
proposed; while it writes, what was warranted is listed or proposed, and nothing that it
knew of is listed. It needs that the model lists no odd element as a pattern
(`Odd \notin Shapes`), and no relation of the window to the memory.

`AgentsProofs` (for any registrations, challenges, keys and capacity):
`ChallengesAreSpentOnce` from `ChallengeInv` (a spent challenge has left the cache
and does not return), `RegistryFollowsOperations` from `RegistryInv` (what a start
would load is `latest` until a write fails: memory and document change in one
step), and `GateHolds` from `RecordInv` (a check that holds the current record
waits for an answer, and the record exists).

`ContainmentProofs`, for the auditor (for any finite set of receipts, any ticks and batch size, any
number of errors): `PassesOverNothing` from `PassInv`. The property alone is not
inductive: a tick may still set the checkpoint to the position of any receipt in
its batch, in any order with other ticks. So `PassInv` says of every batch in hand
that whatever is stored below one of its receipts is accounted for or in the batch,
of receipts that share a position that they are `irregular`, and of a checkpoint
(stored or read) that a stored receipt has reached it, which makes later arrivals
below it `irregular`. `ConflictsNotLost` is inductive over the types.

`GatewayProofs.ChainStaysWhole`, too, from `DeliveryInv`: until a request loses its
evidence, every signed receipt is stored or on the wire, so that at rest the stored
chain is all that was signed; what `LinkInv` and `PositionInv` say of signed receipts
then makes it one chain.

`AsyncGatewayProofs` (for any requests, flush callers, batch size and faults):

* `ItemsAccounted` from `BufferInv`: no item is in two of queue, batches in hand and
  results (`PlacesInv`); who may hold a batch, and how large, in each stage of the
  buffer's life (`HolderInv`); and what no place holds is empty while the service runs
  and at most one batch after `stop()` (`MissingInv`). Batches are cut from a sequence, so
  the proofs of its lemmas go over to the sets of its items before they count;
* `ChainResumes` from `ChainInv`: links name signed receipts (`LinkInv`); while the
  drain task alone persists and nothing fails, the receipts stored, held and queued are
  one chain in this order, up to the head in memory (`OrderInv`), so that a crash cuts
  off an end of it; what is on the wire was lost in a crash (`WireInv`), and nothing
  `disrupted` the chain as long as none of it is applied and every start reads the
  store; and until an item is lost, held and queued items are the end of what was
  enqueued and the stored statistics those of the last ones before it (`StatsInv`).

`AnchoringProofs` (for any instances, artifacts, limit and faults): `LogOnlyGrows` from
`LogInv`: the head of an object in use is at least every stored position, unless its
instance is `outdated`, so that only such an instance rewrites one. `ClaimsAreOnChain` from
`AnchorInv`: below what a record or a scheduler claims to be anchored, everything is on
chain, was `cut` at the limit or is `misplaced`, and for the claim of a transaction at work
also in it (`CoveredInv`); and nothing claims a position above the entries, so that what is
appended later, above all of them, disturbs no claim (`LogExtended`).

`ContainmentProofs`, for investigator and isolator (for any receipts, agents, deliveries and
callers, and any errors and crashes): `ContainmentIsJustified` from `ContainInv`. That a
revocation rests on an incident, an incident on a stored CONFLICT, and a record on what was
done is only inductive together with what each handler has in hand: an investigation past
its first step rests on a stored CONFLICT, a containment on a stored incident above the gate
and on a revocation for each agent that it counts as executed.

`StoresProofs` (over the specification of the `stores` run; a step of it is one of one part):

* `ActionLookupsSound` from `ActionsInv`: what a handler read before its write still holds as
  far as its write relies on it;
* `DirectoryKeepsUp` from `DirectoryInv`, which speaks of the URLs that are not in
  `crossed`: one request at most is about such a URL, and from its fetch to its write it
  carries what the web said last;
* `AnswersRecent`, `DocumentConsistent` and `PolicyOutlives` from one invariant, `ResourceInv`,
  since a call of the registry relates the cache entry, the document and the history of
  both: an entry that disagrees with the document does so for no longer than its own age and
  a handler's delay (`SoundMemory`), a call works on a document that is there and, unless
  another overtook it, its own (`SoundWrite`), and a start that has heard of all policies
  reads the last one (`SoundStart`, `SoundPolicy`);
* `VerdictsAreHonest`, for declarations of any number of fields (the run stops at four):
  each strategy of each verifier is `Honest` by itself, and the first applicable one is used.

`PacketProofs` (for any processes, keys, requests and page size, and however often
processes start, fail and fork the chain), from one invariant, `PacketInv`:

* `CopiesTamperEvident`: every receipt of an export is `Genuine`, made by `sign_decision`
  from a signed body. Every change in a copy keeps the value of the signature, which
  holds the body, so that whatever verifies was signed; the links of the sorted copy
  do the rest;
* `VerifiersAlwaysAgree`: by `SignedInv` each signed body names a signed predecessor one
  position below or is the first, so linked bodies that start at genesis are at 1, 2, 3
  and so on, which is what `verify_chain` asks for. The second half needs that inclusion proofs lead
  to their roots; the theorem takes this from `ProofsSound`, as its hypothesis;
* `GenuineAlwaysVerify`: by `InstanceInv` what a process signed itself is linked without
  a gap under one key, and by `KeysInv`, until a start-up fails or two
  overlap, a key is published before its process serves, and what a starting process
  will write back holds the whole document;
* `PagingMissesNothing`: by `JobInv` no page leaves a receipt behind its cursor, where
  no two share a position.

The order of a chain is stated by counting predecessors (`InOrder`), not by a sorting
procedure: what the proofs need of it, that every receipt is there once and positions
increase, follows from cardinalities (`Ranks`, `Arranged`), and an induction along the
chain is the choice of a least counterexample (`LeastNatural`).

The theorems use no fairness, and no assumption but the named ones on the constants
(`...Assumption` in each module) and `ProofsSound` in `VerifiersAlwaysAgree`.

Only model-checked: `ProofsSound` and every liveness property. `ProofsSound` compares two
definitions of a hash tree, level by level and by splitting, and folds a path up the
tree: for every log that is an induction over its length, out of the prover's
reach, as are liveness under fairness and ENABLED.

## Abstractions and what is not modelled

A receipt's hash is the request it answers (no collisions); signatures, digests
and canonical JSON are abstracted; a Merkle root is the set of its leaves. The
start-up read is one step: no handler runs before `lifespan` yields. Two
instances of one REST service are two surfaces in `Gateway`. The local anchor
sink is an append to a file after the evidence is stored and is left out. The
proof and token caches are those of one process; the size limits of both caches
have no effect beyond a further clean-up. In `RateLimit` a write that raised or
whose process died is applied by then or never. The JWT library's checks (issue
time not in the future, expiry with leeway) are taken as it documents them.

In `Agents` time is abstract, one manual check is outstanding at a time, the
sweep is the periodic one, and challenges live in one process; the limit of ten
challenges per client address is left out.

In `Auditing` a verdict other than CONFLICT is `OTHER`, reports of one receipt with
one verdict are one report, and tenants do not interact, so there is one. In
`Containment` a severity below HIGH is `LOW` and CRITICAL is HIGH, an incident
is its announcement, its severity and a number in the order of writing, the registry is that of one
gateway process, and only revocations are actions (the others are only listed in the
record). Investigations started by hand and incidents passed to `/isolate` in the body
by hand are left out; the traceability of revocations is claimed without them.

In `Packet` a signature is the pair of key and body, a digest its inputs. Signing and the
save that follows it are one step (`Decide`); that other handlers sign in between, and that
the save comes late or never, is in `Gateway`, while here a lost save is an outcome of the
step and two processes give the orders of stored receipts. The audit reports that a packet
may include (`api.py:2283-2302`) are left out: the verifier does not look at them, and step 5
of `docs/audit-packet-spec.md`, which would, is not in the code. Signed
bodies differ in their request, altered copies in one field. The offline verifier
trusts the keys that the packet carries, as the code does. In `Resources` there is one
resource, no eviction, and Firestore can be reached when its client is built; the
registry in memory is only what an instance has before its first request under
`/resources`, and knows nothing. In `Verification` a declaration is the set of fields
that are present, requests and their signatures are left out, and one probe has one
outcome. In `Recommending` the model follows its instruction over what the tools
returned, fails, or returns something odd; after a tool that failed it may propose
anything; shapes stand for patterns, ALIGNED and DENY frequencies are left out. In
`Directory` a card is one of the kinds that `discover_agent` tells apart, and the text
of the capability assessment is left out.

## Not modelled

Listings, dashboards and statistics endpoints, which only read; the question router of
the coordinator and the on-demand analysis of the recommender, whose answers are what a
model says; the skills of the A2A executors other than receipt verification, which
call operations that are modelled, read, or decide without storing anything
(`authorize_action`, above); the key cache of the resource middleware;
the local anchor sink, an append to a file whose failures are ignored; the layout of
the PDF; the in-memory store; the agents, demos, benchmarks and scripts that are clients
of the gateway without state of their own.

## Plan

1. Done: `AuditTrail`, `Gateway`, `GatewayProofs`; `EvidenceBuffer`,
   `AsyncGateway`; `ArtifactLog`, `Anchoring`; `SingleUse`, `RateLimit`;
   `Agents`, `AgentsProofs`; `Auditing`; `Containment`;
   `Merkle`, `Packet`; `Resources`, `Verification`, `Actions`, `Recommending`,
   `Directory`, checked together by `MCStores`.
2. Done: proofs of what those runs check, in `AsyncGatewayProofs`, `AnchoringProofs`,
   `ContainmentProofs`, `StoresProofs`, `LimitsProofs` and `PacketProofs`. Every safety
   property of a passing run is a theorem but `ProofsSound`.
3. Open: signing and saving as two steps in `Packet`; several REST instances in `Packet`
   (today one, beside MCP processes).
