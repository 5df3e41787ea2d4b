------------------------------ MODULE Recommending ------------------------------
(***************************************************************************)
(* The Recommender: POST /recommend-tick reads what the other agents found *)
(* and stores proposals for a human to review.                             *)
(*                                                                         *)
(* The model is external.  It is taken to follow its instruction over what *)
(* the four tools returned, or to fail, or to return what is no list or    *)
(* holds an odd element.  A tool whose query fails returns an error text,  *)
(* after which the model may conclude anything.  Ticks overlap, are sent   *)
(* again, and end with their process; the evidence grows meanwhile.        *)
(***************************************************************************)
EXTENDS Naturals, Sequences, FiniteSets

CONSTANTS
  Tenants,      \* the tenants of the database
  Shared,       \* the tenant "default", whose isolation records all tenants see
  Shapes,       \* the patterns that evidence may show
  Findings,     \* what the other agents may store: kind, tenant, shape
  Ticks,        \* requests of POST /recommend-tick that may be under way at once
  Enough,       \* conflicts of one shape that warrant a proposal
  Window,       \* hours_back: how long evidence counts
  Memory,       \* days_back: how long a proposal is recent
  Horizon,      \* bound: time
  MaxEvidence,  \* bound: reports, incidents and isolations
  Budgets,      \* bounds: the tenants, ticks, and failing calls or ending processes
  Odd           \* an element of the model's list that is no object

Kinds == {"conflict", "incident", "isolation"}

RecommendingAssumption ==
  /\ {Enough, Window, Memory} \subseteq Nat
  /\ Odd \notin Shapes
  /\ Findings \subseteq [kind : Kinds, tenant : Tenants, shape : Shapes]
  /\ Budgets \subseteq [tenants : Seq(Tenants) \ {<<>>}, ticks : Nat, failures : Nat]

VARIABLES
  now,
  evidence,   \* what the other agents stored: kind, tenant, shape, time
  proposals,  \* in the order of their writes: tenant, shape, time, the tick's start
  tick,       \* per request: its handler
  left,       \* the tenants, as list_tenants returns them; bound: what may still come
  missed      \* history: patterns that a tick without failures left unproposed

vars == <<now, evidence, proposals, tick, left, missed>>

Idle == [at |-> "idle", todo |-> <<>>, found |-> {}, known |-> {}, raw |-> {},
         before |-> 0, stored |-> 0, began |-> 0, troubled |-> FALSE]

Init ==
  /\ now = 0
  /\ evidence = <<>>
  /\ proposals = <<>>
  /\ tick = [k \in Ticks |-> Idle]
  /\ left \in Budgets
  /\ missed = {}

At(k, where) == tick[k].at = where
Tenant(k) == Head(tick[k].todo)
Goto(k, t) == tick' = [tick EXCEPT ![k] = t] /\ UNCHANGED left
Failing(k, t) ==
  /\ left.failures > 0
  /\ left' = [left EXCEPT !.failures = @ - 1]
  /\ tick' = [tick EXCEPT ![k] = t]

\* The isolation records are those of the tenant and of "default" (where the two
\* are one each is listed twice, which changes nothing here: one is enough).
Readers(kind, tenant) == {tenant} \union (IF kind = "isolation" THEN {Shared} ELSE {})

\* fetch_audit_reports and its siblings, of the first n documents: those of a
\* kind and a shape that are not older than the window.
Within(kind, tenant, shape, n) ==
  {i \in 1 .. n :
     /\ evidence[i].kind = kind
     /\ evidence[i].tenant \in Readers(kind, tenant)
     /\ evidence[i].shape = shape
     /\ evidence[i].time + Window >= now}

\* RECOMMENDER_INSTRUCTION, 5: the shapes that warrant a proposal.
Warranted(kind, tenant, n) ==
  {s \in Shapes : Cardinality(Within(kind, tenant, s, n))
                    >= IF kind = "conflict" THEN Enough ELSE 1}

-----------------------------------------------------------------------------
\* The other agents store an audit report, an incident or an isolation.
Store(f) ==
  /\ Len(evidence) < MaxEvidence
  /\ evidence' = Append(evidence, [kind |-> f.kind, tenant |-> f.tenant, shape |-> f.shape, time |-> now])
  /\ UNCHANGED <<now, proposals, tick, left, missed>>

Pass ==
  /\ now < Horizon
  /\ now' = now + 1
  /\ UNCHANGED <<evidence, proposals, tick, left, missed>>

StartTick(k) ==
  /\ At(k, "idle")
  /\ left.ticks > 0
  /\ left' = [left EXCEPT !.ticks = @ - 1]
  /\ tick' = [tick EXCEPT ![k] =
       [Idle EXCEPT !.at = "conflict", !.todo = left.tenants, !.before = Len(evidence),
                    !.stored = Len(proposals), !.began = now]]
  /\ UNCHANGED <<now, evidence, proposals, missed>>

\* get_audit_reports_window, get_incident_reports and get_isolation_records, in
\* the order of the instruction.  An error is no list of reports.
ReadEvidence(k, kind, next) ==
  /\ At(k, kind)
  /\ \/ Goto(k, [tick[k] EXCEPT !.at = next, !.found = @ \union
                                 Warranted(kind, Tenant(k), Len(evidence))])
     \/ Failing(k, [tick[k] EXCEPT !.at = next, !.troubled = TRUE])
  /\ UNCHANGED <<now, evidence, proposals, missed>>

\* Faulty variant: proposals are looked up as far back as reports are.
RecentAsReports(tenant) ==
  {proposals[i].shape :
     i \in {n \in DOMAIN proposals : proposals[n].tenant = tenant /\ proposals[n].time + Window >= now}}

\* fetch_recent_proposals.
Recent(tenant) ==
  {proposals[i].shape :
     i \in {n \in DOMAIN proposals : proposals[n].tenant = tenant /\ proposals[n].time + Memory >= now}}

ReadProposals(k) ==
  /\ At(k, "proposals")
  /\ \/ Goto(k, [tick[k] EXCEPT !.at = "model", !.known = Recent(Tenant(k))])
     \/ Failing(k, [tick[k] EXCEPT !.at = "model", !.troubled = TRUE])
  /\ UNCHANGED <<now, evidence, proposals, missed>>

Lists(k, raw) == [tick[k] EXCEPT !.at = "writing", !.raw = raw, !.found = {}, !.known = {}]

\* run_recommender: what an obedient model lists, in whatever order; whatever it likes
\* after an error; or nothing, because it failed, or its output was no JSON array.
Conclude(k) ==
  /\ At(k, "model")
  /\ LET due == tick[k].found \ tick[k].known
     IN \/ Goto(k, Lists(k, due))
        \/ tick[k].troubled /\ \E wild \in SUBSET Shapes : Goto(k, Lists(k, wild))
        \/ \E raw \in {{}, due \union {Odd}} : Failing(k, [Lists(k, raw) EXCEPT !.troubled = TRUE])
  /\ UNCHANGED <<now, evidence, proposals, missed>>

Stored(k, s) == Append(proposals,
  [tenant |-> Tenant(k), shape |-> s, time |-> now, known |-> tick[k].stored,
   troubled |-> tick[k].troubled])

\* write_proposal: a new document; the registration of its hash is not waited for
\* to succeed.
WriteProposal(k) ==
  /\ At(k, "writing")
  /\ \E s \in tick[k].raw \ {Odd} :
       /\ proposals' = Stored(k, s)
       /\ Goto(k, [tick[k] EXCEPT !.raw = @ \ {s}])
  /\ UNCHANGED <<now, evidence, missed>>

\* It raises, for an element that is no object or because the write failed, which
\* may have been applied: counted as an error, and the next element is written.
WriteRaises(k) ==
  /\ At(k, "writing")
  /\ \/ /\ Odd \in tick[k].raw
        /\ Goto(k, [tick[k] EXCEPT !.raw = @ \ {Odd}])
        /\ UNCHANGED proposals
     \/ \E s \in tick[k].raw \ {Odd} :
          /\ Failing(k, [tick[k] EXCEPT !.raw = @ \ {s}, !.troubled = TRUE])
          /\ proposals' \in {proposals, Stored(k, s)}
  /\ UNCHANGED <<now, evidence, missed>>

\* Shapes that were warranted when the tick began and are at its end, although it
\* met no failure and no proposal names them.
Unproposed(k) ==
  {s \in UNION {Warranted(kind, Tenant(k), tick[k].before) : kind \in Kinds} :
     ~\E i \in DOMAIN proposals :
        /\ proposals[i].tenant = Tenant(k) /\ proposals[i].shape = s
        /\ proposals[i].time + Memory >= tick[k].began}

\* The tenant is done, whatever failed, and the next one is taken.
NextTenant(k) ==
  /\ At(k, "writing")
  /\ tick[k].raw = {}
  /\ missed' = IF tick[k].troubled THEN missed
               ELSE missed \union (Unproposed(k) \X {Tenant(k)})
  /\ Goto(k, IF Len(tick[k].todo) = 1 THEN Idle
             ELSE [tick[k] EXCEPT !.at = "conflict", !.todo = Tail(@), !.troubled = FALSE])
  /\ UNCHANGED <<now, evidence, proposals>>

\* The process ends under the tick.
Killed(k) ==
  /\ ~At(k, "idle")
  /\ Failing(k, Idle)
  /\ UNCHANGED <<now, evidence, proposals, missed>>

Next ==
  \/ Pass
  \/ \E f \in Findings : Store(f)
  \/ \E k \in Ticks :
       \/ StartTick(k)
       \/ ReadEvidence(k, "conflict", "incident")
       \/ ReadEvidence(k, "incident", "isolation")
       \/ ReadEvidence(k, "isolation", "proposals")
       \/ ReadProposals(k) \/ Conclude(k) \/ WriteProposal(k) \/ WriteRaises(k)
       \/ NextTenant(k) \/ Killed(k)

Spec == Init /\ [][Next]_vars

-----------------------------------------------------------------------------
\* "Do NOT propose the same change that was already proposed recently": a pattern
\* is proposed again within the memory only by a tick that was already running
\* when the earlier proposal was stored, or after a failure; and a tick without
\* failures leaves no pattern unproposed that was there from its start to its end.
ProposedOnce ==
  /\ \A i, j \in DOMAIN proposals :
       LET p == proposals[i]  q == proposals[j]
       IN i < j /\ p.tenant = q.tenant /\ p.shape = q.shape /\ q.time <= p.time + Memory
            => q.troubled \/ q.known < i
  /\ missed = {}
=============================================================================
