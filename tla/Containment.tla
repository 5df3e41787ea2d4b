----------------------------- MODULE Containment -----------------------------
(***************************************************************************)
(* From a CONFLICT to the gateway: the Investigator (gateway/investigator) *)
(* turns an announced audit report into an incident, the Isolator          *)
(* (gateway/isolator) turns a HIGH incident into revoked registrations and *)
(* a signed record.  Pub/Sub delivers until a delivery is answered, so a   *)
(* slow or dying Investigator sees an announcement again, also while an    *)
(* earlier delivery is in progress.  Models choose severities and plans,   *)
(* so both may be any; "LOW" stands for every severity below HIGH.         *)
(* Investigations started by hand, and incidents an operator writes into   *)
(* the body of /isolate, have no announcement behind them: left out.       *)
(***************************************************************************)
EXTENDS Auditing

CONSTANTS
  Agents,        \* agents an incident may name, registered or not
  Deliveries,    \* concurrent /investigate handlers
  MaxIncidents,  \* bound on stored incidents
  Named,         \* bound: numbers of the incidents an operator names
  NoIncident     \* nothing in hand

Operator == "operator"
Callers == Deliveries \union {Operator}

\* The number stands for the incident's identifier; 0: not written yet.
Severities == {"HIGH", "LOW"}
Numbers == 1 .. MaxIncidents
Incidents == [trigger : Receipts, severity : Severities, number : {0} \union Numbers]
AnyIncident == Incidents \union {NoIncident}

ASSUME ContainmentAssumption ==
  /\ Operator \notin Deliveries
  /\ NoIncident \notin Incidents
  /\ MaxIncidents \in Nat

VARIABLES
  inv,         \* the /investigate handlers
  iso,         \* the /isolate handler serving each caller
  incidents,   \* stored incident reports
  registered,  \* agents in the gateway's registry
  records,     \* stored isolation records
  revoked,     \* history: revocations the gateway applied, and for which incident
  swallowed,   \* history: announcements answered without an incident
  dropped      \* history: incidents whose containment an error or a crash ended

historyVars == <<revoked, swallowed, dropped>>
vars == <<auditVars, inv, iso, incidents, registered, records, historyVars>>

Quiet == [pc |-> "idle", incident |-> NoIncident]
NoIsolation == [pc |-> "idle", incident |-> NoIncident, plan |-> {}, executed |-> {},
                unsure |-> {}]

ContainInit ==
  /\ AuditInit
  /\ inv = [h \in Deliveries |-> Quiet]
  /\ iso = [c \in Callers |-> NoIsolation]
  /\ incidents = {}
  /\ registered \in SUBSET Agents
  /\ records = {}
  /\ revoked = {}
  /\ swallowed = {}
  /\ dropped = {}

-----------------------------------------------------------------------------
(* POST /investigate.                                                      *)

\* A push of Pub/Sub: an announcement is delivered until it is acknowledged.
Deliver(h, r) ==
  /\ inv[h].pc = "idle"
  /\ r \in topic
  /\ inv' = [inv EXCEPT ![h] = [pc |-> "investigate",
                                incident |-> [trigger |-> r, severity |-> "LOW", number |-> 0]]]
  /\ UNCHANGED <<auditVars, iso, incidents, registered, records, historyVars>>

\* Status 200, whatever happened: the announcement is acknowledged.
Answer(h) ==
  /\ topic' = topic \ {inv[h].incident.trigger}
  /\ inv' = [inv EXCEPT ![h] = Quiet]

\* The incident handler h writes: its identifier is new.
Written(h, s, k) ==
  [inv[h].incident EXCEPT !.severity = s, !.number = k]

Fresh(k) == k = Cardinality(incidents) + 1

\* Faulty variant: the Isolator is called before the incident is stored.
IncidentUnstored(h, s, k) ==
  /\ inv[h].pc = "investigate"
  /\ Fresh(k)
  /\ IF s = "HIGH"
       THEN inv' = [inv EXCEPT ![h] = [pc |-> "notify", incident |-> Written(h, s, k)]]
            /\ UNCHANGED topic
       ELSE Answer(h)
  /\ UNCHANGED <<auditorVars, mishaps, iso, incidents, registered, records, historyVars>>

\* run_investigation and write_incident_report.
Incident(h, s, k) ==
  /\ inv[h].pc = "investigate"
  /\ Fresh(k)
  /\ incidents' = incidents \union {Written(h, s, k)}
  /\ IF s = "HIGH"
       THEN inv' = [inv EXCEPT ![h] = [pc |-> "notify", incident |-> Written(h, s, k)]]
            /\ UNCHANGED topic
       ELSE Answer(h)
  /\ UNCHANGED <<auditorVars, mishaps, iso, registered, records, historyVars>>

\* No output, late output, or a write that raises, applied or not: answered all
\* the same.
IncidentFails(h) ==
  /\ inv[h].pc = "investigate"
  /\ Mishap
  /\ swallowed' = swallowed \union {inv[h].incident.trigger}
  /\ \/ UNCHANGED <<incidents, dropped>>
     \/ \E s \in Severities, k \in Numbers :
          /\ Fresh(k)
          /\ incidents' = incidents \union {Written(h, s, k)}
          /\ dropped' = dropped \union {Written(h, s, k)}
  /\ Answer(h)
  /\ UNCHANGED <<auditorVars, iso, registered, records, revoked>>

\* The model never answers: leaving the executor waits for it for ever, on the
\* event loop, and with it every other handler of the process.
InvestigatorHangs(h) ==
  /\ inv[h].pc = "investigate"
  /\ Mishap
  /\ inv' = [inv EXCEPT ![h].pc = "hung"]
  /\ UNCHANGED <<auditorVars, topic, iso, incidents, registered, records, historyVars>>

InvestigatorRuns == \A h \in Deliveries : inv[h].pc # "hung"
IsolatorRuns == \A c \in Callers : iso[c].pc # "hung"

\* The Isolator receives the incident.  Bound: one containment at a time for
\* each delivery, also when a crash has made it forget the last one.
Notify(h) ==
  /\ inv[h].pc = "notify"
  /\ IsolatorRuns
  /\ iso[h].pc = "idle"
  /\ inv' = [inv EXCEPT ![h].pc = "waiting"]
  /\ iso' = [iso EXCEPT ![h] = [NoIsolation EXCEPT !.pc = "analyse",
                                                   !.incident = inv[h].incident]]
  /\ UNCHANGED <<auditVars, incidents, registered, records, historyVars>>

\* The call raises, as it does after 120 seconds when the Isolator hangs.
NotifyFails(h) ==
  /\ inv[h].pc = "notify"
  /\ IF IsolatorRuns THEN Mishap ELSE UNCHANGED mishaps
  /\ dropped' = dropped \union {inv[h].incident}
  /\ Answer(h)
  /\ UNCHANGED <<auditorVars, iso, incidents, registered, records, revoked, swallowed>>

\* The Isolator answers, or the client gives up on it and it goes on alone.
WaitOver(h) ==
  /\ inv[h].pc = "waiting"
  /\ \/ iso[h].pc = "idle" /\ UNCHANGED mishaps
     \/ iso[h].pc # "idle" /\ IF IsolatorRuns THEN Mishap ELSE UNCHANGED mishaps
  /\ Answer(h)
  /\ UNCHANGED <<auditorVars, iso, incidents, registered, records, historyVars>>

Busy == {h \in Deliveries : inv[h].pc # "idle"}

\* Faulty variant: a dying Investigator takes its announcements with it.
AllAcknowledged == topic \ {inv[h].incident.trigger : h \in Busy}

\* Unanswered, an announcement stays on the topic.
NoneAcknowledged == topic

InvestigatorCrash ==
  /\ Mishap
  /\ topic' = NoneAcknowledged
  /\ dropped' = dropped \union {inv[h].incident : h \in {x \in Busy : inv[x].pc = "notify"}}
  /\ inv' = [h \in Deliveries |-> Quiet]
  /\ UNCHANGED <<auditorVars, iso, incidents, registered, records, revoked, swallowed>>

-----------------------------------------------------------------------------
(* POST /isolate.                                                          *)

\* Faulty variant: no severity gate.
AnySeverity(n) == n \in Incidents

SevereEnough(n) == n.severity = "HIGH"

\* An operator names a stored incident; below the gate the call is skipped.
IsolateStored(n) ==
  /\ iso[Operator].pc = "idle"
  /\ n \in incidents
  /\ n.number \in Named
  /\ SevereEnough(n)
  /\ iso' = [iso EXCEPT ![Operator] = [NoIsolation EXCEPT !.pc = "analyse", !.incident = n]]
  /\ UNCHANGED <<auditVars, inv, incidents, registered, records, historyVars>>

\* The plan: the agents to revoke.  Other actions change nothing.
Analyse(c, plan) ==
  /\ iso[c].pc = "analyse"
  /\ iso' = [iso EXCEPT ![c].pc = "contain", ![c].plan = plan]
  /\ UNCHANGED <<auditVars, inv, incidents, registered, records, historyVars>>

\* No plan, or one with an entry that is no object, met among the others: the
\* handler ends without a record, whatever it has revoked before.
AnalysisFails(c) ==
  /\ iso[c].pc \in {"analyse", "contain"}
  /\ Mishap
  /\ iso' = [iso EXCEPT ![c] = NoIsolation]
  /\ dropped' = dropped \union {iso[c].incident}
  /\ UNCHANGED <<auditorVars, topic, inv, incidents, registered, records, revoked, swallowed>>

\* As InvestigatorHangs.
IsolatorHangs(c) ==
  /\ iso[c].pc = "analyse"
  /\ Mishap
  /\ iso' = [iso EXCEPT ![c].pc = "hung"]
  /\ UNCHANGED <<auditorVars, topic, inv, incidents, registered, records, historyVars>>

\* DELETE /agents/{a} takes effect at the gateway.
Unregister(c, a) ==
  /\ registered' = registered \ {a}
  /\ revoked' = revoked \union {[agent |-> x, incident |-> iso[c].incident] :
                                  x \in registered \intersect {a}}

\* Faulty variant: a 404 counts as executed.
ExecutedAnyway(a) == {a}

\* 200, or 404 for an agent that is not registered.
Executed(a) == registered \intersect {a}

\* A call that raises is recorded as an error, applied or not.
Revoke(c, a) ==
  /\ iso[c].pc = "contain"
  /\ a \in iso[c].plan
  /\ \/ /\ iso' = [iso EXCEPT ![c].plan = @ \ {a}, ![c].executed = @ \union Executed(a)]
        /\ Unregister(c, a)
        /\ UNCHANGED mishaps
     \/ /\ Mishap
        /\ iso' = [iso EXCEPT ![c].plan = @ \ {a}, ![c].unsure = @ \union {a}]
        /\ Unregister(c, a) \/ UNCHANGED <<registered, revoked>>
  /\ UNCHANGED <<auditorVars, topic, inv, incidents, records, swallowed, dropped>>

\* Faulty variant: calls that raised are left out of the record.
RecordOfExecuted(c) ==
  [incident |-> iso[c].incident, executed |-> iso[c].executed, unsure |-> {}]

IsolationRecord(c) ==
  [incident |-> iso[c].incident, executed |-> iso[c].executed, unsure |-> iso[c].unsure]

\* Faulty variant: a run that revoked nothing leaves no record.
RecordIfExecuted(c) ==
  /\ iso[c].pc = "contain"
  /\ iso[c].plan = {}
  /\ records' = IF iso[c].executed = {} THEN records ELSE records \union {IsolationRecord(c)}
  /\ iso' = [iso EXCEPT ![c] = NoIsolation]
  /\ UNCHANGED <<auditVars, inv, incidents, registered, historyVars>>

\* A write that raises, applied or not, is answered with 500.
Record(c) ==
  /\ iso[c].pc = "contain"
  /\ iso[c].plan = {}
  /\ \/ /\ records' = records \union {IsolationRecord(c)}
        /\ UNCHANGED <<dropped, mishaps>>
     \/ /\ Mishap
        /\ records' \in {records, records \union {IsolationRecord(c)}}
        /\ dropped' = dropped \union {iso[c].incident}
  /\ iso' = [iso EXCEPT ![c] = NoIsolation]
  /\ UNCHANGED <<auditorVars, topic, inv, incidents, registered, revoked, swallowed>>

IsolatorCrash ==
  /\ Mishap
  /\ dropped' = dropped \union {iso[c].incident : c \in {x \in Callers : iso[x].pc # "idle"}}
  /\ iso' = [c \in Callers |-> NoIsolation]
  /\ UNCHANGED <<auditorVars, topic, inv, incidents, registered, records, revoked, swallowed>>

\* An operator restores an agent's registration.
Restore(a) ==
  /\ a \notin registered
  /\ registered' = registered \union {a}
  /\ UNCHANGED <<auditVars, inv, iso, incidents, records, historyVars>>

-----------------------------------------------------------------------------
ContainNext ==
  \/ AuditNext /\ UNCHANGED <<inv, iso, incidents, registered, records, historyVars>>
  \/ \E h \in Deliveries :
       /\ InvestigatorRuns
       /\ \/ \E r \in Receipts : Deliver(h, r)
          \/ \E s \in Severities, k \in Numbers : Incident(h, s, k)
          \/ IncidentFails(h) \/ InvestigatorHangs(h)
          \/ Notify(h) \/ NotifyFails(h) \/ WaitOver(h)
  \/ IsolatorRuns /\ \E n \in Incidents : IsolateStored(n)
  \/ \E c \in Callers :
       /\ IsolatorRuns
       /\ \/ \E plan \in SUBSET Agents : Analyse(c, plan)
          \/ AnalysisFails(c) \/ IsolatorHangs(c) \/ Record(c)
          \/ \E a \in Agents : Revoke(c, a)
  \/ InvestigatorCrash \/ IsolatorCrash
  \/ \E a \in Agents : Restore(a)

\* A handler of either service goes on.
Investigate(h) ==
  /\ InvestigatorRuns
  /\ \/ \E s \in Severities, k \in Numbers : Incident(h, s, k)
     \/ Notify(h) \/ NotifyFails(h) \/ WaitOver(h)
Contain(c) ==
  /\ IsolatorRuns
  /\ \/ \E plan \in SUBSET Agents : Analyse(c, plan)
     \/ \E a \in Agents : Revoke(c, a)
     \/ Record(c)

\* Pub/Sub delivers again what is not acknowledged; HTTP calls have time limits
\* and store calls return or raise.  A model call ends unless it is one that
\* hangs: the limits of 180 and 120 seconds end no call.  Operators and the
\* Auditor are not fair.
ContainFairness ==
  /\ \A h \in Deliveries, r \in Receipts : SF_vars(InvestigatorRuns /\ Deliver(h, r))
  /\ \A h \in Deliveries : WF_vars(Investigate(h))
  /\ \A c \in Callers : WF_vars(Contain(c))

ContainSpec == ContainInit /\ [][ContainNext]_vars /\ ContainFairness

-----------------------------------------------------------------------------
(* Properties.                                                             *)

ContainTypeOK ==
  /\ AuditTypeOK
  /\ inv \in [Deliveries -> [pc : {"idle", "investigate", "hung", "notify", "waiting"},
                             incident : AnyIncident]]
  /\ iso \in [Callers -> [pc : {"idle", "analyse", "hung", "contain"}, incident : AnyIncident,
                          plan : SUBSET Agents, executed : SUBSET Agents,
                          unsure : SUBSET Agents]]
  /\ incidents \in SUBSET Incidents
  /\ registered \in SUBSET Agents
  /\ records \in SUBSET [incident : Incidents, executed : SUBSET Agents, unsure : SUBSET Agents]
  /\ revoked \in SUBSET [agent : Agents, incident : Incidents]
  /\ swallowed \in SUBSET Receipts
  /\ dropped \in SUBSET Incidents

\* Whatever the Isolator revoked can be traced back through the store: to a
\* HIGH incident, and from there to a CONFLICT report on a stored receipt.
RevocationsTraceable ==
  \A x \in revoked :
    /\ x.incident \in incidents
    /\ x.incident.severity = "HIGH"
    /\ x.incident.trigger \in Stored
    /\ [receipt |-> x.incident.trigger, verdict |-> "CONFLICT"] \in reports

\* A record claims no revocation that did not happen for its incident.
RecordsTruthful ==
  \A p \in records, a \in Agents :
    a \in p.executed => [agent |-> a, incident |-> p.incident] \in revoked

\* A revocation is in a record of its incident, as executed or as failed, or is
\* about to be, unless an error or a crash ended the containment.
RevocationsRecorded ==
  \A x \in revoked :
    \/ \E p \in records : p.incident = x.incident /\ x.agent \in p.executed \union p.unsure
    \/ \E c \in Callers : /\ iso[c].pc = "contain"
                          /\ iso[c].incident = x.incident
                          /\ x.agent \in iso[c].executed \union iso[c].unsure
    \/ x.incident \in dropped

\* Revocations and records agree, in both directions, and rest on evidence: no
\* timeout, repeated delivery or crash makes them tell different stories.
RevocationsJustified ==
  ContainTypeOK /\ RevocationsTraceable /\ RecordsTruthful /\ RevocationsRecorded

\* Every announcement leads to an incident, or to an investigation that gave
\* up, over redelivery, overlapping deliveries and crashes, unless a model call
\* of the Investigator hangs for ever and stops the service.
AnnouncementsInvestigated ==
  \A r \in Receipts :
    r \in topic ~> \/ r \in swallowed \/ \E n \in incidents : n.trigger = r
                   \/ []~InvestigatorRuns

\* Every HIGH incident, also a second one of the same announcement, gets a
\* record of its own, unless an error or a crash ended its containment, or one
\* of the two services hangs for ever.
HighIncidentsContained ==
  \A r \in Receipts, k \in Numbers :
    LET n == [trigger |-> r, severity |-> "HIGH", number |-> k]
    IN n \in incidents ~> \/ n \in dropped \/ \E p \in records : p.incident = n
                          \/ []~InvestigatorRuns \/ []~IsolatorRuns
=============================================================================
