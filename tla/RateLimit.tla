------------------------------ MODULE RateLimit ------------------------------
(***************************************************************************)
(* One rate_limit rule for one agent on one REST process: the timestamps   *)
(* that PolicyEngine._check_rate_limit keeps (gateway/policy.py), the copy *)
(* that every synchronous authorization saves before it answers, and the   *)
(* restore at start-up (gateway/api.py).  The saved document is rewritten  *)
(* as a whole from a snapshot taken when the write is sent; writes of two  *)
(* requests are under way at the same time.                                *)
(*                                                                         *)
(* Counters are lists in the code, of which only the length and the times  *)
(* count: here they are sets, of each timestamp with the request that left *)
(* it, so that two of one second stay two.                                 *)
(***************************************************************************)
EXTENDS Integers, Sequences, FiniteSets, SequencesExt

CONSTANTS
  Requests,    \* authorization requests of the agent
  MaxActions,  \* max_actions of the rule
  Window,      \* window_seconds of the rule
  Faults,      \* the faults this instance admits
  MaxTime      \* bound: the clock

\* Firestore applies concurrent writes in any order; the start-up read fails.
FaultKinds == {"reordering", "resume_error"}

RateAssumption ==
  /\ MaxActions \in Nat
  /\ Window \in Nat \ {0}
  /\ Faults \subseteq FaultKinds
  /\ MaxTime \in Nat

VARIABLES
  now,      \* time.time(), in whole seconds
  up,       \* whether the process is running
  counter,  \* _rate_counters for the agent and the rule
  doc,      \* the saved counters
  flight,   \* writes of the document under way, in the order they were sent
  pc,       \* where each request is in its handler, or how it ended
  stamp,    \* when each request was evaluated
  approved, \* requests the policy approved
  disturbed \* history: a write overtook another, a start-up read failed or the
            \* policy was replaced

vars == <<now, up, counter, doc, flight, pc, stamp, approved, disturbed>>

Init ==
  /\ now = 0
  /\ up = FALSE
  /\ counter = {}
  /\ doc = {}
  /\ flight = <<>>
  /\ pc = [r \in Requests |-> "idle"]
  /\ stamp = [r \in Requests |-> 0]
  /\ approved = {}
  /\ disturbed = FALSE

Tick ==
  /\ now < MaxTime
  /\ now' = now + 1
  /\ UNCHANGED <<up, counter, doc, flight, pc, stamp, approved, disturbed>>

\* Faulty variant: the process starts with empty counters.
StartEmpty ==
  /\ ~up
  /\ up' = TRUE
  /\ counter' = {}
  /\ UNCHANGED <<now, doc, flight, pc, stamp, approved, disturbed>>

\* lifespan() restores the saved timestamps; when the read fails the process
\* serves all the same, with empty counters.
Start ==
  /\ ~up
  /\ up' = TRUE
  /\ \/ counter' = doc /\ UNCHANGED disturbed
     \/ "resume_error" \in Faults /\ counter' = {} /\ disturbed' = TRUE
  /\ UNCHANGED <<now, doc, flight, pc, stamp, approved>>

\* Timestamps inside the window.
Recent == {e \in counter : e.time > now - Window}

\* Faulty variant: one action too many.
HasRoomForOneMore == Cardinality(Recent) <= MaxActions

HasRoom == Cardinality(Recent) < MaxActions

\* Faulty variant: the timestamp kept is the start of the window.
EvaluateKeepsCutoff(r, otherRulesPass) ==
  /\ up
  /\ pc[r] = "idle"
  /\ counter' = Recent \union (IF HasRoom THEN {[req |-> r, time |-> now - Window]} ELSE {})
  /\ approved' = IF HasRoom /\ otherRulesPass THEN approved \union {r} ELSE approved
  /\ stamp' = [stamp EXCEPT ![r] = now]
  /\ pc' = [pc EXCEPT ![r] = "evaluated"]
  /\ UNCHANGED <<now, up, doc, flight, disturbed>>

\* evaluate(): the rule counts every request that finds room, also when
\* another rule then denies it.
Evaluate(r, otherRulesPass) ==
  /\ up
  /\ pc[r] = "idle"
  /\ counter' = Recent \union (IF HasRoom THEN {[req |-> r, time |-> now]} ELSE {})
  /\ approved' = IF HasRoom /\ otherRulesPass THEN approved \union {r} ELSE approved
  /\ stamp' = [stamp EXCEPT ![r] = now]
  /\ pc' = [pc EXCEPT ![r] = "evaluated"]
  /\ UNCHANGED <<now, up, doc, flight, disturbed>>

\* Faulty variant: the dry run counts as well.
DryRunCounts ==
  /\ up
  /\ counter' = Recent \union (IF HasRoom THEN {[req |-> "dry run", time |-> now]} ELSE {})
  /\ UNCHANGED <<now, up, doc, flight, pc, stamp, approved, disturbed>>

\* evaluate(dry_run=True) drops old timestamps and counts nothing.
DryRun ==
  /\ up
  /\ counter' = Recent
  /\ UNCHANGED <<now, up, doc, flight, pc, stamp, approved, disturbed>>

\* Receipt and statistics are saved; the counters, as they are now, are sent.
SendCounters(r) ==
  /\ up
  /\ pc[r] = "evaluated"
  /\ pc' = [pc EXCEPT ![r] = "saving"]
  /\ flight' = Append(flight, [req |-> r, snapshot |-> counter])
  /\ UNCHANGED <<now, up, counter, doc, stamp, approved, disturbed>>

\* Firestore applies a write and its handler answers.
CountersSaved(i) ==
  /\ i = 1 \/ "reordering" \in Faults
  /\ doc' = flight[i].snapshot
  /\ flight' = RemoveAt(flight, i)
  /\ disturbed' = (disturbed \/ i # 1)
  /\ pc' = [pc EXCEPT ![flight[i].req] = "answered"]
  /\ UNCHANGED <<now, up, counter, stamp, approved>>

\* One of the request's writes raises: no answer.  The write of the counters
\* may have been applied all the same.
SaveFails(r) ==
  /\ up
  /\ \/ pc[r] = "evaluated" /\ UNCHANGED <<doc, flight>>
     \/ \E i \in DOMAIN flight :
          /\ flight[i].req = r
          /\ doc' \in {doc, flight[i].snapshot}
          /\ flight' = RemoveAt(flight, i)
  /\ pc' = [pc EXCEPT ![r] = "withheld"]
  /\ UNCHANGED <<now, up, counter, stamp, approved, disturbed>>

\* The process dies.  Its writes are applied by then or never.
Crash ==
  /\ up
  /\ up' = FALSE
  /\ counter' = {}
  /\ doc' \in {doc} \union {flight[i].snapshot : i \in DOMAIN flight}
  /\ flight' = <<>>
  /\ pc' = [r \in Requests |-> IF pc[r] \in {"evaluated", "saving"} THEN "lost" ELSE pc[r]]
  /\ UNCHANGED <<now, stamp, approved, disturbed>>

\* PUT /policy replaces the engine, and the counters with it.
ReplacePolicy ==
  /\ up
  /\ counter' = {}
  /\ disturbed' = TRUE
  /\ UNCHANGED <<now, up, doc, flight, pc, stamp, approved>>

Next ==
  \/ Tick
  \/ Start
  \/ Crash
  \/ DryRun
  \/ ReplacePolicy
  \/ \E r \in Requests :
       SendCounters(r) \/ SaveFails(r) \/ \E pass \in BOOLEAN : Evaluate(r, pass)
  \/ \E i \in DOMAIN flight : CountersSaved(i)

Spec == Init /\ [][Next]_vars

-----------------------------------------------------------------------------
(* Properties.                                                             *)

Stamps == [req : Requests, time : Nat]

TypeOK ==
  /\ now \in Nat
  /\ up \in BOOLEAN
  /\ counter \subseteq Stamps
  /\ doc \subseteq Stamps
  /\ flight \in Seq([req : Requests, snapshot : SUBSET Stamps])
  /\ pc \in [Requests -> {"idle", "evaluated", "saving", "answered", "withheld", "lost"}]
  /\ stamp \in [Requests -> Nat]
  /\ approved \subseteq Requests
  /\ disturbed \in BOOLEAN

\* Approvals the agent holds that still count.
Granted == {r \in approved : pc[r] = "answered" /\ stamp[r] > now - Window}

\* No more than MaxActions approvals reach the agent within any window, "in
\* memory, persisted to Firestore across restarts".
RateBoundAcrossRestarts == Cardinality(Granted) <= MaxActions

\* Undisturbed, every approval the agent holds is in the running process's
\* counters as long as it is in the window.
ApprovalsAreCounted ==
  up /\ ~disturbed => \A r \in Granted : [req |-> r, time |-> stamp[r]] \in counter

\* Nothing is charged to the agent that it did not ask for: every timestamp in
\* the counters, kept or saved, is that of an evaluated request of its own.
\* Dry runs are free and no restart charges a request twice.
CountersAreEarned ==
  \A e \in counter \union doc :
    e.req \in Requests /\ pc[e.req] # "idle" /\ e.time = stamp[e.req]

\* The limit holds over crashes between any two steps of any number of
\* concurrent requests, as long as no write overtook another, every start-up
\* read succeeded and nobody replaced the policy; and the counters it rests on
\* hold what the agent was granted and nothing it did not ask for.
RateBound ==
  /\ TypeOK
  /\ ~disturbed => RateBoundAcrossRestarts
  /\ ApprovalsAreCounted
  /\ CountersAreEarned
=============================================================================
