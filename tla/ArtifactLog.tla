----------------------------- MODULE ArtifactLog -----------------------------
(***************************************************************************)
(* gateway/artifact_log.py as the instances of the REST service use it: a  *)
(* Firestore collection of artifact hashes keyed by sequence number, and   *)
(* in every process an ArtifactLog object that counts the positions on its *)
(* own.  The object is created by the first request that needs the log and *)
(* reads the highest stored position then; it never reads it again.        *)
(*                                                                         *)
(* The Firestore client is synchronous here: an append blocks its event    *)
(* loop, so each call is one step, and instances interleave between calls. *)
(***************************************************************************)
EXTENDS Integers

CONSTANTS
  Artifacts,  \* artifact hashes: receipts, reports, proposals, ...
  Instances,  \* processes of the REST service
  LogFaults   \* the faults this instance admits

LogFaultKinds == {"append_error", "resume_error"}

ASSUME LogAssumption == LogFaults \subseteq LogFaultKinds

VARIABLES
  up,        \* instances that are running
  head,      \* per instance: ArtifactLog._seq, or Unopened
  log,       \* the collection: a function from positions to artifacts
  offered,   \* artifacts handed to append()
  accepted,  \* artifacts whose append() returned
  outdated   \* history: instances whose object missed entries of the log, as its
             \*   query failed or another instance has appended since

logVars == <<up, head, log, offered, accepted, outdated>>

Unopened == -1
Logged == {log[q] : q \in DOMAIN log}

LogInit ==
  /\ up = {}
  /\ head = [i \in Instances |-> Unopened]
  /\ log = [q \in {} |-> q]
  /\ offered = {}
  /\ accepted = {}
  /\ outdated = {}

\* Faulty variant: the query sorts ascending and finds the lowest position.
ResumedFromFirst ==
  {n \in DOMAIN log \union {0} : \A q \in DOMAIN log : n <= q}

\* _resume_seq: the highest stored position; 0 for an empty collection.
StoredHeads == {n \in DOMAIN log \union {0} : \A q \in DOMAIN log : q <= n}

\* Also after a failed query, which is only logged, the object counts from 0.
ResumedSeqs == StoredHeads \union {n \in {0} : "resume_error" \in LogFaults}

\* _get_artifact_log: the process's own object, created on first use.
OpenedHeads(i) == IF head[i] = Unopened THEN ResumedSeqs ELSE {head[i]}

\* What is known of instance i once its object counts from n.
Opened(i, n) ==
  outdated \union {j \in {i} : head[i] = Unopened /\ n \notin StoredHeads}

StartInstance(i) ==
  /\ i \notin up
  /\ up' = up \union {i}
  /\ UNCHANGED <<head, log, offered, accepted, outdated>>

\* A crash, a redeployment or an instance scaled away.
StopInstance(i) ==
  /\ i \in up
  /\ up' = up \ {i}
  /\ head' = [head EXCEPT ![i] = Unopened]
  /\ outdated' = outdated \ {i}
  /\ UNCHANGED <<log, offered, accepted>>

\* GET /artifacts/log or a proof request opens the log without appending.
OpenLog(i) ==
  /\ i \in up
  /\ \E n \in OpenedHeads(i) :
       head' = [head EXCEPT ![i] = n] /\ outdated' = Opened(i, n)
  /\ UNCHANGED <<up, log, offered, accepted>>

Put(f, q, a) == [p \in DOMAIN f \union {q} |-> IF p = q THEN a ELSE f[p]]

\* The other instances whose object exists do not see what i appends.
Overtaken(i) == {j \in Instances \ {i} : head[j] # Unopened}

\* Faulty variant: the position is counted only once the write returned.
AppendThenCount(i, a) ==
  /\ i \in up
  /\ a \notin offered
  /\ offered' = offered \union {a}
  /\ \E n \in OpenedHeads(i) :
       /\ outdated' = Opened(i, n) \union Overtaken(i)
       /\ \/ /\ head' = [head EXCEPT ![i] = n + 1]
             /\ log' = Put(log, n + 1, a)
             /\ accepted' = accepted \union {a}
          \/ /\ "append_error" \in LogFaults
             /\ head' = [head EXCEPT ![i] = n]
             /\ log' \in {log, Put(log, n + 1, a)}
             /\ UNCHANGED accepted
  /\ UNCHANGED up

\* append: the counter advances before the write.  A write that raises may
\* have been applied; if it was not, its position stays empty.  No caller
\* offers the artifact again.
AppendEntry(i, a) ==
  /\ i \in up
  /\ a \notin offered
  /\ offered' = offered \union {a}
  /\ \E n \in OpenedHeads(i) :
       /\ outdated' = Opened(i, n) \union Overtaken(i)
       /\ head' = [head EXCEPT ![i] = n + 1]
       /\ \/ /\ log' = Put(log, n + 1, a)
             /\ accepted' = accepted \union {a}
          \/ /\ "append_error" \in LogFaults
             /\ log' \in {log, Put(log, n + 1, a)}
             /\ UNCHANGED accepted
  /\ UNCHANGED up

-----------------------------------------------------------------------------
(* Properties.                                                             *)

LogTypeOK ==
  /\ up \in SUBSET Instances
  /\ head \in [Instances -> Nat \union {Unopened}]
  /\ DOMAIN log \subseteq Nat \ {0}
  /\ \A q \in DOMAIN log : log[q] \in Artifacts
  /\ offered \in SUBSET Artifacts
  /\ accepted \in SUBSET offered
  /\ outdated \in SUBSET Instances

\* "Unified append-only log of all signed artifact hashes", as far as the code
\* keeps this: a position is rewritten by nobody but an instance that failed to
\* read the log when it opened it, or that another one has overtaken since;
\* failed and half-done appends, restarts and instances that take turns rewrite
\* nothing, and what they accept is in the log.
AppendOnly ==
  [][\/ \E i \in outdated' : head'[i] # head[i]
     \/ /\ \A q \in DOMAIN log : q \in DOMAIN log' /\ log'[q] = log[q]
        /\ accepted' \ accepted \subseteq {log'[q] : q \in DOMAIN log'}]_logVars
=============================================================================
