------------------------------ MODULE Anchoring ------------------------------
(***************************************************************************)
(* Anchoring of the artifact log on Base L2: the background scheduler of   *)
(* every instance (gateway/anchor_scheduler.py), POST /anchors/trigger,    *)
(* and the stored anchor records through which they agree on how far the   *)
(* log is anchored.  A batch is computed in one step of the event loop;    *)
(* the transaction and the anchor record are awaited, so that appends,     *)
(* other batches and restarts come in between.                             *)
(*                                                                         *)
(* A Merkle root is identified with the set of its leaves.  A transaction  *)
(* is mined when anchor_root returns, or when it raises after submission.  *)
(***************************************************************************)
EXTENDS ArtifactLog, Sequences, FiniteSets

CONSTANTS
  Threshold,     \* ANCHOR_ARTIFACT_THRESHOLD
  Limit,         \* the limit of get_entries_since
  AnchorFaults,  \* the faults this instance admits
  MaxStarts,     \* bound: how often instances are started
  Triggered,     \* bound: instances that POST /anchors/trigger reaches
  MaxTxs         \* bound: mined transactions after which nobody triggers any
                 \*   more and a failed transaction is not mined after all

AnchorFaultKinds == {"list_error", "tx_error", "record_error"}

ASSUME AnchorAssumption ==
  /\ Threshold \in Nat \ {0}
  /\ Limit \in Nat \ {0}
  /\ AnchorFaults \subseteq AnchorFaultKinds
  /\ MaxStarts \in Nat
  /\ Triggered \subseteq Instances
  /\ MaxTxs \in Nat

VARIABLES
  sched,    \* per instance: the scheduler's head_seq and last_anchor_seq
  due,      \* per instance: no anchor within the hour (or since the start)
  job,      \* per instance and kind: the batch being anchored
  txs,      \* mined anchor transactions in block order
  records,  \* stored anchor records
  starts,   \* how often instances were started
  cut,      \* history: artifacts a batch left out at the limit, although it
            \*   claims their positions
  misplaced \* history: artifacts appended by an outdated instance

history == <<cut, misplaced>>
anchorVars == <<sched, due, job, txs, records, starts>>
vars == <<logVars, anchorVars, history>>

JobKinds == {"scheduler", "trigger"}
Jobs == Instances \X JobKinds
NoJob == [state |-> "none", last |-> 0, to |-> 0, leaves |-> {}, block |-> 0]

Init ==
  /\ LogInit
  /\ sched = [i \in Instances |-> [head |-> 0, last |-> 0]]
  /\ due = [i \in Instances |-> TRUE]
  /\ job = [j \in Jobs |-> NoJob]
  /\ txs = <<>>
  /\ records = {}
  /\ starts = 0
  /\ cut = {}
  /\ misplaced = {}

-----------------------------------------------------------------------------
(* What a batch is made of.                                                *)

\* How many entries lie above a position and below q.
Before(last, q) == Cardinality({x \in DOMAIN log : last < x /\ x < q})

\* Faulty variant: the first new position is taken for anchored already.
HashesAfterNext(last) ==
  {log[q] : q \in {p \in DOMAIN log : p > last + 1 /\ Before(last + 1, p) < Limit}}

\* get_all_hashes_since: the first Limit entries above a position, those
\* above the current head_seq included.
HashesSince(last) ==
  {log[q] : q \in {p \in DOMAIN log : p > last /\ Before(last, p) < Limit}}

\* What a batch claims with its upper end and the limit keeps out of it.
LeftOut(last, to) ==
  {log[q] : q \in {p \in DOMAIN log : last < p /\ p <= to /\ Before(last, p) >= Limit}}

\* list_anchor_records()[0]: the record of the highest block says how far the
\* log is anchored.  Without records, or when the query fails, nothing is.
LastAnchored ==
  {r.to : r \in {x \in records : \A y \in records : y.block <= x.block}}
    \union {n \in {0} : records = {} \/ "list_error" \in AnchorFaults}

-----------------------------------------------------------------------------
(* The scheduler.                                                          *)

\* lifespan() starts anchor_loop, whose own ArtifactLog is never appended to:
\* its head_seq stays what it was at start-up.  Then the loop awaits the
\* stored anchor records.
Start(i) ==
  /\ StartInstance(i)
  /\ starts < MaxStarts
  /\ starts' = starts + 1
  /\ \E n \in ResumedSeqs : sched' = [sched EXCEPT ![i] = [head |-> n, last |-> 0]]
  /\ due' = [due EXCEPT ![i] = TRUE]
  /\ job' = [job EXCEPT ![<<i, "scheduler">>] = [NoJob EXCEPT !.state = "listing"]]
  /\ UNCHANGED <<txs, records, history>>

\* Faulty variant: the records are ignored, everything logged is taken for
\* anchored.
ResumeAtHead(i) ==
  /\ job[<<i, "scheduler">>].state = "listing"
  /\ sched' = [sched EXCEPT ![i].last = sched[i].head]
  /\ job' = [job EXCEPT ![<<i, "scheduler">>] = NoJob]
  /\ UNCHANGED <<logVars, due, txs, records, starts, history>>

\* The records arrive and say where the scheduler resumes.
Resume(i) ==
  /\ job[<<i, "scheduler">>].state = "listing"
  /\ \E m \in LastAnchored : sched' = [sched EXCEPT ![i].last = m]
  /\ job' = [job EXCEPT ![<<i, "scheduler">>] = NoJob]
  /\ UNCHANGED <<logVars, due, txs, records, starts, history>>

\* Whatever was awaited is gone; a mined transaction stays mined.
Stop(i) ==
  /\ StopInstance(i)
  /\ job' = [j \in Jobs |-> IF j[1] = i THEN NoJob ELSE job[j]]
  /\ UNCHANGED <<sched, due, txs, records, starts, history>>

\* ANCHOR_TIME_THRESHOLD passes.
HourPasses(i) ==
  /\ i \in up
  /\ ~due[i]
  /\ due' = [due EXCEPT ![i] = TRUE]
  /\ UNCHANGED <<logVars, sched, job, txs, records, starts, history>>

\* Faulty variant: the entries beyond the threshold are left out.
PollFullBatches(i) ==
  LET last == sched[i].last
      new == sched[i].head - last
  IN /\ i \in up
     /\ job[<<i, "scheduler">>] = NoJob
     /\ new >= Threshold
     /\ HashesSince(last) # {}
     /\ job' = [job EXCEPT ![<<i, "scheduler">>] =
          [state |-> "sent", last |-> last, to |-> sched[i].head,
           leaves |-> HashesSince(last), block |-> 0]]
     /\ cut' = cut \union LeftOut(last, sched[i].head)
     /\ UNCHANGED <<logVars, sched, due, txs, records, starts, misplaced>>

\* One wake-up of anchor_loop that finds a reason to anchor.
Poll(i) ==
  LET last == sched[i].last
      new == sched[i].head - last
  IN /\ i \in up
     /\ job[<<i, "scheduler">>] = NoJob
     /\ new > 0
     /\ new >= Threshold \/ due[i]
     /\ HashesSince(last) # {}
     /\ job' = [job EXCEPT ![<<i, "scheduler">>] =
          [state |-> "sent", last |-> last, to |-> sched[i].head,
           leaves |-> HashesSince(last), block |-> 0]]
     /\ cut' = cut \union LeftOut(last, sched[i].head)
     /\ UNCHANGED <<logVars, sched, due, txs, records, starts, misplaced>>

-----------------------------------------------------------------------------
(* POST /anchors/trigger: a fresh ArtifactLog, then the stored records.    *)

Trigger(i) ==
  /\ i \in up \intersect Triggered
  /\ Len(txs) < MaxTxs
  /\ job[<<i, "trigger">>] = NoJob
  /\ \E n \in ResumedSeqs :
       job' = [job EXCEPT ![<<i, "trigger">>] = [NoJob EXCEPT !.state = "listing", !.to = n]]
  /\ UNCHANGED <<logVars, sched, due, txs, records, starts, history>>

\* The records arrive; the batch is skipped or submitted.
TriggerListed(i) ==
  LET t == job[<<i, "trigger">>]
  IN /\ t.state = "listing"
     /\ \E m \in LastAnchored :
          IF t.to <= m \/ HashesSince(m) = {}
            THEN /\ job' = [job EXCEPT ![<<i, "trigger">>] = NoJob]
                 /\ UNCHANGED cut
            ELSE /\ job' = [job EXCEPT ![<<i, "trigger">>] =
                      [t EXCEPT !.state = "sent", !.last = m, !.leaves = HashesSince(m)]]
                 /\ cut' = cut \union LeftOut(m, t.to)
     /\ UNCHANGED <<logVars, sched, due, txs, records, starts, misplaced>>

-----------------------------------------------------------------------------
(* The transaction and its record, for both kinds of batch.                *)

\* anchor_root returns: the transaction is in a block.
Confirm(j) ==
  /\ job[j].state = "sent"
  /\ txs' = Append(txs, job[j].leaves)
  /\ job' = [job EXCEPT ![j].state = "recording", ![j].block = Len(txs) + 1]
  /\ UNCHANGED <<logVars, sched, due, records, starts, history>>

\* anchor_root raises: not submitted, reverted, or mined after the timeout.
AnchorFails(j) ==
  /\ "tx_error" \in AnchorFaults
  /\ job[j].state = "sent"
  /\ job' = [job EXCEPT ![j] = NoJob]
  /\ \/ UNCHANGED txs
     \/ Len(txs) < MaxTxs /\ txs' = Append(txs, job[j].leaves)
  /\ UNCHANGED <<logVars, sched, due, records, starts, history>>

\* The batch is done: the scheduler takes its upper end for anchored, whether
\* or not the record was saved.
Finish(j) ==
  /\ job' = [job EXCEPT ![j] = NoJob]
  /\ IF j[2] = "scheduler"
       THEN /\ sched' = [sched EXCEPT ![j[1]].last = job[j].to]
            /\ due' = [due EXCEPT ![j[1]] = FALSE]
       ELSE UNCHANGED <<sched, due>>
  /\ UNCHANGED <<logVars, txs, starts, history>>

RecordSaved(j) ==
  /\ job[j].state = "recording"
  /\ records' = records \union
       {[block |-> job[j].block, from |-> job[j].last + 1, to |-> job[j].to]}
  /\ Finish(j)

RecordFails(j) ==
  /\ "record_error" \in AnchorFaults
  /\ job[j].state = "recording"
  /\ UNCHANGED records
  /\ Finish(j)

LogStep ==
  /\ \E i \in Instances :
       \/ OpenLog(i) /\ UNCHANGED misplaced
       \/ \E a \in Artifacts :
            /\ AppendEntry(i, a)
            /\ misplaced' = misplaced \union {b \in {a} : i \in outdated'}
  /\ UNCHANGED <<anchorVars, cut>>

Next ==
  \/ LogStep
  \/ \E i \in Instances :
       \/ Start(i) \/ Resume(i) \/ Stop(i) \/ HourPasses(i) \/ Poll(i)
       \/ Trigger(i) \/ TriggerListed(i)
  \/ \E j \in Jobs : Confirm(j) \/ AnchorFails(j) \/ RecordSaved(j) \/ RecordFails(j)

Spec == Init /\ [][Next]_vars

\* anchor_loop polls for ever, an hour passes, each awaited call returns or
\* raises, and transactions that are sent again and again do not fail for ever.
\* Nobody is obliged to append, to trigger or to restart.
Fairness ==
  /\ \A i \in Instances :
       /\ WF_vars(Resume(i)) /\ WF_vars(HourPasses(i)) /\ WF_vars(Poll(i))
       /\ WF_vars(TriggerListed(i))
  /\ \A j \in Jobs :
       SF_vars(Confirm(j)) /\ WF_vars(RecordSaved(j) \/ RecordFails(j))

FairSpec == Spec /\ Fairness

-----------------------------------------------------------------------------
(* Properties.                                                             *)

Job == [state : {"none", "listing", "sent", "recording"},
        last : Nat, to : Nat, leaves : SUBSET Artifacts, block : Nat]
Record == [block : Nat \ {0}, from : Nat \ {0}, to : Nat]

TypeOK ==
  /\ LogTypeOK
  /\ sched \in [Instances -> [head : Nat, last : Nat]]
  /\ due \in [Instances -> BOOLEAN]
  /\ job \in [Jobs -> Job]
  /\ txs \in Seq(SUBSET Artifacts)
  /\ records \in SUBSET Record
  /\ starts \in Nat
  /\ cut \in SUBSET Artifacts
  /\ misplaced \in SUBSET Artifacts

OnChain == UNION {txs[b] : b \in DOMAIN txs}

\* Of the entries up to the end of the newest record, from which the next batch
\* starts, none is missing on chain but those a batch left out at the limit and
\* those an outdated instance put there, over schedulers and triggers of several
\* instances, failed transactions, lost records and restarts.
NoArtifactSkipped ==
  \A m \in {r.to : r \in {x \in records : \A y \in records : y.block <= x.block}} :
    \A q \in DOMAIN log : q <= m => log[q] \in OnChain \union cut \union misplaced

\* What a scheduler takes for anchored is anchored, with the same exceptions.
SchedulerSkipsNothing ==
  \A i \in up, q \in DOMAIN log :
    q <= sched[i].last => log[q] \in OnChain \union cut \union misplaced

\* What a record or a scheduler claims to be anchored is on chain, over lost
\* records, late transactions, manual triggers and restarts, but for what the
\* batch left out at the limit and what an outdated instance put below the
\* claim.  Without the exceptions this is false of the code.
AnchoredIsOnChain == TypeOK /\ NoArtifactSkipped /\ SchedulerSkipsNothing

\* What an instance finds in the log at its start is anchored in time, if the
\* instance stays up, with a threshold that is never reached as well, unless a
\* batch leaves it out at the limit or an outdated instance wrote or overwrote it.
BacklogAnchored ==
  \A i \in Instances, a \in Artifacts :
    (\E q \in DOMAIN log : log[q] = a /\ i \in up /\ q <= sched[i].head)
      ~> (a \in OnChain \union cut \union misplaced \/ a \notin Logged \/ i \notin up)

\* The scheduler "triggers when either 10 new artifacts have been logged since
\* last anchor, or 1 hour has passed": every logged artifact gets anchored if
\* its instance stays up.
EveryArtifactAnchored ==
  \A i \in Instances, a \in Artifacts :
    (i \in up /\ a \in Logged) ~> (a \in OnChain \/ i \notin up)

\* "The verifier recomputes the root from the leaf using the proof path and
\* compares it to the on-chain root": the root that a proof leads to, of all
\* entries in the log, is on chain for every artifact that is.
ProofRootIsAnchored ==
  \A a \in OnChain \intersect Logged : \E b \in DOMAIN txs : txs[b] = Logged
=============================================================================
