------------------------------ MODULE Auditing ------------------------------
(***************************************************************************)
(* The Policy Auditor of one tenant (gateway/auditor).  Each POST          *)
(* /audit-tick reads the checkpoint, fetches the stored receipts above it, *)
(* and for one receipt after the other writes a report, moves the          *)
(* checkpoint and announces a CONFLICT to the Investigator.  Ticks run in  *)
(* a thread pool and overlap; each has its own clock and its own failures. *)
(*                                                                         *)
(* A model gives the verdict, so it may be any.  Reports of one receipt    *)
(* with one verdict are not told apart.                                    *)
(***************************************************************************)
EXTENDS Naturals, Sequences, FiniteSets

CONSTANTS
  Receipts,    \* receipts of the tenant
  Stubborn,    \* those whose model answer is JSON and no object, every time
  Ticks,       \* overlapping /audit-tick handlers
  MaxPerTick,  \* MAX_PER_TICK
  MaxSeq,      \* bound on positions
  Positions,   \* bound: the positions a receipt may be stored at
  Conflicting, \* bound: receipts the model may find in CONFLICT
  OnDemand,    \* bound: receipts audited on demand
  MaxMishaps   \* bound on errors and process deaths

ASSUME AuditingAssumption ==
  /\ IsFiniteSet(Receipts)
  /\ Stubborn \subseteq Receipts
  /\ MaxPerTick \in Nat \ {0}
  /\ MaxSeq \in Nat
  /\ Positions \in [Receipts -> SUBSET (1 .. MaxSeq)]
  /\ MaxMishaps \in Nat

\* "OTHER" stands for ALIGNED, INSUFFICIENT_EVIDENCE and ERROR.
Verdicts == {"CONFLICT", "OTHER"}
Reports == [receipt : Receipts, verdict : Verdicts]

\* The model may give receipt r the verdict v.
MayFind(r, v) == v = "CONFLICT" => r \in Conflicting

VARIABLES
  seq,         \* position of each stored receipt; 0: not stored
  checkpoint,  \* last_audited_seq
  tick,        \* the handlers
  reports,     \* the stored audit reports
  topic,       \* auditor-conflicts: announcements not yet acknowledged
  irregular,   \* history: receipts stored below a higher one, or sharing a position
  failed,      \* history: receipts whose audit raised
  told,        \* history: receipts whose CONFLICT was announced, or whose
               \*   announcement an error, a crash or the on-demand audit precluded
  mishaps      \* how many errors and process deaths there were

auditorVars == <<seq, checkpoint, tick, reports, irregular, failed, told>>
auditVars == <<auditorVars, topic, mishaps>>

NoTick == [pc |-> "idle", since |-> 0, batch |-> <<>>, verdict |-> "OTHER"]

AuditInit ==
  /\ seq = [r \in Receipts |-> 0]
  /\ checkpoint = 0
  /\ tick = [t \in Ticks |-> NoTick]
  /\ reports = {}
  /\ topic = {}
  /\ irregular = {}
  /\ failed = {}
  /\ told = {}
  /\ mishaps = 0

\* An error or a process death; their number is bounded.
Mishap ==
  /\ mishaps < MaxMishaps
  /\ mishaps' = mishaps + 1

Stored == {r \in Receipts : seq[r] > 0}

\* The gateway stores a receipt.  Several surfaces, lost receipts and the
\* asynchronous buffer make gaps, equal positions and late arrivals possible.
Store(r, s) ==
  /\ seq[r] = 0
  /\ seq' = [seq EXCEPT ![r] = s]
  /\ irregular' = irregular \union {x \in Stored : seq[x] = s}
                          \union (IF \E x \in Stored : seq[x] >= s THEN {r} ELSE {})
  /\ UNCHANGED <<checkpoint, tick, reports, topic, failed, told, mishaps>>

-----------------------------------------------------------------------------
(* One tick.                                                               *)

ReadCheckpoint(t) ==
  /\ tick[t].pc = "idle"
  /\ tick' = [tick EXCEPT ![t] = [NoTick EXCEPT !.pc = "fetch", !.since = checkpoint]]
  /\ UNCHANGED <<seq, checkpoint, reports, topic, irregular, failed, told, mishaps>>

\* Faulty variant: equal and lower positions are fetched first come, first served.
UnsortedBatches(since) ==
  LET U == {r \in Receipts : seq[r] > since}
      n == IF Cardinality(U) < MaxPerTick THEN Cardinality(U) ELSE MaxPerTick
  IN {b \in [1 .. n -> U] : \A i, j \in 1 .. n : i < j => b[i] # b[j]}

\* Faulty variant: a tick waits for a full batch.
FullBatches(since) ==
  LET U == {r \in Receipts : seq[r] > since}
  IN IF Cardinality(U) < MaxPerTick THEN {<<>>}
     ELSE {b \in [1 .. MaxPerTick -> U] :
             \A i, j \in 1 .. MaxPerTick : i < j => b[i] # b[j] /\ seq[b[i]] <= seq[b[j]]}

\* What fetch_unaudited returns: the lowest MaxPerTick receipts above the
\* checkpoint, by position; equal positions come in the store's order.
Batches(since) ==
  LET U == {r \in Receipts : seq[r] > since}
      n == IF Cardinality(U) < MaxPerTick THEN Cardinality(U) ELSE MaxPerTick
  IN {b \in [1 .. n -> U] :
        /\ \A i, j \in 1 .. n : i < j => b[i] # b[j] /\ seq[b[i]] <= seq[b[j]]
        /\ \A r \in U : r \in {b[i] : i \in 1 .. n} \/ \A i \in 1 .. n : seq[b[i]] <= seq[r]}

\* A failed read ends the tick with nothing done.
Fetch(t) ==
  /\ tick[t].pc = "fetch"
  /\ \E b \in Batches(tick[t].since) :
       tick' = [tick EXCEPT ![t] = IF b = <<>> THEN NoTick
                                   ELSE [NoTick EXCEPT !.pc = "audit", !.batch = b]]
  /\ UNCHANGED <<seq, checkpoint, reports, topic, irregular, failed, told, mishaps>>

\* The loop goes on with the next receipt, whatever became of this one.
NextReceipt(t) ==
  LET rest == Tail(tick[t].batch)
  IN tick' = [tick EXCEPT ![t] = IF rest = <<>> THEN NoTick
                                 ELSE [NoTick EXCEPT !.pc = "audit", !.batch = rest]]

\* audit_receipt and write_audit_report.  A model that answers after more than
\* 120 seconds is waited for all the same, and its answer dropped: an ERROR.
Report(t, v) ==
  /\ tick[t].pc = "audit"
  /\ Head(tick[t].batch) \notin Stubborn
  /\ MayFind(Head(tick[t].batch), v)
  /\ reports' = reports \union {[receipt |-> Head(tick[t].batch), verdict |-> v]}
  /\ tick' = [tick EXCEPT ![t].pc = "checkpoint", ![t].verdict = v]
  /\ UNCHANGED <<seq, checkpoint, topic, irregular, failed, told, mishaps>>

\* A stubborn receipt raises in audit_receipt, before there is a report.
AnswerUnusable(t) ==
  /\ tick[t].pc = "audit"
  /\ Head(tick[t].batch) \in Stubborn
  /\ failed' = failed \union {Head(tick[t].batch)}
  /\ NextReceipt(t)
  /\ UNCHANGED <<seq, checkpoint, reports, topic, irregular, told, mishaps>>

\* The model never answers: leaving the executor waits for it for ever.  The
\* handler keeps its thread until the process dies; other ticks go on.
Hang(t) ==
  /\ tick[t].pc = "audit"
  /\ Mishap
  /\ tick' = [tick EXCEPT ![t].pc = "hung"]
  /\ UNCHANGED <<seq, checkpoint, reports, topic, irregular, failed, told>>

\* An answer that is no JSON object, or a write that raises, applied or not.
ReportFails(t) ==
  LET r == Head(tick[t].batch)
  IN /\ tick[t].pc = "audit"
     /\ r \notin Stubborn
     /\ Mishap
     /\ failed' = failed \union {r}
     /\ \/ \E v \in Verdicts :
             /\ MayFind(r, v)
             /\ reports' = reports \union {[receipt |-> r, verdict |-> v]}
             /\ told' = IF v = "CONFLICT" THEN told \union {r} ELSE told
        \/ UNCHANGED <<reports, told>>
     /\ NextReceipt(t)
     /\ UNCHANGED <<seq, checkpoint, topic, irregular>>

\* Faulty variant: the tick goes on without announcing anything.
SetCheckpointOnly(t) ==
  /\ tick[t].pc = "checkpoint"
  /\ checkpoint' = seq[Head(tick[t].batch)]
  /\ NextReceipt(t)
  /\ UNCHANGED <<seq, reports, topic, irregular, failed, told, mishaps>>

\* Faulty variant: the checkpoint is the first position to audit next.
SetNextCheckpoint(t) ==
  /\ tick[t].pc = "checkpoint"
  /\ checkpoint' = seq[Head(tick[t].batch)] + 1
  /\ NextReceipt(t)
  /\ UNCHANGED <<seq, reports, topic, irregular, failed, told, mishaps>>

\* set_checkpoint overwrites; an overlapping tick may move it back.
SetCheckpoint(t) ==
  /\ tick[t].pc = "checkpoint"
  /\ checkpoint' = seq[Head(tick[t].batch)]
  /\ IF tick[t].verdict = "CONFLICT"
       THEN tick' = [tick EXCEPT ![t].pc = "publish"]
       ELSE NextReceipt(t)
  /\ UNCHANGED <<seq, reports, topic, irregular, failed, told, mishaps>>

\* The write raises, applied or not, and with it the announcement is skipped.
CheckpointFails(t) ==
  LET r == Head(tick[t].batch)
  IN /\ tick[t].pc = "checkpoint"
     /\ Mishap
     /\ failed' = failed \union {r}
     /\ checkpoint' \in {checkpoint, seq[r]}
     /\ told' = IF tick[t].verdict = "CONFLICT" THEN told \union {r}
                                                       ELSE told
     /\ NextReceipt(t)
     /\ UNCHANGED <<seq, reports, topic, irregular>>

\* publish() raises, or its future fails unseen: the message is gone.
Publish(t) ==
  LET r == Head(tick[t].batch)
  IN /\ tick[t].pc = "publish"
     /\ \/ topic' = topic \union {r} /\ UNCHANGED mishaps
        \/ UNCHANGED topic /\ Mishap
     /\ told' = told \union {r}
     /\ NextReceipt(t)
     /\ UNCHANGED <<seq, checkpoint, reports, irregular, failed>>

\* POST /audit-receipt: any receipt, no checkpoint, no announcement.
AuditOnDemand(r, v) ==
  /\ r \in (Stored \intersect OnDemand) \ Stubborn
  /\ MayFind(r, v)
  /\ reports' = reports \union {[receipt |-> r, verdict |-> v]}
  /\ told' = IF v = "CONFLICT" THEN told \union {r} ELSE told
  /\ UNCHANGED <<seq, checkpoint, tick, topic, irregular, failed, mishaps>>

InHand(t) == tick[t].pc \in {"checkpoint", "publish"} /\ tick[t].verdict = "CONFLICT"

\* The auditor dies; the next tick starts from the stored checkpoint.
AuditorCrash ==
  /\ Mishap
  /\ tick' = [t \in Ticks |-> NoTick]
  /\ told' = told \union {Head(tick[t].batch) : t \in {x \in Ticks : InHand(x)}}
  /\ UNCHANGED <<seq, checkpoint, reports, topic, irregular, failed>>

TickStep(t) ==
  \/ ReadCheckpoint(t) \/ Fetch(t)
  \/ \E v \in Verdicts : Report(t, v)
  \/ AnswerUnusable(t) \/ Hang(t) \/ ReportFails(t)
  \/ SetCheckpoint(t) \/ CheckpointFails(t)
  \/ Publish(t)

AuditNext ==
  \/ \E r \in Receipts : \E s \in Positions[r] : Store(r, s)
  \/ \E t \in Ticks : TickStep(t)
  \/ \E r \in Receipts, v \in Verdicts : AuditOnDemand(r, v)
  \/ AuditorCrash

\* Cloud Scheduler keeps calling /audit-tick, and store and topic calls return
\* or raise.  A model call ends unless it is one that hangs: no time limit ends
\* it.  Storing receipts and on-demand audits are not fair.
AuditFairness ==
  \A t \in Ticks :
    /\ WF_auditVars(ReadCheckpoint(t)) /\ WF_auditVars(Fetch(t))
    /\ WF_auditVars(AnswerUnusable(t) \/ \E v \in Verdicts : Report(t, v))
    /\ WF_auditVars(SetCheckpoint(t)) /\ WF_auditVars(Publish(t))

AuditSpec == AuditInit /\ [][AuditNext]_auditVars /\ AuditFairness

-----------------------------------------------------------------------------
(* Properties.                                                             *)

Audited == {p.receipt : p \in reports}

AuditTypeOK ==
  /\ seq \in [Receipts -> 0 .. MaxSeq]
  /\ checkpoint \in 0 .. MaxSeq
  /\ tick \in [Ticks -> [pc : {"idle", "fetch", "audit", "hung", "checkpoint", "publish"},
                         since : 0 .. MaxSeq, batch : Seq(Receipts), verdict : Verdicts]]
  /\ reports \in SUBSET Reports
  /\ {topic, irregular, failed, told} \subseteq SUBSET Receipts
  /\ mishaps \in 0 .. MaxMishaps

\* The checkpoint passes over no receipt, however ticks overlap, fail or die:
\* each stored receipt at or below it has a report, unless its audit raised, it
\* shares its position with another or a higher one was stored before it.
NothingPassedOver ==
  \A r \in Stored : seq[r] <= checkpoint => r \in Audited \union failed \union irregular

\* No CONFLICT gets lost for another reason than the known ones: each is
\* announced, is about to be, or was kept from the topic by a store or topic
\* error, by a crash or because the audit was made on demand.
ConflictsAccountedFor ==
  \A r \in Receipts :
    [receipt |-> r, verdict |-> "CONFLICT"] \in reports =>
      \/ r \in told
      \/ \E t \in Ticks : InHand(t) /\ Head(tick[t].batch) = r

\* Stubborn receipts fill every batch before it gets to r.
Starved(r) ==
  Cardinality({x \in Stubborn \ {r} : checkpoint < seq[x] /\ seq[x] <= seq[r]}) >= MaxPerTick

\* Every other stored receipt is eventually audited, or exempt as above: overlapping
\* ticks cannot move the checkpoint back and forth for ever, and failing or
\* hanging audits do not keep later receipts out, unless every handler hangs or
\* MaxPerTick stubborn receipts come first and hold the batch for ever.
EveryReceiptAudited ==
  \A r \in Receipts \ Stubborn :
    [](seq[r] > 0 => <>(\/ r \in Audited \union failed \union irregular
                        \/ []Starved(r)
                        \/ [](\A t \in Ticks : tick[t].pc = "hung")))
=============================================================================
