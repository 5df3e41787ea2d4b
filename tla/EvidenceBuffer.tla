--------------------------- MODULE EvidenceBuffer ---------------------------
(***************************************************************************)
(* gateway/evidence_buffer.py: the in-memory queue between the             *)
(* asynchronous hot path (HOT_PATH_MODE=async) and Firestore.  Several     *)
(* coroutines of one event loop empty it: the drain task, each POST        *)
(* /evidence/flush, and the final flush of stop().  They interleave at     *)
(* every await of a store call.                                            *)
(*                                                                         *)
(* An item is a kind of evidence and the request it belongs to; the        *)
(* counters of EvidenceBuffer.stats are the sizes of the sets kept here.   *)
(***************************************************************************)
EXTENDS Naturals, Sequences, FiniteSets

CONSTANTS
  Requests,   \* authorization requests
  Flushers,   \* concurrent callers of POST /evidence/flush
  MaxBatch,   \* max_batch_size
  SaveErrors  \* whether store calls may fail

Drain == "drain"
Stopper == "stop"
Persisters == {Drain, Stopper} \union Flushers

ASSUME BufferAssumption ==
  /\ MaxBatch \in Nat \ {0, 1}
  /\ SaveErrors \in BOOLEAN
  /\ Drain \notin Flushers
  /\ Stopper \notin Flushers

Kinds == {"receipt", "stats", "rate_limits"}
Items == [kind : Kinds, req : Requests]

VARIABLES
  life,      \* "running", "stopping" or "stopped"
  queue,     \* _queue
  hand,      \* per coroutine: the rest of the batch it is persisting
  flushing,  \* coroutines inside flush()
  enqueued,  \* items ever enqueued, in order
  saved,     \* items counted in _total_persisted
  failed,    \* items counted in _flush_errors: dropped, never retried
  applied,   \* items that Firestore applied
  statsDoc,  \* the stored statistics: the requests whose snapshot it is
  alone,     \* history: only the drain task has emptied the queue so far
  lost       \* history: the items that died with a process

bufferVars == <<life, queue, hand, flushing, enqueued, saved, failed, applied, statsDoc,
                alone, lost>>

InHand == UNION {{hand[p][i] : i \in DOMAIN hand[p]} : p \in Persisters}
InQueue == {queue[i] : i \in DOMAIN queue}
Enqueued == {enqueued[i] : i \in DOMAIN enqueued}

Init ==
  /\ life = "running"
  /\ queue = <<>>
  /\ hand = [p \in Persisters |-> <<>>]
  /\ flushing = {}
  /\ enqueued = <<>>
  /\ saved = {}
  /\ failed = {}
  /\ applied = {}
  /\ statsDoc = <<>>
  /\ alone = TRUE
  /\ lost = {}

-----------------------------------------------------------------------------
(* The hot path enqueues the three items of a request in one go.           *)

Evidence(r) == << [kind |-> "receipt", req |-> r],
                  [kind |-> "stats", req |-> r],
                  [kind |-> "rate_limits", req |-> r] >>

Enqueue(r) ==
  /\ life = "running"
  /\ \A i \in DOMAIN enqueued : enqueued[i].req # r
  /\ queue' = queue \o Evidence(r)
  /\ enqueued' = enqueued \o Evidence(r)
  /\ UNCHANGED <<life, hand, flushing, saved, failed, applied, statsDoc, alone, lost>>

-----------------------------------------------------------------------------
(* Batches.                                                                *)

BatchSize == IF Len(queue) < MaxBatch THEN Len(queue) ELSE MaxBatch

\* Faulty variant: the batch is read but leaves the queue later.
TakeBatchByPeeking(p) ==
  /\ queue # <<>>
  /\ hand[p] = <<>>
  /\ hand' = [hand EXCEPT ![p] = SubSeq(queue, 1, BatchSize)]
  /\ UNCHANGED <<life, queue, flushing, enqueued, saved, failed, applied, statsDoc, alone, lost>>

\* Faulty variant: pop() for popleft(), newest items first.
TakeNewestFirst(p) ==
  /\ queue # <<>>
  /\ hand[p] = <<>>
  /\ hand' = [hand EXCEPT ![p] = SubSeq(queue, Len(queue) - BatchSize + 1, Len(queue))]
  /\ queue' = SubSeq(queue, 1, Len(queue) - BatchSize)
  /\ UNCHANGED <<life, flushing, enqueued, saved, failed, applied, statsDoc, alone, lost>>

\* _collect_batch: the head of the queue, without an await.
TakeBatch(p) ==
  /\ queue # <<>>
  /\ hand[p] = <<>>
  /\ hand' = [hand EXCEPT ![p] = SubSeq(queue, 1, BatchSize)]
  /\ queue' = SubSeq(queue, BatchSize + 1, Len(queue))
  /\ UNCHANGED <<life, flushing, enqueued, saved, failed, applied, statsDoc, alone, lost>>

\* Firestore applies the write of one item.
Apply(item) ==
  /\ applied' = applied \union {item}
  /\ statsDoc' = IF item.kind = "stats" THEN <<item.req>> ELSE statsDoc

\* Faulty variant: the try is around the loop, so one error drops the batch.
PersistAllOrDrop(p) ==
  /\ hand[p] # <<>>
  /\ \/ /\ hand' = [hand EXCEPT ![p] = Tail(@)]
        /\ saved' = saved \union {Head(hand[p])}
        /\ Apply(Head(hand[p]))
        /\ UNCHANGED failed
     \/ /\ SaveErrors
        /\ hand' = [hand EXCEPT ![p] = <<>>]
        /\ failed' = failed \union {Head(hand[p])}
        /\ UNCHANGED <<applied, statsDoc, saved>>
  /\ UNCHANGED <<life, queue, flushing, enqueued, alone, lost>>

\* Faulty variant: an item whose write raised is queued again.
PersistWithRetry(p) ==
  /\ hand[p] # <<>>
  /\ hand' = [hand EXCEPT ![p] = Tail(@)]
  /\ \/ /\ saved' = saved \union {Head(hand[p])}
        /\ Apply(Head(hand[p]))
        /\ UNCHANGED queue
     \/ /\ SaveErrors
        /\ queue' = Append(queue, Head(hand[p]))
        /\ UNCHANGED <<applied, statsDoc, saved>>
  /\ UNCHANGED <<life, failed, flushing, enqueued, alone, lost>>

\* One iteration of _persist_batch.  A write that raises counts as an error
\* whether or not Firestore applied it, and its item is dropped.
Persist(p) ==
  /\ hand[p] # <<>>
  /\ hand' = [hand EXCEPT ![p] = Tail(@)]
  /\ \/ /\ saved' = saved \union {Head(hand[p])}
        /\ Apply(Head(hand[p]))
        /\ UNCHANGED failed
     \/ /\ SaveErrors
        /\ failed' = failed \union {Head(hand[p])}
        /\ Apply(Head(hand[p])) \/ UNCHANGED <<applied, statsDoc>>
        /\ UNCHANGED saved
  /\ UNCHANGED <<life, queue, flushing, enqueued, alone, lost>>

\* The drain loop takes a batch when an item arrives or the interval ends.
DrainTake == life = "running" /\ TakeBatch(Drain)

FlushTake(p) == p \in flushing /\ TakeBatch(p)

FlushCall(f) ==
  /\ life = "running"
  /\ f \notin flushing
  /\ flushing' = flushing \union {f}
  /\ alone' = FALSE
  /\ UNCHANGED <<life, queue, hand, enqueued, saved, failed, applied, statsDoc, lost>>

\* flush() returns once it finds the queue empty.  The final flush ends stop().
FlushReturn(p) ==
  /\ p \in flushing
  /\ queue = <<>>
  /\ hand[p] = <<>>
  /\ flushing' = flushing \ {p}
  /\ life' = IF p = Stopper THEN "stopped" ELSE life
  /\ UNCHANGED <<queue, hand, enqueued, saved, failed, applied, statsDoc, alone, lost>>

\* Faulty variant: stop() only cancels the drain task.
StopWithoutFlush ==
  /\ life = "running"
  /\ flushing = {}
  /\ life' = "stopped"
  /\ hand' = [hand EXCEPT ![Drain] = <<>>]
  /\ alone' = FALSE
  /\ UNCHANGED <<queue, flushing, enqueued, saved, failed, applied, statsDoc, lost>>

\* stop(), called once the server serves no request: the drain task is
\* cancelled inside _persist_batch, and CancelledError takes the rest of its
\* batch with it.  The write it was waiting for may be applied all the same.
Stop ==
  /\ life = "running"
  /\ flushing = {}
  /\ life' = "stopping"
  /\ hand' = [hand EXCEPT ![Drain] = <<>>]
  /\ flushing' = {Stopper}
  /\ \/ hand[Drain] # <<>> /\ Apply(Head(hand[Drain]))
     \/ UNCHANGED <<applied, statsDoc>>
  /\ alone' = FALSE
  /\ UNCHANGED <<queue, enqueued, saved, failed, lost>>

PersistNext ==
  \/ DrainTake
  \/ \E p \in Persisters : FlushTake(p) \/ Persist(p) \/ FlushReturn(p)

\* The event loop keeps running its coroutines and every store call returns
\* or raises.  Nothing obliges anyone to enqueue, flush or stop.
Fairness ==
  /\ WF_bufferVars(DrainTake)
  /\ \A p \in Persisters :
       WF_bufferVars(FlushTake(p)) /\ WF_bufferVars(Persist(p)) /\ WF_bufferVars(FlushReturn(p))

-----------------------------------------------------------------------------
(* Properties.                                                             *)

TypeOK ==
  /\ life \in {"running", "stopping", "stopped"}
  /\ queue \in Seq(Items)
  /\ hand \in [Persisters -> Seq(Items)]
  /\ flushing \in SUBSET (Flushers \union {Stopper})
  /\ enqueued \in Seq(Items)
  /\ saved \in SUBSET Items
  /\ failed \in SUBSET Items
  /\ applied \in SUBSET Items
  /\ statsDoc \in Seq(Requests)
  /\ alone \in BOOLEAN
  /\ lost \in SUBSET Items

Settled == saved \union failed

\* Two coroutines never hold the same item, and an item that is queued or
\* held has not been persisted yet: nothing is written twice or counted twice.
HandledOnce ==
  /\ InQueue \intersect InHand = {}
  /\ (InQueue \union InHand) \intersect Settled = {}
  /\ \A p, q \in Persisters : p # q =>
       \A i \in DOMAIN hand[p], j \in DOMAIN hand[q] : hand[p][i] # hand[q][j]

\* Until stop() is called every item that was enqueued is queued, in some
\* coroutine's hands, persisted, counted as an error or was in a process that
\* died: none vanishes.
NothingVanishes ==
  life = "running" => Enqueued = InQueue \union InHand \union Settled \union lost

\* stop() promises to "flush remaining items".  It loses at most the one batch
\* whose persisting it cancelled: whatever else was enqueued is persisted or
\* counted as an error.
StopLosesAtMostABatch ==
  life = "stopped" => Cardinality(Enqueued \ (Settled \union lost)) <= MaxBatch

\* When nothing is pending, no write failed and no process died, the stored statistics are
\* those of the request enqueued last, as long as the drain task alone has
\* persisted: a concurrent flush may apply an older snapshot later.
StatsDocCurrentAtRest ==
  /\ alone
  /\ InQueue \union InHand = {}
  /\ failed = {}
  /\ lost = {}
  /\ enqueued # <<>>
  => statsDoc = <<enqueued[Len(enqueued)].req>>

\* Every item is accounted for: it is handled once, none vanishes while the
\* service runs, and stop() loses at most the batch it cancelled.
EveryItemAccounted == TypeOK /\ HandledOnce /\ NothingVanishes /\ StopLosesAtMostABatch

\* A receipt that was enqueued is eventually persisted or counted as an
\* error, unless the service shuts down or dies.
EveryReceiptSettles ==
  \A r \in Requests :
    [kind |-> "receipt", req |-> r] \in Enqueued
      ~> [kind |-> "receipt", req |-> r] \in Settled \union lost \/ life # "running"

\* A shutdown that has begun completes, unless the process dies first.
StopReturns == life = "stopping" ~> life # "stopping"
=============================================================================
