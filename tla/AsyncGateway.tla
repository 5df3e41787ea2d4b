---------------------------- MODULE AsyncGateway ----------------------------
(***************************************************************************)
(* The asynchronous hot path of one REST process: /authorize signs a       *)
(* receipt, hands the evidence to the EvidenceBuffer and returns the token *)
(* at once.  The process may crash and restart, which empties the buffer   *)
(* and resumes the chain from whatever Firestore holds, or starts it over  *)
(* when that read fails.  A write in flight at the crash is applied before *)
(* the restart reads, at some later moment, or never.                      *)
(***************************************************************************)
EXTENDS EvidenceBuffer

CONSTANT Genesis
ASSUME AsyncAssumption == Genesis \notin Requests

VARIABLES
  chain,     \* ReceiptChain._seq and _prev_receipt_hash
  receipt,   \* the receipt signed for each request (seq 0: none)
  wire,      \* writes of processes that died, which Firestore may still apply
  disrupted  \* history: a start-up read failed, or a receipt on the wire was applied

chainVars == <<chain, receipt, wire, disrupted>>
vars == <<bufferVars, chain, receipt, wire, disrupted>>

FreshChain == [seq |-> 0, prev |-> Genesis]

AsyncInit ==
  /\ Init
  /\ chain = FreshChain
  /\ receipt = [r \in Requests |-> FreshChain]
  /\ wire = {}
  /\ disrupted = FALSE

\* Sign, enqueue, answer: one step of the event loop.
Authorize(r) ==
  /\ Enqueue(r)
  /\ receipt' = [receipt EXCEPT ![r] = [seq |-> chain.seq + 1, prev |-> chain.prev]]
  /\ chain' = [seq |-> chain.seq + 1, prev |-> r]
  /\ UNCHANGED <<wire, disrupted>>

Stored(items) == {r \in Requests : [kind |-> "receipt", req |-> r] \in items}
LastStored(S) == {r \in S : \A x \in S : receipt[x].seq <= receipt[r].seq}

\* Faulty variant: a restart does not read the stored chain.
NothingResumed(S) == {FreshChain}

\* Faulty variant: the position is resumed, the hash of the head is not.
ResumedWithoutHash(S) ==
  IF S = {} THEN {FreshChain}
            ELSE {[seq |-> receipt[r].seq, prev |-> Genesis] : r \in LastStored(S)}

\* What lifespan() leaves in the chain after reading the stored receipts S.
ResumedHeads(S) ==
  IF S = {} THEN {FreshChain}
            ELSE {[seq |-> receipt[r].seq, prev |-> r] : r \in LastStored(S)}

InFlightItems == {Head(hand[p]) : p \in {q \in Persisters : hand[q] # <<>>}}

\* The process dies and another one starts.  If it cannot read the stored chain,
\* lifespan logs the error and serves with a chain that starts at one.
Restart ==
  /\ \E late \in SUBSET InFlightItems :
       /\ applied' = applied \union late
       /\ statsDoc' \in {statsDoc} \union {<<item.req>> : item \in {x \in late : x.kind = "stats"}}
       /\ wire' = wire \union (InFlightItems \ late)
       /\ \/ chain' \in ResumedHeads(Stored(applied \union late)) /\ UNCHANGED disrupted
          \/ SaveErrors /\ chain' = FreshChain /\ disrupted' = TRUE
  /\ lost' = Enqueued \ Settled
  /\ life' = "running"
  /\ queue' = <<>>
  /\ hand' = [p \in Persisters |-> <<>>]
  /\ flushing' = {}
  /\ UNCHANGED <<enqueued, saved, failed, alone, receipt>>

\* Firestore applies a write of a process that is gone.
LandLate ==
  \E item \in wire :
    /\ Apply(item)
    /\ wire' = wire \ {item}
    /\ disrupted' = (disrupted \/ item.kind = "receipt")
    /\ UNCHANGED <<life, queue, hand, flushing, enqueued, saved, failed, alone, lost, chain, receipt>>

AsyncNext ==
  \/ \E r \in Requests : Authorize(r)
  \/ \E f \in Flushers : FlushCall(f) /\ UNCHANGED chainVars
  \/ PersistNext /\ UNCHANGED chainVars
  \/ Stop /\ UNCHANGED chainVars
  \/ Restart
  \/ LandLate

AsyncSpec == AsyncInit /\ [][AsyncNext]_vars /\ Fairness

-----------------------------------------------------------------------------
(* Properties.                                                             *)

ChainHead == [seq : Nat, prev : Requests \union {Genesis}]

AsyncTypeOK ==
  /\ TypeOK
  /\ chain \in ChainHead
  /\ receipt \in [Requests -> ChainHead]
  /\ wire \in SUBSET Items
  /\ disrupted \in BOOLEAN

\* The receipts in Firestore are exactly the positions 1..n of one chain,
\* each linked to the one before: as long as the drain task alone persists, in
\* signing order, no store call fails, and no receipt of a dead process is applied
\* after its successor has read the chain, there is no gap and no fork however
\* often the process dies.
StoredChainDense ==
  LET S == Stored(applied)
  IN alone /\ failed = {} /\ ~disrupted =>
       /\ \A r1, r2 \in S : r1 # r2 => receipt[r1].seq # receipt[r2].seq
       /\ \A r \in S :
            \/ receipt[r] = [seq |-> 1, prev |-> Genesis]
            \/ /\ receipt[r].prev \in S
               /\ receipt[receipt[r].prev].seq + 1 = receipt[r].seq

\* Whatever fails, a receipt in the store has a predecessor that was signed
\* at the position below it.
StoredLinksSigned ==
  \A r \in Stored(applied) :
    \/ receipt[r] = [seq |-> 1, prev |-> Genesis]
    \/ /\ receipt[r].prev \in Requests
       /\ receipt[receipt[r].prev].seq + 1 = receipt[r].seq

\* Whatever a crash took, a restart continues a chain that Firestore can show:
\* the stored links resolve, stored receipts are dense as far as one task
\* persisted them without an error, and the statistics are the last ones.
StoredChainResumes ==
  AsyncTypeOK /\ StoredChainDense /\ StoredLinksSigned /\ StatsDocCurrentAtRest
=============================================================================
