------------------------------- MODULE Gateway -------------------------------
(***************************************************************************)
(* The authorization path of the gateway with blocking persistence         *)
(* (HOT_PATH_MODE other than "async"), on every surface that serves it:    *)
(* the REST service (gateway/api.py), the MCP server and the ADK tool.     *)
(* Each surface is a process with its own in-memory ReceiptChain; all of   *)
(* them share one Firestore collection of receipts.                        *)
(*                                                                         *)
(* GatewayService.authorize is synchronous, so signing a receipt and       *)
(* sending its first write is one step of the event loop.  Each await that *)
(* follows is a point where other requests, a crash or a restart come in.  *)
(*                                                                         *)
(* A receipt's hash is identified with the request it answers: hashes do   *)
(* not collide and a request is signed at most once.  The documents for    *)
(* statistics and rate counters are written here without their contents.   *)
(***************************************************************************)
EXTENDS Integers

CONSTANTS
  Requests,      \* authorization requests
  Surfaces,      \* gateway processes
  RestSurfaces,  \* those of them that run gateway/api.py
  Genesis,       \* GENESIS_PREV_RECEIPT
  Faults         \* the faults this instance admits

FaultKinds == {"save_error", "late_write", "crash", "resume_error"}

ASSUME GatewayAssumption ==
  /\ RestSurfaces \subseteq Surfaces
  /\ Genesis \notin Requests
  /\ Faults \subseteq FaultKinds

VARIABLES
  up,        \* surfaces that are running
  chain,     \* per surface: ReceiptChain._seq and _prev_receipt_hash
  at,        \* the surface each request is addressed to
  pc,        \* where each request is in its handler, or how it ended
  receipt,   \* the receipt signed for each request
  wire,      \* receipt writes sent to Firestore and not yet applied
  store,     \* receipts in the Firestore collection
  artifacts, \* receipts appended to the artifact log
  blind      \* history: whether the stored chain could not be read at a start

vars == <<up, chain, at, pc, receipt, wire, store, artifacts, blind>>

InFlight == {"saving", "stats", "rates"}
Answered == {"approved", "denied"}
PC == {"idle", "rejected", "withheld", "lost"} \union InFlight \union Answered

ChainHead == [seq : Nat, prev : Requests \union {Genesis}]
Receipt == [seq : Nat, prev : Requests \union {Genesis},
            decision : {"none"} \union Answered]

FreshChain == [seq |-> 0, prev |-> Genesis]
Unsigned == [seq |-> 0, prev |-> Genesis, decision |-> "none"]
Signed(r) == receipt[r].seq > 0

Init ==
  /\ up = {}
  /\ chain = [s \in Surfaces |-> FreshChain]
  /\ at \in [Requests -> Surfaces]
  /\ pc = [r \in Requests |-> "idle"]
  /\ receipt = [r \in Requests |-> Unsigned]
  /\ wire = {}
  /\ store = {}
  /\ artifacts = {}
  /\ blind = FALSE

-----------------------------------------------------------------------------
(* Starting a surface: the stored chain, sorted by seq, names the head.    *)

\* Faulty variant: a chain that is not sorted by position may end anywhere.
UnsortedLastStored == store

\* get_chain()[-1]; receipts that share the highest seq come in some order.
LastStored == {r \in store : \A x \in store : receipt[x].seq <= receipt[r].seq}

\* Faulty variant: the position is resumed, the hash of the head is not.
ResumedWithoutHash ==
  {[seq |-> receipt[r].seq, prev |-> Genesis] : r \in LastStored}
    \union {c \in {FreshChain} : store = {}}

\* What the start-up code leaves in the chain: the head of the stored chain,
\* or a fresh chain when nothing is stored.
ResumedHeads ==
  {[seq |-> receipt[r].seq, prev |-> r] : r \in LastStored}
    \union {c \in {FreshChain} : store = {}}

\* A read that fails is logged; the process serves all the same.
Start(s) ==
  /\ s \notin up
  /\ up' = up \union {s}
  /\ \/ /\ \E c \in ResumedHeads : chain' = [chain EXCEPT ![s] = c]
        /\ UNCHANGED blind
     \/ /\ "resume_error" \in Faults
        /\ chain' = [chain EXCEPT ![s] = FreshChain]
        /\ blind' = TRUE
  /\ UNCHANGED <<at, pc, receipt, wire, store, artifacts>>

-----------------------------------------------------------------------------
(* One request, from the handler's entry to its response.                  *)

\* The liveness gate, a missing proof or a proof that does not verify.
Reject(r) ==
  /\ at[r] \in up
  /\ pc[r] = "idle"
  /\ pc' = [pc EXCEPT ![r] = "rejected"]
  /\ UNCHANGED <<up, chain, at, receipt, wire, store, artifacts, blind>>

\* sign_decision advances the chain before anything is persisted, then
\* save_receipt sends the write and suspends the handler.
Authorize(r, decision) ==
  LET s == at[r]
      n == chain[s].seq + 1
  IN /\ s \in up
     /\ pc[r] = "idle"
     /\ receipt' = [receipt EXCEPT ![r] =
          [seq |-> n, prev |-> chain[s].prev, decision |-> decision]]
     /\ chain' = [chain EXCEPT ![s] = [seq |-> n, prev |-> r]]
     /\ wire' = wire \union {r}
     /\ pc' = [pc EXCEPT ![r] = "saving"]
     /\ UNCHANGED <<up, at, store, artifacts, blind>>

\* Firestore applies a write, whether or not its sender still waits for it.
LandWrite(r) ==
  /\ r \in wire
  /\ wire' = wire \ {r}
  /\ store' = store \union {r}
  /\ UNCHANGED <<up, chain, at, pc, receipt, artifacts, blind>>

\* Faulty variant: the write of the receipt is not awaited.
ReceiptSentOnly(r) ==
  /\ at[r] \in up
  /\ pc[r] = "saving"
  /\ pc' = [pc EXCEPT ![r] = "stats"]
  /\ UNCHANGED <<up, chain, at, receipt, wire, store, artifacts, blind>>

\* save_receipt returns; save_stats is sent next.
ReceiptSaved(r) ==
  /\ at[r] \in up
  /\ pc[r] = "saving"
  /\ r \in store
  /\ pc' = [pc EXCEPT ![r] = "stats"]
  /\ UNCHANGED <<up, chain, at, receipt, wire, store, artifacts, blind>>

\* save_stats returns.  REST saves the rate counters next; the MCP and ADK
\* handlers respond.
StatsSaved(r) ==
  /\ at[r] \in up
  /\ pc[r] = "stats"
  /\ pc' = [pc EXCEPT ![r] = IF at[r] \in RestSurfaces THEN "rates"
                                                       ELSE receipt[r].decision]
  /\ UNCHANGED <<up, chain, at, receipt, wire, store, artifacts, blind>>

\* save_rate_limits returns; the handler appends the receipt to the artifact
\* log (a failure there is only logged) and responds.
RatesSaved(r) ==
  /\ at[r] \in up
  /\ pc[r] = "rates"
  /\ pc' = [pc EXCEPT ![r] = receipt[r].decision]
  /\ \/ artifacts' = artifacts \union {r}
     \/ UNCHANGED artifacts
  /\ UNCHANGED <<up, chain, at, receipt, wire, store, blind>>

\* Faulty variant: the failed write is only logged and the handler responds.
PersistFailureIgnored(r) ==
  /\ "save_error" \in Faults
  /\ at[r] \in up
  /\ pc[r] \in InFlight
  /\ pc' = [pc EXCEPT ![r] = receipt[r].decision]
  /\ wire' = wire \ {r}
  /\ UNCHANGED <<up, chain, at, receipt, store, artifacts, blind>>

\* Any of the three writes raises: the caller gets an error and no token.
\* The failed receipt write may still be applied later, or never.
PersistFailed(r) ==
  /\ "save_error" \in Faults
  /\ at[r] \in up
  /\ pc[r] \in InFlight
  /\ pc' = [pc EXCEPT ![r] = "withheld"]
  /\ \/ "late_write" \in Faults /\ UNCHANGED wire
     \/ wire' = wire \ {r}
  /\ UNCHANGED <<up, chain, at, receipt, store, artifacts, blind>>

\* The process ends in good order, no handler being under way: the server
\* drains its requests before it stops.
Shutdown(s) ==
  /\ s \in up
  /\ \A r \in Requests : at[r] = s => pc[r] \notin InFlight
  /\ up' = up \ {s}
  /\ chain' = [chain EXCEPT ![s] = FreshChain]
  /\ UNCHANGED <<at, pc, receipt, wire, store, artifacts, blind>>

\* The process dies with whatever it holds in memory.  Of its writes some
\* are lost and, when late writes are admitted, the rest are still applied.
Crash(s) ==
  LET mine == {r \in Requests : at[r] = s /\ pc[r] \in InFlight}
  IN /\ "crash" \in Faults
     /\ s \in up
     /\ up' = up \ {s}
     /\ chain' = [chain EXCEPT ![s] = FreshChain]
     /\ pc' = [r \in Requests |-> IF r \in mine THEN "lost" ELSE pc[r]]
     /\ \E gone \in SUBSET (wire \intersect mine) :
          /\ "late_write" \notin Faults => gone = wire \intersect mine
          /\ wire' = wire \ gone
     /\ UNCHANGED <<at, receipt, store, artifacts, blind>>

Next ==
  \/ \E s \in Surfaces : Start(s) \/ Shutdown(s) \/ Crash(s)
  \/ \E r \in Requests :
       \/ Reject(r)
       \/ \E decision \in Answered : Authorize(r, decision)
       \/ LandWrite(r)
       \/ ReceiptSaved(r)
       \/ StatsSaved(r)
       \/ RatesSaved(r)
       \/ PersistFailed(r)

Spec == Init /\ [][Next]_vars

-----------------------------------------------------------------------------
(* Properties.                                                             *)

TypeOK ==
  /\ up \in SUBSET Surfaces
  /\ chain \in [Surfaces -> ChainHead]
  /\ at \in [Requests -> Surfaces]
  /\ pc \in [Requests -> PC]
  /\ receipt \in [Requests -> Receipt]
  /\ wire \in SUBSET Requests
  /\ store \in SUBSET Requests
  /\ artifacts \in SUBSET Requests
  /\ blind \in BOOLEAN

\* No decision without evidence: whatever fails or crashes in between, a
\* caller holds a token (or a denial) only if the receipt behind it is in
\* the store, and is the receipt of that very decision.
AnswerHasStoredReceipt ==
  \A r \in Requests : pc[r] \in Answered => r \in store /\ receipt[r].decision = pc[r]

\* The artifact log, from which anchored Merkle roots are computed, never
\* names a receipt that the store lacks.
ArtifactsAreStored == artifacts \subseteq store

\* r's predecessor link resolves: genesis exactly at position one, otherwise
\* to a signed receipt one position below.
LinkResolves(r) ==
  IF receipt[r].seq = 1
    THEN receipt[r].prev = Genesis
    ELSE /\ receipt[r].prev \in Requests
         /\ receipt[receipt[r].prev].seq = receipt[r].seq - 1

\* Every receipt ever signed links to a signed predecessor one position
\* below it, across surfaces, lost writes, crashes and failed resumptions.
LinksResolve == \A r \in Requests : Signed(r) => LinkResolves(r)

\* As long as no start-up read failed, two requests answered by one surface
\* never occupy the same position of the chain, however its restarts
\* interleave with writes that are late or lost and with other surfaces.
AnsweredPositionsDistinct ==
  ~blind =>
    \A r1, r2 \in Requests :
      /\ pc[r1] \in Answered
      /\ pc[r2] \in Answered
      /\ at[r1] = at[r2]
      /\ r1 # r2
      => receipt[r1].seq # receipt[r2].seq

\* The stored receipts form one dense chain: distinct positions, and every
\* receipt but the first links to the stored receipt one position below it.
StoredChainUnbroken ==
  /\ \A r1, r2 \in store : r1 # r2 => receipt[r1].seq # receipt[r2].seq
  /\ \A r \in store :
       IF receipt[r].seq = 1
         THEN receipt[r].prev = Genesis
         ELSE /\ receipt[r].prev \in store
              /\ receipt[receipt[r].prev].seq = receipt[r].seq - 1

\* "The chain is unbroken across surfaces and container restarts": whenever no
\* write is outstanding, the stored receipts form one unbroken chain.
ChainUnbrokenAtRest == wire = {} => StoredChainUnbroken

\* If one surface serves all requests, the stored chain is unbroken at rest,
\* over any number of restarts, for as long as no start-up read failed and no
\* request lost its evidence (no write failed, no crash took a handler along).
ChainUnbrokenWhileHealthy ==
  /\ \E s \in Surfaces : \A r \in Requests : at[r] = s
  /\ ~blind
  /\ \A r \in Requests : pc[r] \notin {"withheld", "lost"}
  => ChainUnbrokenAtRest

Trail == INSTANCE AuditTrail WITH
  trail <- store,
  answered <- {r \in Requests : pc[r] \in Answered}

\* The request path implements the audit trail promise.
ImplementsTrail == Trail!Spec
=============================================================================
