---------------------------- MODULE GatewayProofs ----------------------------
(***************************************************************************)
(* Proofs about Gateway.tla for every set of requests and surfaces.        *)
(***************************************************************************)
EXTENDS Gateway, TLAPS

-----------------------------------------------------------------------------
(* Type correctness.  A handler responds with the decision of its receipt, *)
(* so the type of pc needs that in-flight requests carry a real decision.  *)

InFlightDecided ==
  \A r \in Requests : pc[r] \in InFlight => receipt[r].decision \in Answered

TypeInv == TypeOK /\ InFlightDecided

\* A resumed chain head is a chain head.
LEMMA ResumedHeadsType ==
  ASSUME TypeOK PROVE ResumedHeads \subseteq ChainHead
BY DEF TypeOK, ResumedHeads, LastStored, ChainHead, FreshChain, Receipt

\* The next receipt of a surface is well formed.
LEMMA NextReceiptType ==
  ASSUME TypeOK, NEW r \in Requests, NEW d \in Answered
  PROVE  LET c == chain[at[r]]
         IN /\ c.seq \in Nat
            /\ c.prev \in Requests \union {Genesis}
            /\ [seq |-> c.seq + 1, prev |-> c.prev, decision |-> d] \in Receipt
            /\ [seq |-> c.seq + 1, prev |-> r] \in ChainHead
<1>1. chain[at[r]] \in ChainHead
  BY DEF TypeOK
<1>2. QED BY <1>1 DEF ChainHead, Receipt

LEMMA TypeInvStep == TypeInv /\ [Next]_vars => TypeInv'
<1> SUFFICES ASSUME TypeInv, [Next]_vars PROVE TypeInv'
  OBVIOUS
<1> USE DEF TypeInv, TypeOK, InFlightDecided
<1>1. ASSUME NEW s \in Surfaces, Start(s) PROVE TypeInv'
  <2>1. FreshChain \in ChainHead
    BY DEF FreshChain, ChainHead
  <2>2. PICK c \in ChainHead : chain' = [chain EXCEPT ![s] = c]
    BY <1>1, <2>1, ResumedHeadsType DEF Start
  <2>3. chain' \in [Surfaces -> ChainHead]
    BY <2>2
  <2>4. blind' \in BOOLEAN
    BY <1>1 DEF Start
  <2>5. UNCHANGED <<at, pc, receipt, wire, store, artifacts>> /\ up' \in SUBSET Surfaces
    BY <1>1 DEF Start
  <2>6. QED BY <2>3, <2>4, <2>5
<1>2. ASSUME NEW s \in Surfaces, Crash(s) PROVE TypeInv'
  BY <1>2 DEF Crash, PC, InFlight, FreshChain, ChainHead
<1>3. ASSUME NEW r \in Requests, Reject(r) PROVE TypeInv'
  BY <1>3 DEF Reject, PC, InFlight
<1>4. ASSUME NEW r \in Requests, NEW d \in Answered, Authorize(r, d) PROVE TypeInv'
  <2>1. TypeOK'
    BY <1>4, NextReceiptType DEF Authorize, PC, InFlight
  <2>2. InFlightDecided'
    BY <1>4 DEF Authorize
  <2>3. QED BY <2>1, <2>2
<1>5. ASSUME NEW r \in Requests, LandWrite(r) PROVE TypeInv'
  BY <1>5 DEF LandWrite
<1>6. ASSUME NEW r \in Requests, ReceiptSaved(r) PROVE TypeInv'
  BY <1>6 DEF ReceiptSaved, PC, InFlight
<1>7. ASSUME NEW r \in Requests, StatsSaved(r) PROVE TypeInv'
  BY <1>7 DEF StatsSaved, PC, InFlight
<1>8. ASSUME NEW r \in Requests, RatesSaved(r) PROVE TypeInv'
  BY <1>8 DEF RatesSaved, PC, InFlight, Answered
<1>9. ASSUME NEW r \in Requests, PersistFailed(r) PROVE TypeInv'
  BY <1>9 DEF PersistFailed, PC, InFlight
<1>10. CASE UNCHANGED vars
  BY <1>10 DEF vars
<1>11. ASSUME NEW s \in Surfaces, Shutdown(s) PROVE TypeInv'
  BY <1>11 DEF Shutdown, FreshChain, ChainHead
<1>12. QED
  BY <1>1, <1>2, <1>3, <1>4, <1>5, <1>6, <1>7, <1>8, <1>9, <1>10, <1>11 DEF Next

LEMMA TypeInvariant == Spec => []TypeInv
<1>1. Init => TypeInv
  <2> SUFFICES ASSUME Init PROVE TypeInv
    OBVIOUS
  <2>1. FreshChain \in ChainHead /\ Unsigned \in Receipt
    BY DEF FreshChain, ChainHead, Unsigned, Receipt
  <2>2. blind \in BOOLEAN
    BY DEF Init
  <2>3. chain \in [Surfaces -> ChainHead] /\ receipt \in [Requests -> Receipt]
    BY <2>1 DEF Init
  <2>4. pc \in [Requests -> PC] /\ InFlightDecided
    BY DEF Init, PC, InFlight, InFlightDecided
  <2>5. QED BY <2>2, <2>3, <2>4 DEF Init, TypeInv, TypeOK
<1>2. QED BY <1>1, TypeInvStep, PTL DEF Spec

\* Every variable of the request path keeps its type under every operation.
THEOREM TypeCorrect == Spec => []TypeOK
BY TypeInvariant, PTL DEF TypeInv

-----------------------------------------------------------------------------
(* Evidence.  A request that got past its receipt write has its receipt in *)
(* the store, where it stays.                                              *)

PastSave == {"stats", "rates"} \union Answered

EvidenceInv ==
  /\ \A r \in Requests : pc[r] \in PastSave => r \in store
  /\ \A r \in Requests : pc[r] \in Answered => receipt[r].decision = pc[r]
  /\ artifacts \subseteq store

LEMMA EvidenceStep == TypeInv /\ EvidenceInv /\ [Next]_vars => EvidenceInv'
<1> SUFFICES ASSUME TypeInv, EvidenceInv, [Next]_vars PROVE EvidenceInv'
  OBVIOUS
<1> USE DEF EvidenceInv, PastSave, Answered, TypeInv, TypeOK
<1>1. ASSUME NEW s \in Surfaces, Start(s) PROVE EvidenceInv'
  BY <1>1 DEF Start
<1>2. ASSUME NEW s \in Surfaces, Crash(s) PROVE EvidenceInv'
  BY <1>2 DEF Crash
<1>3. ASSUME NEW r \in Requests, Reject(r) PROVE EvidenceInv'
  BY <1>3 DEF Reject
<1>4. ASSUME NEW r \in Requests, NEW d \in Answered, Authorize(r, d) PROVE EvidenceInv'
  BY <1>4 DEF Authorize
<1>5. ASSUME NEW r \in Requests, LandWrite(r) PROVE EvidenceInv'
  BY <1>5 DEF LandWrite
<1>6. ASSUME NEW r \in Requests, ReceiptSaved(r) PROVE EvidenceInv'
  BY <1>6 DEF ReceiptSaved
<1>7. ASSUME NEW r \in Requests, StatsSaved(r) PROVE EvidenceInv'
  BY <1>7 DEF StatsSaved
<1>8. ASSUME NEW r \in Requests, RatesSaved(r) PROVE EvidenceInv'
  BY <1>8 DEF RatesSaved
<1>9. ASSUME NEW r \in Requests, PersistFailed(r) PROVE EvidenceInv'
  BY <1>9 DEF PersistFailed
<1>10. CASE UNCHANGED vars
  BY <1>10 DEF vars
<1>11. ASSUME NEW s \in Surfaces, Shutdown(s) PROVE EvidenceInv'
  BY <1>11 DEF Shutdown
<1>12. QED
  BY <1>1, <1>2, <1>3, <1>4, <1>5, <1>6, <1>7, <1>8, <1>9, <1>10, <1>11 DEF Next

LEMMA EvidenceInvariant == Spec => []EvidenceInv
<1>1. Init => EvidenceInv
  BY DEF Init, EvidenceInv, PastSave, Answered
<1>2. QED BY <1>1, EvidenceStep, TypeInvariant, PTL DEF Spec

\* A caller holds a decision only if the receipt of that decision is stored,
\* whatever fails, crashes or restarts between signing and responding.
THEOREM NoAnswerWithoutEvidence == Spec => []AnswerHasStoredReceipt
<1>1. EvidenceInv => AnswerHasStoredReceipt
  BY DEF EvidenceInv, AnswerHasStoredReceipt, PastSave
<1>2. QED BY <1>1, EvidenceInvariant, PTL

\* The artifact log of the request path names stored receipts only.
THEOREM ArtifactsNameStoredReceipts == Spec => []ArtifactsAreStored
<1>1. EvidenceInv => ArtifactsAreStored
  BY DEF EvidenceInv, ArtifactsAreStored
<1>2. QED BY <1>1, EvidenceInvariant, PTL

-----------------------------------------------------------------------------
(* Links.  The head of every surface's chain is a signed receipt whose     *)
(* position is the surface's counter, so the next receipt links to it.     *)

HeadResolves(c) ==
  IF c.seq = 0 THEN c.prev = Genesis
               ELSE c.prev \in Requests /\ receipt[c.prev].seq = c.seq

LinkInv ==
  /\ \A r \in Requests : pc[r] = "idle" => receipt[r].seq = 0
  /\ \A r \in wire \union store : receipt[r].seq > 0
  /\ \A s \in Surfaces : HeadResolves(chain[s])
  /\ LinksResolve

\* Signing a receipt for r, which had none, disturbs no link of another
\* receipt: nothing links to an unsigned receipt.
LEMMA AuthorizeKeepsLinks ==
  ASSUME TypeInv, LinkInv, NEW r \in Requests, NEW d \in Answered, Authorize(r, d)
  PROVE  LinkInv'
<1> USE GatewayAssumption DEF TypeInv, TypeOK, LinkInv
<1> DEFINE c == chain[at[r]]
<1>1. /\ c.seq \in Nat
      /\ at[r] \in Surfaces
      /\ receipt[r].seq = 0
      /\ receipt' = [receipt EXCEPT ![r] =
            [seq |-> c.seq + 1, prev |-> c.prev, decision |-> d]]
      /\ chain' = [chain EXCEPT ![at[r]] = [seq |-> c.seq + 1, prev |-> r]]
  BY NextReceiptType DEF Authorize
<1>2. /\ receipt'[r].seq = c.seq + 1
      /\ receipt'[r].prev = c.prev
      /\ \A x \in Requests : x # r => receipt'[x] = receipt[x]
  BY <1>1
<1>3. \A x \in Requests : receipt[x].seq \in Nat
  BY DEF Receipt
<1>4. \A s \in Surfaces : chain[s].seq \in Nat
  BY DEF ChainHead
<1>5. (\A x \in Requests : pc[x] = "idle" => receipt[x].seq = 0)'
  BY <1>2 DEF Authorize
<1>6. (\A x \in wire \union store : receipt[x].seq > 0)'
  BY <1>1, <1>2 DEF Authorize
<1>7. (\A s \in Surfaces : HeadResolves(chain[s]))'
  <2> SUFFICES ASSUME NEW s \in Surfaces PROVE HeadResolves(chain[s])'
    OBVIOUS
  <2>1. CASE s = at[r]
    BY <2>1, <1>1, <1>2 DEF HeadResolves
  <2>2. CASE s # at[r]
    <3>1. chain'[s] = chain[s] /\ HeadResolves(chain[s])
      BY <2>2, <1>1
    <3>2. QED BY <3>1, <1>1, <1>2, <1>4 DEF HeadResolves
  <2>3. QED BY <2>1, <2>2
<1>8. LinksResolve'
  <2> SUFFICES ASSUME NEW x \in Requests, Signed(x)' PROVE LinkResolves(x)'
    BY DEF LinksResolve
  <2>1. CASE x = r
    <3>1. HeadResolves(c)
      BY <1>1
    <3>2. CASE c.seq = 0
      BY <2>1, <3>1, <3>2, <1>2 DEF HeadResolves, LinkResolves
    <3>3. CASE c.seq # 0
      <4>1. c.prev \in Requests /\ c.prev # r /\ receipt'[c.prev].seq = c.seq
        BY <3>1, <3>3, <1>1, <1>2 DEF HeadResolves
      <4>2. QED BY <2>1, <4>1, <3>3, <1>1, <1>2 DEF LinkResolves
    <3>4. QED BY <3>2, <3>3
  <2>2. CASE x # r
    <3>1. receipt'[x] = receipt[x] /\ LinkResolves(x)
      BY <2>2, <1>2 DEF LinksResolve, Signed
    <3>2. CASE receipt[x].seq = 1
      BY <3>1, <3>2 DEF LinkResolves
    <3>3. CASE receipt[x].seq # 1
      <4>1. receipt[x].prev \in Requests /\ receipt[receipt[x].prev].seq = receipt[x].seq - 1
        BY <3>1, <3>3 DEF LinkResolves
      <4>2. receipt[x].seq > 1
        BY <3>1, <3>3, <1>3 DEF Signed
      <4>3. receipt[x].prev # r
        BY <4>1, <4>2, <1>1, <1>3
      <4>4. QED BY <3>1, <3>3, <4>1, <4>3, <1>2 DEF LinkResolves
    <3>4. QED BY <3>2, <3>3
  <2>3. QED BY <2>1, <2>2
<1>9. QED BY <1>5, <1>6, <1>7, <1>8

\* The head a restarted surface resumes from is a stored receipt.
LEMMA ResumedHeadResolves ==
  ASSUME TypeInv, LinkInv, NEW c \in ResumedHeads
  PROVE  HeadResolves(c)
<1>1. CASE c = FreshChain
  BY <1>1 DEF FreshChain, HeadResolves
<1>2. ASSUME NEW r \in LastStored, c = [seq |-> receipt[r].seq, prev |-> r]
      PROVE  HeadResolves(c)
  <2>1. r \in Requests /\ receipt[r].seq > 0
    BY DEF LastStored, LinkInv, TypeInv, TypeOK
  <2>2. QED BY <1>2, <2>1 DEF HeadResolves
<1>3. QED BY <1>1, <1>2 DEF ResumedHeads

LEMMA LinkStep == TypeInv /\ LinkInv /\ [Next]_vars => LinkInv'
<1> SUFFICES ASSUME TypeInv, LinkInv, [Next]_vars PROVE LinkInv'
  OBVIOUS
<1> USE DEF LinkInv, TypeInv, TypeOK, LinksResolve, LinkResolves, Signed, HeadResolves
<1>1. ASSUME NEW s \in Surfaces, Start(s) PROVE LinkInv'
  <2>1. PICK c \in ResumedHeads \union {FreshChain} : chain' = [chain EXCEPT ![s] = c]
    BY <1>1 DEF Start
  <2>2. HeadResolves(c)
    BY ResumedHeadResolves DEF FreshChain
  <2>3. \A t \in Surfaces : chain'[t] = IF t = s THEN c ELSE chain[t]
    BY <2>1
  <2>4. QED BY <1>1, <2>2, <2>3 DEF Start
<1>2. ASSUME NEW s \in Surfaces, Crash(s) PROVE LinkInv'
  <2>1. \A t \in Surfaces : chain'[t] = IF t = s THEN FreshChain ELSE chain[t]
    BY <1>2 DEF Crash
  <2>2. wire' \subseteq wire /\ store' = store /\ receipt' = receipt
    BY <1>2 DEF Crash
  <2>3. \A r \in Requests : pc'[r] = "idle" => pc[r] = "idle"
    BY <1>2 DEF Crash
  <2>4. QED BY <2>1, <2>2, <2>3 DEF FreshChain
<1>3. ASSUME NEW r \in Requests, Reject(r) PROVE LinkInv'
  BY <1>3 DEF Reject
<1>4. ASSUME NEW r \in Requests, NEW d \in Answered, Authorize(r, d) PROVE LinkInv'
  BY <1>4, AuthorizeKeepsLinks
<1>5. ASSUME NEW r \in Requests, LandWrite(r) PROVE LinkInv'
  BY <1>5 DEF LandWrite
<1>6. ASSUME NEW r \in Requests, ReceiptSaved(r) PROVE LinkInv'
  BY <1>6 DEF ReceiptSaved
<1>7. ASSUME NEW r \in Requests, StatsSaved(r) PROVE LinkInv'
  <2>1. receipt[r].decision # "idle"
    BY <1>7 DEF StatsSaved, InFlightDecided, InFlight, Answered
  <2>2. QED BY <1>7, <2>1 DEF StatsSaved
<1>8. ASSUME NEW r \in Requests, RatesSaved(r) PROVE LinkInv'
  <2>1. receipt[r].decision # "idle"
    BY <1>8 DEF RatesSaved, InFlightDecided, InFlight, Answered
  <2>2. QED BY <1>8, <2>1 DEF RatesSaved
<1>9. ASSUME NEW r \in Requests, PersistFailed(r) PROVE LinkInv'
  BY <1>9 DEF PersistFailed
<1>10. CASE UNCHANGED vars
  BY <1>10 DEF vars
<1>11. ASSUME NEW s \in Surfaces, Shutdown(s) PROVE LinkInv'
  <2>1. \A t \in Surfaces : chain'[t] = IF t = s THEN FreshChain ELSE chain[t]
    BY <1>11 DEF Shutdown
  <2>2. QED BY <1>11, <2>1 DEF Shutdown, FreshChain
<1>12. QED
  BY <1>1, <1>2, <1>3, <1>4, <1>5, <1>6, <1>7, <1>8, <1>9, <1>10, <1>11 DEF Next

LEMMA LinkInvariant == Spec => []LinkInv
<1>1. Init => LinkInv
  BY DEF Init, LinkInv, LinksResolve, Signed, HeadResolves, FreshChain, Unsigned
<1>2. QED BY <1>1, LinkStep, TypeInvariant, PTL DEF Spec

\* Every signed receipt, on any surface and in any session, links to a signed
\* receipt one position below it (or to genesis at position one).
THEOREM LinksAlwaysResolve == Spec => []LinksResolve
<1>1. LinkInv => LinksResolve
  BY DEF LinkInv
<1>2. QED BY <1>1, LinkInvariant, PTL

-----------------------------------------------------------------------------
(* Positions.  As long as every start-up read succeeded, a live counter is *)
(* never below the position of a request of its surface that is answered   *)
(* or may still be: a restart forgets only requests nobody waits for.      *)

Live == InFlight \union Answered

PositionsBounded ==
  \A r \in Requests :
    pc[r] \in Live /\ at[r] \in up => receipt[r].seq <= chain[at[r]].seq

PositionsDistinct ==
  \A r1, r2 \in Requests :
    /\ pc[r1] \in Live
    /\ pc[r2] \in Live
    /\ at[r1] = at[r2]
    /\ r1 # r2
    => receipt[r1].seq # receipt[r2].seq

PositionInv ==
  /\ \A r \in Requests : pc[r] \in InFlight => at[r] \in up
  /\ ~blind => PositionsBounded /\ PositionsDistinct

\* A surface that read the stored chain counts on from at least every
\* answered position.
LEMMA ResumePastAnswered ==
  ASSUME TypeInv, EvidenceInv,
         NEW c \in ResumedHeads, NEW r \in Requests, pc[r] \in Answered
  PROVE  receipt[r].seq <= c.seq
<1>1. r \in store
  BY DEF EvidenceInv, PastSave
<1>2. PICK x \in LastStored : c = [seq |-> receipt[x].seq, prev |-> x]
  BY <1>1 DEF ResumedHeads
<1>3. QED BY <1>1, <1>2 DEF LastStored

LEMMA PositionStep == TypeInv /\ EvidenceInv /\ PositionInv /\ [Next]_vars => PositionInv'
<1> SUFFICES ASSUME TypeInv, EvidenceInv, PositionInv, [Next]_vars PROVE PositionInv'
  OBVIOUS
<1> USE DEF PositionInv, PositionsBounded, PositionsDistinct, TypeInv, TypeOK, Live,
            Answered, InFlight
<1>1. ASSUME NEW s \in Surfaces, Start(s) PROVE PositionInv'
  <2>1. \A r \in Requests : pc[r] \in InFlight => at[r] # s
    BY <1>1 DEF Start
  <2>2. CASE blind'
    BY <1>1, <2>2 DEF Start
  <2>3. CASE ~blind'
    <3>1. /\ ~blind
          /\ \E c \in ResumedHeads : chain' = [chain EXCEPT ![s] = c]
      BY <1>1, <2>3 DEF Start
    <3>2. PICK c \in ResumedHeads : chain' = [chain EXCEPT ![s] = c]
      BY <3>1
    <3>3. \A r \in Requests : pc[r] \in Answered => receipt[r].seq <= c.seq
      BY ResumePastAnswered
    <3>4. \A r \in Requests : chain'[at[r]] = IF at[r] = s THEN c ELSE chain[at[r]]
      BY <3>2
    <3>5. PositionsBounded'
      BY <1>1, <2>1, <3>1, <3>3, <3>4 DEF Start
    <3>6. PositionsDistinct'
      BY <1>1, <3>1 DEF Start
    <3>7. QED BY <1>1, <3>5, <3>6 DEF Start
  <2>4. QED BY <2>2, <2>3
<1>2. ASSUME NEW s \in Surfaces, Crash(s) PROVE PositionInv'
  <2>1. \A r \in Requests : pc'[r] = IF at[r] = s /\ pc[r] \in InFlight THEN "lost" ELSE pc[r]
    BY <1>2 DEF Crash
  <2>2. /\ up' = up \ {s}
        /\ UNCHANGED <<at, receipt, blind>>
        /\ \A r \in Requests : at[r] # s => chain'[at[r]] = chain[at[r]]
    BY <1>2 DEF Crash
  <2>3. \A r \in Requests : pc'[r] \in Live => pc[r] \in Live
    BY <2>1
  <2>4. \A r \in Requests : pc'[r] \in InFlight => at'[r] \in up'
    BY <2>1, <2>2
  <2>5. ~blind' => PositionsBounded'
    BY <2>2, <2>3
  <2>6. ~blind' => PositionsDistinct'
    BY <2>2, <2>3
  <2>7. QED BY <2>4, <2>5, <2>6
<1>3. ASSUME NEW r \in Requests, Reject(r) PROVE PositionInv'
  BY <1>3 DEF Reject
<1>4. ASSUME NEW r \in Requests, NEW d \in Answered, Authorize(r, d) PROVE PositionInv'
  <2> DEFINE n == chain[at[r]].seq + 1
  <2>1. /\ n \in Nat
        /\ \A x \in Requests : receipt[x].seq \in Nat /\ chain[at[x]].seq \in Nat
    BY DEF ChainHead, Receipt
  <2>2. /\ receipt'[r].seq = n
        /\ \A x \in Requests : x # r => receipt'[x] = receipt[x]
        /\ chain'[at[r]].seq = n
        /\ \A x \in Requests : at[x] # at[r] => chain'[at[x]] = chain[at[x]]
        /\ \A x \in Requests : x # r => pc'[x] = pc[x]
        /\ UNCHANGED <<at, up, blind>>
        /\ at[r] \in up
    BY <1>4, <2>1 DEF Authorize
  <2>3. ~blind => \A x \in Requests :
          x # r /\ at[x] = at[r] /\ pc[x] \in Live => receipt[x].seq < n
    BY <2>1, <2>2
  <2>4. ~blind' => PositionsBounded'
    BY <2>1, <2>2, <2>3
  <2>5. ~blind' => PositionsDistinct'
    BY <2>1, <2>2, <2>3
  <2>6. QED BY <2>2, <2>4, <2>5
<1>5. ASSUME NEW r \in Requests, LandWrite(r) PROVE PositionInv'
  BY <1>5 DEF LandWrite
<1>6. ASSUME NEW r \in Requests, ReceiptSaved(r) PROVE PositionInv'
  BY <1>6 DEF ReceiptSaved
<1>7. ASSUME NEW r \in Requests, StatsSaved(r) PROVE PositionInv'
  BY <1>7 DEF StatsSaved, InFlightDecided
<1>8. ASSUME NEW r \in Requests, RatesSaved(r) PROVE PositionInv'
  BY <1>8 DEF RatesSaved, InFlightDecided
<1>9. ASSUME NEW r \in Requests, PersistFailed(r) PROVE PositionInv'
  BY <1>9 DEF PersistFailed
<1>10. CASE UNCHANGED vars
  BY <1>10 DEF vars
<1>11. ASSUME NEW s \in Surfaces, Shutdown(s) PROVE PositionInv'
  <2>1. /\ up' = up \ {s}
        /\ UNCHANGED <<at, receipt, pc, blind>>
        /\ \A r \in Requests : at[r] # s => chain'[at[r]] = chain[at[r]]
        /\ \A r \in Requests : at[r] = s => pc[r] \notin InFlight
    BY <1>11 DEF Shutdown
  <2>2. QED BY <2>1
<1>12. QED
  BY <1>1, <1>2, <1>3, <1>4, <1>5, <1>6, <1>7, <1>8, <1>9, <1>10, <1>11 DEF Next

LEMMA PositionInvariant == Spec => []PositionInv
<1>1. Init => PositionInv
  BY DEF Init, PositionInv, PositionsBounded, PositionsDistinct, Live, InFlight, Answered
<1>2. QED BY <1>1, PositionStep, TypeInvariant, EvidenceInvariant, PTL DEF Spec

\* As long as every start-up read succeeded, no two requests answered by one
\* surface occupy one position of the chain, whatever writes fail, are late or
\* are lost, however often it restarts, and whatever other surfaces do.
THEOREM AnsweredPositionsNeverCollide == Spec => []AnsweredPositionsDistinct
<1>1. PositionInv => AnsweredPositionsDistinct
  BY DEF PositionInv, PositionsDistinct, AnsweredPositionsDistinct, Live
<1>2. QED BY <1>1, PositionInvariant, PTL

-----------------------------------------------------------------------------
(* The stored chain.  Until a request loses its evidence, every signed     *)
(* receipt is stored or on its way; so at rest the stored receipts are all *)
(* the signed ones, whose links and positions are settled above.           *)

NothingLost == \A r \in Requests : pc[r] \notin {"withheld", "lost"}

DeliveryInv ==
  /\ \A r \in Requests : pc[r] = "idle" \/ pc[r] = "rejected" => receipt[r].seq = 0
  /\ NothingLost => \A r \in Requests : pc[r] \in Live => r \in wire \union store

LEMMA DeliveryStep == TypeInv /\ DeliveryInv /\ [Next]_vars => DeliveryInv'
<1> SUFFICES ASSUME TypeInv, DeliveryInv, [Next]_vars PROVE DeliveryInv'
  OBVIOUS
<1> USE DEF DeliveryInv, NothingLost, TypeInv, TypeOK, Live, Answered, InFlight
<1>1. ASSUME NEW s \in Surfaces, Start(s) PROVE DeliveryInv'
  BY <1>1 DEF Start
<1>2. ASSUME NEW s \in Surfaces, Crash(s) PROVE DeliveryInv'
  <2>1. \A r \in Requests : pc'[r] = IF at[r] = s /\ pc[r] \in InFlight THEN "lost" ELSE pc[r]
    BY <1>2 DEF Crash
  <2>2. CASE \E r \in Requests : at[r] = s /\ pc[r] \in InFlight
    BY <1>2, <2>1, <2>2 DEF Crash
  <2>3. CASE \A r \in Requests : at[r] = s => pc[r] \notin InFlight
    <3>1. \A r \in Requests : pc'[r] = pc[r]
      BY <2>1, <2>3
    <3>2. UNCHANGED <<receipt, wire, store>>
      BY <1>2, <2>3 DEF Crash
    <3>3. QED BY <3>1, <3>2
  <2>4. QED BY <2>2, <2>3
<1>3. ASSUME NEW r \in Requests, Reject(r) PROVE DeliveryInv'
  BY <1>3 DEF Reject
<1>4. ASSUME NEW r \in Requests, NEW d \in Answered, Authorize(r, d) PROVE DeliveryInv'
  <2>1. \A x \in Requests : x # r => receipt'[x] = receipt[x] /\ pc'[x] = pc[x]
    BY <1>4 DEF Authorize
  <2>2. pc[r] = "idle" /\ pc'[r] = "saving" /\ wire' = wire \union {r} /\ store' = store
    BY <1>4 DEF Authorize
  <2>3. QED BY <2>1, <2>2
<1>5. ASSUME NEW r \in Requests, LandWrite(r) PROVE DeliveryInv'
  BY <1>5 DEF LandWrite
<1>6. ASSUME NEW r \in Requests, ReceiptSaved(r) PROVE DeliveryInv'
  BY <1>6 DEF ReceiptSaved
<1>7. ASSUME NEW r \in Requests, StatsSaved(r) PROVE DeliveryInv'
  BY <1>7 DEF StatsSaved, InFlightDecided
<1>8. ASSUME NEW r \in Requests, RatesSaved(r) PROVE DeliveryInv'
  BY <1>8 DEF RatesSaved, InFlightDecided
<1>9. ASSUME NEW r \in Requests, PersistFailed(r) PROVE DeliveryInv'
  <2>1. pc' = [pc EXCEPT ![r] = "withheld"] /\ receipt' = receipt
    BY <1>9 DEF PersistFailed
  <2>2. QED BY <2>1
<1>10. CASE UNCHANGED vars
  BY <1>10 DEF vars
<1>11. ASSUME NEW s \in Surfaces, Shutdown(s) PROVE DeliveryInv'
  BY <1>11 DEF Shutdown
<1>12. QED
  BY <1>1, <1>2, <1>3, <1>4, <1>5, <1>6, <1>7, <1>8, <1>9, <1>10, <1>11 DEF Next

\* Of one surface that read its chain at every start, the receipts of requests
\* that kept their evidence form one chain when no write is outstanding.
LEMMA HealthyChain ==
  TypeInv /\ EvidenceInv /\ LinkInv /\ PositionInv /\ DeliveryInv => ChainUnbrokenWhileHealthy
<1> SUFFICES ASSUME TypeInv, EvidenceInv, LinkInv, PositionInv, DeliveryInv,
                    NEW s \in Surfaces, \A r \in Requests : at[r] = s,
                    ~blind, NothingLost, wire = {}
             PROVE  StoredChainUnbroken
  BY DEF ChainUnbrokenWhileHealthy, ChainUnbrokenAtRest, NothingLost, TypeInv, TypeOK
<1>1. \A r \in Requests : receipt[r].seq > 0 => pc[r] \in Live
  BY DEF DeliveryInv, NothingLost, TypeInv, TypeOK, PC, Live
<1>2. \A r \in Requests : receipt[r].seq > 0 => r \in store
  BY <1>1 DEF DeliveryInv
<1>3. \A r \in store : r \in Requests /\ receipt[r].seq > 0 /\ pc[r] \in Live
  BY <1>1 DEF LinkInv, TypeInv, TypeOK
<1>4. \A r1, r2 \in store : r1 # r2 => receipt[r1].seq # receipt[r2].seq
  BY <1>3 DEF PositionInv, PositionsDistinct
<1>5. ASSUME NEW r \in store, receipt[r].seq # 1
      PROVE  receipt[r].prev \in store /\ receipt[receipt[r].prev].seq = receipt[r].seq - 1
  <2>1. /\ receipt[r].prev \in Requests
        /\ receipt[receipt[r].prev].seq = receipt[r].seq - 1
    BY <1>3, <1>5 DEF LinkInv, LinksResolve, LinkResolves, Signed
  <2>2. receipt[r].seq \in Nat /\ receipt[r].seq > 1
    BY <1>3, <1>5 DEF TypeInv, TypeOK, Receipt
  <2>3. QED BY <1>2, <2>1, <2>2
<1>6. \A r \in store : receipt[r].seq = 1 => receipt[r].prev = Genesis
  BY <1>3 DEF LinkInv, LinksResolve, LinkResolves, Signed
<1>7. QED BY <1>4, <1>5, <1>6 DEF StoredChainUnbroken

\* One surface serving all requests leaves one unbroken stored chain whenever no
\* write is outstanding, over any number of restarts and late writes, until a
\* start-up read fails or a request loses its evidence.
THEOREM ChainStaysWhole == Spec => []ChainUnbrokenWhileHealthy
<1>1. Init => DeliveryInv
  BY DEF Init, DeliveryInv, Unsigned, Live, InFlight, Answered
<1>2. Spec => []DeliveryInv
  BY <1>1, DeliveryStep, TypeInvariant, PTL DEF Spec
<1>3. QED
  BY <1>2, HealthyChain, TypeInvariant, EvidenceInvariant, LinkInvariant, PositionInvariant, PTL

-----------------------------------------------------------------------------
(* Refinement.                                                             *)

LEMMA StepRefinesTrail ==
  EvidenceInv /\ TypeInv /\ [Next]_vars => [Trail!Next]_(Trail!trailVars)
<1> SUFFICES ASSUME EvidenceInv, TypeInv, [Next]_vars
             PROVE  [Trail!Next]_(Trail!trailVars)
  OBVIOUS
<1> DEFINE answered == {r \in Requests : pc[r] \in Answered}
<1> USE DEF Answered, InFlight, TypeInv, TypeOK, Trail!trailVars
<1>1. ASSUME NEW s \in Surfaces, Start(s) PROVE UNCHANGED <<store, answered>>
  BY <1>1 DEF Start
<1>2. ASSUME NEW s \in Surfaces, Crash(s) PROVE UNCHANGED <<store, answered>>
  BY <1>2 DEF Crash
<1>3. ASSUME NEW r \in Requests, Reject(r) PROVE UNCHANGED <<store, answered>>
  BY <1>3 DEF Reject
<1>4. ASSUME NEW r \in Requests, NEW d \in Answered, Authorize(r, d)
      PROVE  UNCHANGED <<store, answered>>
  BY <1>4 DEF Authorize
<1>5. ASSUME NEW r \in Requests, LandWrite(r) PROVE Trail!Record(r)
  BY <1>5 DEF LandWrite, Trail!Record
<1>6. ASSUME NEW r \in Requests, ReceiptSaved(r) PROVE UNCHANGED <<store, answered>>
  BY <1>6 DEF ReceiptSaved
<1>7. ASSUME NEW r \in Requests, StatsSaved(r)
      PROVE  Trail!Release(r) \/ UNCHANGED <<store, answered>>
  <2>1. r \in store /\ receipt[r].decision \in Answered
    BY <1>7 DEF StatsSaved, EvidenceInv, PastSave, InFlightDecided
  <2>2. CASE at[r] \in RestSurfaces
    BY <1>7, <2>2 DEF StatsSaved
  <2>3. CASE at[r] \notin RestSurfaces
    <3>1. answered' = answered \union {r} /\ store' = store
      BY <1>7, <2>1, <2>3 DEF StatsSaved
    <3>2. QED BY <2>1, <3>1 DEF Trail!Release
  <2>4. QED BY <2>2, <2>3
<1>8. ASSUME NEW r \in Requests, RatesSaved(r) PROVE Trail!Release(r)
  <2>1. r \in store /\ receipt[r].decision \in Answered
    BY <1>8 DEF RatesSaved, EvidenceInv, PastSave, InFlightDecided
  <2>2. answered' = answered \union {r} /\ store' = store
    BY <1>8, <2>1 DEF RatesSaved
  <2>3. QED BY <2>1, <2>2 DEF Trail!Release
<1>9. ASSUME NEW r \in Requests, PersistFailed(r) PROVE UNCHANGED <<store, answered>>
  BY <1>9 DEF PersistFailed
<1>10. CASE UNCHANGED vars
  BY <1>10 DEF vars
<1>11. ASSUME NEW s \in Surfaces, Shutdown(s) PROVE UNCHANGED <<store, answered>>
  BY <1>11 DEF Shutdown
<1>12. QED
  BY <1>1, <1>2, <1>3, <1>4, <1>5, <1>6, <1>7, <1>8, <1>9, <1>10, <1>11 DEF Next, Trail!Next

\* The request path implements the audit trail: evidence accumulates and a
\* decision is released only over evidence that is already durable.
THEOREM GatewayImplementsTrail == Spec => ImplementsTrail
<1>1. Init => Trail!Init
  BY DEF Init, Trail!Init, Answered
<1>2. QED
  BY <1>1, StepRefinesTrail, TypeInvariant, EvidenceInvariant, PTL
     DEF Spec, ImplementsTrail, Trail!Spec
=============================================================================
