-------------------------- MODULE AsyncGatewayProofs --------------------------
(***************************************************************************)
(* Proofs about EvidenceBuffer.tla and AsyncGateway.tla for every set of   *)
(* requests and of flushers and every batch size.                          *)
(***************************************************************************)
EXTENDS AsyncGateway, FiniteSetTheorems, SequenceTheorems, TLAPS

-----------------------------------------------------------------------------
(* The inductive invariant of the buffer.                                  *)

Distinct(s) == \A i, j \in 1 .. Len(s) : i # j => s[i] # s[j]

Elems(s) == {s[i] : i \in 1 .. Len(s)}
HeldBy(p) == Elems(hand[p])

\* No item is in two places, and every place holds enqueued items.
PlacesInv ==
  /\ Distinct(queue)
  /\ InQueue \intersect Settled = {}
  /\ lost \intersect (InQueue \union Settled) = {}
  /\ InQueue \union Settled \union lost \union applied \subseteq Enqueued
  /\ \A p \in Persisters :
       /\ Distinct(hand[p])
       /\ HeldBy(p) \intersect (InQueue \union Settled \union lost) = {}
       /\ HeldBy(p) \subseteq Enqueued
  /\ \A p, q \in Persisters : p # q => HeldBy(p) \intersect HeldBy(q) = {}

\* Who may hold a batch, and how large it is.
HolderInv ==
  /\ \A p \in Persisters : Len(hand[p]) <= MaxBatch
  /\ \A p \in Persisters : hand[p] # <<>> => p = Drain \/ p \in flushing
  /\ life = "running" => Stopper \notin flushing
  /\ life # "running" => hand[Drain] = <<>> /\ flushing \subseteq {Stopper}
  /\ life = "stopped" => queue = <<>> /\ flushing = {}

\* The items no place holds: none while the service runs, and after stop() at
\* most those of the cancelled batch.
Missing == Enqueued \ (InQueue \union InHand \union Settled \union lost)

MissingInv ==
  /\ life = "running" => Missing = {}
  /\ IsFiniteSet(Missing)
  /\ Cardinality(Missing) <= MaxBatch

\* What a dead process left on the wire died with it.
WireInv == wire \subseteq lost

BufferInv == TypeOK /\ PlacesInv /\ HolderInv /\ MissingInv /\ WireInv

-----------------------------------------------------------------------------
(* The inductive invariant of the chain.                                   *)

SignedAt(R, r) == R[r].seq > 0

\* Requests are signed as they are enqueued; links and the head of the chain
\* name signed receipts.
LinkInv ==
  /\ \A r \in Requests : SignedAt(receipt, r) <=> \E x \in Enqueued : x.req = r
  /\ \A r \in Requests : SignedAt(receipt, r) =>
       \/ receipt[r] = [seq |-> 1, prev |-> Genesis]
       \/ /\ receipt[r].prev \in Requests
          /\ SignedAt(receipt, receipt[r].prev)
          /\ receipt[receipt[r].prev].seq + 1 = receipt[r].seq
  /\ \/ chain = FreshChain
     \/ /\ chain.prev \in Requests
        /\ SignedAt(receipt, chain.prev)
        /\ receipt[chain.prev].seq = chain.seq

\* The requests whose receipt is stored, held by the drain task or queued.
Waiting(s) == Stored(Elems(s))
Pending == Waiting(hand[Drain]) \union Waiting(queue)
Kept == Stored(applied) \union Pending

\* The receipts R of the items of s are in the order they were signed.
InOrder(R, s) ==
  \A i, j \in 1 .. Len(s) :
    i < j /\ s[i].kind = "receipt" /\ s[j].kind = "receipt"
      => R[s[i].req].seq < R[s[j].req].seq

Below(R, A, B) == \A a \in A, b \in B : R[a].seq < R[b].seq
OneEach(R, S) == \A r1, r2 \in S : r1 # r2 => R[r1].seq # R[r2].seq

\* The receipts of S are linked to one another, down to the first.
LinkedIn(R, S) ==
  \A r \in S :
    \/ R[r] = [seq |-> 1, prev |-> Genesis]
    \/ R[r].prev \in S /\ R[R[r].prev].seq + 1 = R[r].seq

\* While the drain task alone persists, no write fails and no late receipt is
\* applied, the receipts that are stored, held and queued are one chain in this order, up to the chain's head.
OrderInv ==
  alone =>
  /\ life = "running"
  /\ flushing = {}
  /\ \A p \in Persisters : p # Drain => hand[p] = <<>>
  /\ failed = {} /\ ~disrupted =>
       /\ InOrder(receipt, hand[Drain])
       /\ InOrder(receipt, queue)
       /\ Below(receipt, Stored(applied), Pending)
       /\ Below(receipt, Waiting(hand[Drain]), Waiting(queue))
       /\ OneEach(receipt, Stored(applied))
       /\ LinkedIn(receipt, Kept)
       /\ \A r \in Kept : receipt[r].seq <= chain.seq
       /\ IF Kept = {} THEN chain = FreshChain ELSE chain.prev \in Kept

\* How many enqueued items left the buffer.
Done == Len(enqueued) - Len(hand[Drain]) - Len(queue)

\* The items of a request are enqueued together, its statistics second to last.
PairsInv ==
  enqueued # <<>> =>
    /\ Len(enqueued) >= 2
    /\ enqueued[Len(enqueued) - 1].kind = "stats"
    /\ enqueued[Len(enqueued)].kind # "stats"
    /\ enqueued[Len(enqueued) - 1].req = enqueued[Len(enqueued)].req

\* The stored statistics are those of the last ones among the first n items.
LastStats(e, n, doc) ==
  \A i \in 1 .. n :
    e[i].kind = "stats" /\ (\A j \in i + 1 .. n : e[j].kind # "stats") => doc = <<e[i].req>>

\* Until an item is lost, what is held and queued is the end of what was
\* enqueued, and the stored statistics are those of the last ones before it.
Aligned ==
  /\ Done >= 0
  /\ \A i \in 1 .. Len(hand[Drain]) : hand[Drain][i] = enqueued[Done + i]
  /\ \A i \in 1 .. Len(queue) : queue[i] = enqueued[Done + Len(hand[Drain]) + i]
  /\ LastStats(enqueued, Done, statsDoc)

StatsInv == PairsInv /\ (alone /\ failed = {} /\ lost = {} => Aligned)

ChainInv == AsyncTypeOK /\ LinkInv /\ OrderInv /\ StatsInv

-----------------------------------------------------------------------------
(* What the steps do to the sequences, position by position.               *)

LEMMA Constants ==
  /\ MaxBatch \in Nat /\ MaxBatch >= 2
  /\ Drain \in Persisters /\ Stopper \in Persisters /\ Drain # Stopper
  /\ Flushers \subseteq Persisters /\ Drain \notin Flushers /\ Stopper \notin Flushers
BY BufferAssumption DEF Drain, Stopper, Persisters

LEMMA SeqFacts ==
  ASSUME NEW S, NEW s \in Seq(S)
  PROVE  /\ Len(s) \in Nat /\ DOMAIN s = 1 .. Len(s)
         /\ \A i \in 1 .. Len(s) : s[i] \in S
         /\ s = <<>> <=> Len(s) = 0
BY EmptySeq, LenProperties, ElementOfSeq

\* Persisting the first item of a batch leaves the rest.
LEMMA HeadAndTail ==
  ASSUME NEW S, NEW s \in Seq(S), s # <<>>
  PROVE  /\ Len(s) \in Nat /\ Len(s) >= 1
         /\ Head(s) = s[1] /\ s[1] \in S
         /\ Tail(s) \in Seq(S) /\ Len(Tail(s)) = Len(s) - 1
         /\ \A i \in 1 .. Len(s) - 1 : Tail(s)[i] = s[i + 1]
BY SeqFacts, HeadTailProperties

\* Taking a batch splits the queue.
LEMMA SplitAt ==
  ASSUME NEW S, NEW s \in Seq(S), NEW n \in 1 .. Len(s)
  PROVE  /\ SubSeq(s, 1, n) \in Seq(S) /\ Len(SubSeq(s, 1, n)) = n
         /\ \A i \in 1 .. n : SubSeq(s, 1, n)[i] = s[i]
         /\ SubSeq(s, n + 1, Len(s)) \in Seq(S) /\ Len(SubSeq(s, n + 1, Len(s))) = Len(s) - n
         /\ \A i \in 1 .. Len(s) - n : SubSeq(s, n + 1, Len(s))[i] = s[n + i]
<1>1. Len(s) \in Nat /\ \A i \in 1 .. Len(s) : s[i] \in S
  BY SeqFacts
<1>2. /\ SubSeq(s, 1, n) \in Seq(S) /\ Len(SubSeq(s, 1, n)) = n
      /\ \A i \in 1 .. n : SubSeq(s, 1, n)[i] = s[i]
  BY <1>1, SubSeqProperties
<1>3. DEFINE t == SubSeq(s, n + 1, Len(s))
<1>4. /\ t \in Seq(S)
      /\ Len(t) = IF n + 1 <= Len(s) THEN Len(s) - (n + 1) + 1 ELSE 0
      /\ \A i \in 1 .. Len(s) - (n + 1) + 1 : t[i] = s[n + 1 + i - 1]
  BY <1>1, SubSeqProperties
<1>5. Len(t) = Len(s) - n
  BY <1>1, <1>4
<1>6. \A i \in 1 .. Len(s) - n : t[i] = s[n + i]
  BY <1>1, <1>4
<1>7. QED BY <1>2, <1>4, <1>5, <1>6

\* The three items of a request.
LEMMA EvidenceFacts ==
  ASSUME NEW r \in Requests
  PROVE  /\ Evidence(r) \in Seq(Items) /\ Len(Evidence(r)) = 3
         /\ \A i \in 1 .. 3 : Evidence(r)[i] \in Items /\ Evidence(r)[i].req = r
         /\ Evidence(r)[1] = [kind |-> "receipt", req |-> r]
         /\ Evidence(r)[2] = [kind |-> "stats", req |-> r]
         /\ Evidence(r)[3] = [kind |-> "rate_limits", req |-> r]
BY DEF Evidence, Items, Kinds

\* Enqueueing appends them.
LEMMA AppendEvidence ==
  ASSUME NEW s \in Seq(Items), NEW r \in Requests
  PROVE  /\ s \o Evidence(r) \in Seq(Items)
         /\ Len(s \o Evidence(r)) = Len(s) + 3
         /\ \A i \in 1 .. Len(s) : (s \o Evidence(r))[i] = s[i]
         /\ \A i \in 1 .. 3 : (s \o Evidence(r))[Len(s) + i] = Evidence(r)[i]
<1>1. Len(s) \in Nat
  BY SeqFacts
<1>2. PICK e \in Seq(Items) : e = Evidence(r) /\ Len(e) = 3
  BY EvidenceFacts
<1>3. /\ s \o e \in Seq(Items)
      /\ Len(s \o e) = Len(s) + Len(e)
      /\ \A i \in 1 .. Len(s) + Len(e) : (s \o e)[i] = IF i <= Len(s) THEN s[i] ELSE e[i - Len(s)]
  BY ConcatProperties
<1>4. \A i \in 1 .. Len(s) : (s \o e)[i] = s[i]
  BY <1>1, <1>2, <1>3
<1>5. \A i \in 1 .. 3 : (s \o e)[Len(s) + i] = e[i]
  BY <1>1, <1>2, <1>3
<1>6. QED BY <1>2, <1>3, <1>4, <1>5

LEMMA TakeFacts ==
  ASSUME TypeOK, NEW p \in Persisters, TakeBatch(p)
  PROVE  /\ queue # <<>> /\ hand[p] = <<>>
         /\ UNCHANGED <<life, flushing, enqueued, saved, failed, applied, statsDoc, alone, lost>>
         /\ \A q \in Persisters : q # p => hand'[q] = hand[q]
         /\ hand' \in [Persisters -> Seq(Items)] /\ queue' \in Seq(Items)
         /\ \E n \in 1 .. Len(queue) :
              /\ n <= MaxBatch
              /\ Len(hand'[p]) = n /\ Len(queue') = Len(queue) - n
              /\ \A i \in 1 .. n : hand'[p][i] = queue[i]
              /\ \A i \in 1 .. Len(queue) - n : queue'[i] = queue[n + i]
<1>1. queue \in Seq(Items) /\ queue # <<>> /\ Len(queue) \in Nat /\ Len(queue) >= 1
  BY SeqFacts DEF TypeOK, TakeBatch
<1>2. BatchSize \in 1 .. Len(queue) /\ BatchSize <= MaxBatch
  BY <1>1, Constants DEF BatchSize
<1>3. /\ hand' = [hand EXCEPT ![p] = SubSeq(queue, 1, BatchSize)]
      /\ queue' = SubSeq(queue, BatchSize + 1, Len(queue))
      /\ UNCHANGED <<life, flushing, enqueued, saved, failed, applied, statsDoc, alone, lost>>
      /\ hand[p] = <<>>
  BY DEF TakeBatch
<1>4. hand'[p] = SubSeq(queue, 1, BatchSize)
  BY <1>3 DEF TypeOK
<1>5. /\ SubSeq(queue, 1, BatchSize) \in Seq(Items)
      /\ queue' \in Seq(Items)
      /\ Len(hand'[p]) = BatchSize /\ Len(queue') = Len(queue) - BatchSize
      /\ \A i \in 1 .. BatchSize : hand'[p][i] = queue[i]
      /\ \A i \in 1 .. Len(queue) - BatchSize : queue'[i] = queue[BatchSize + i]
  BY <1>1, <1>2, <1>3, <1>4, SplitAt
<1>6. hand' \in [Persisters -> Seq(Items)] /\ \A q \in Persisters : q # p => hand'[q] = hand[q]
  BY <1>3, <1>5 DEF TypeOK
<1>7. QED BY <1>1, <1>2, <1>3, <1>5, <1>6

LEMMA PersistFacts ==
  ASSUME TypeOK, NEW p \in Persisters, Persist(p)
  PROVE  /\ hand[p] # <<>> /\ Head(hand[p]) = hand[p][1] /\ hand[p][1] \in Items
         /\ UNCHANGED <<life, queue, flushing, enqueued, alone, lost>>
         /\ \A q \in Persisters : q # p => hand'[q] = hand[q]
         /\ hand' \in [Persisters -> Seq(Items)]
         /\ Len(hand[p]) \in Nat /\ Len(hand[p]) >= 1
         /\ Len(hand'[p]) = Len(hand[p]) - 1
         /\ \A i \in 1 .. Len(hand[p]) - 1 : hand'[p][i] = hand[p][i + 1]
         /\ Settled' = Settled \union {hand[p][1]}
         /\ failed \subseteq failed'
         /\ failed' = {} => Apply(hand[p][1])
         /\ Apply(hand[p][1]) \/ UNCHANGED <<applied, statsDoc>>
         /\ saved' \union failed' \subseteq saved \union failed \union {hand[p][1]}
<1>1. hand[p] \in Seq(Items) /\ hand[p] # <<>>
  BY DEF TypeOK, Persist
<1>2. hand' = [hand EXCEPT ![p] = Tail(hand[p])]
  BY DEF Persist
<1>3. /\ Len(hand[p]) \in Nat /\ Len(hand[p]) >= 1
      /\ Head(hand[p]) = hand[p][1] /\ hand[p][1] \in Items
      /\ Tail(hand[p]) \in Seq(Items) /\ Len(Tail(hand[p])) = Len(hand[p]) - 1
      /\ \A i \in 1 .. Len(hand[p]) - 1 : Tail(hand[p])[i] = hand[p][i + 1]
  BY <1>1, HeadAndTail
<1>4. hand'[p] = Tail(hand[p]) /\ \A q \in Persisters : q # p => hand'[q] = hand[q]
  BY <1>2 DEF TypeOK
<1>5. hand' \in [Persisters -> Seq(Items)]
  BY <1>2, <1>3 DEF TypeOK
<1>6. /\ UNCHANGED <<life, queue, flushing, enqueued, alone, lost>>
      /\ Settled' = Settled \union {hand[p][1]}
      /\ failed \subseteq failed'
      /\ failed' = {} => Apply(hand[p][1])
      /\ Apply(hand[p][1]) \/ UNCHANGED <<applied, statsDoc>>
      /\ saved' \union failed' \subseteq saved \union failed \union {hand[p][1]}
  BY <1>3 DEF Persist, Settled
<1>7. QED BY <1>1, <1>3, <1>4, <1>5, <1>6

-----------------------------------------------------------------------------
(* The same steps on the sets of items.                                    *)

ItemsOf(r) == {x \in Items : x.req = r}

LEMMA ElemsOfDomain ==
  ASSUME NEW s \in Seq(Items)
  PROVE  {s[i] : i \in DOMAIN s} = Elems(s) /\ Elems(s) \subseteq Items
BY SeqFacts DEF Elems

LEMMA ElemsOfEmpty == Elems(<<>>) = {} /\ Distinct(<<>>)
<1>1. <<>> \in Seq(Items) /\ Len(<<>>) = 0
  BY EmptySeq
<1>2. 1 .. Len(<<>>) = {}
  BY <1>1
<1>3. QED BY <1>2 DEF Elems, Distinct

LEMMA ElemsOfEvidence ==
  ASSUME NEW r \in Requests
  PROVE  /\ \A i \in 1 .. 3 : Evidence(r)[i] \in ItemsOf(r)
         /\ \A x \in ItemsOf(r) : \E i \in 1 .. 3 : Evidence(r)[i] = x
         /\ \A i, j \in 1 .. 3 : i # j => Evidence(r)[i] # Evidence(r)[j]
<1>1. /\ Evidence(r)[1] = [kind |-> "receipt", req |-> r]
      /\ Evidence(r)[2] = [kind |-> "stats", req |-> r]
      /\ Evidence(r)[3] = [kind |-> "rate_limits", req |-> r]
  BY EvidenceFacts
<1>2. \A x \in ItemsOf(r) : x = [kind |-> "receipt", req |-> r]
                            \/ x = [kind |-> "stats", req |-> r]
                            \/ x = [kind |-> "rate_limits", req |-> r]
  BY DEF ItemsOf, Items, Kinds
<1>3. \A i \in 1 .. 3 : i = 1 \/ i = 2 \/ i = 3
  OBVIOUS
<1>4. \A i \in 1 .. 3 : Evidence(r)[i] \in ItemsOf(r)
  BY EvidenceFacts DEF ItemsOf
<1>5. \A x \in ItemsOf(r) : \E i \in 1 .. 3 : Evidence(r)[i] = x
  BY <1>1, <1>2
<1>6. /\ Evidence(r)[1].kind = "receipt" /\ Evidence(r)[2].kind = "stats"
      /\ Evidence(r)[3].kind = "rate_limits"
  BY <1>1
<1>7. \A i, j \in 1 .. 3 : i # j => Evidence(r)[i] # Evidence(r)[j]
  BY <1>3, <1>6
<1>8. QED BY <1>4, <1>5, <1>7

LEMMA ElemsOfAppend ==
  ASSUME NEW s \in Seq(Items), NEW r \in Requests
  PROVE  /\ Elems(s \o Evidence(r)) = Elems(s) \union ItemsOf(r)
         /\ Distinct(s) /\ Elems(s) \intersect ItemsOf(r) = {} => Distinct(s \o Evidence(r))
<1>1. PICK n \in Nat : n = Len(s)
  BY SeqFacts
<1>2. PICK t \in Seq(Items) :
        /\ t = s \o Evidence(r)
        /\ Len(t) = n + 3
        /\ \A i \in 1 .. n : t[i] = s[i]
        /\ \A i \in 1 .. 3 : t[n + i] = Evidence(r)[i]
  BY <1>1, AppendEvidence
<1>3. \A i \in 1 .. n : i \in 1 .. n + 3
  OBVIOUS
<1>4. \A j \in 1 .. 3 : n + j \in 1 .. n + 3
  OBVIOUS
<1>5. \A i \in 1 .. n + 3 : i \in 1 .. n \/ (\E j \in 1 .. 3 : i = n + j)
  <2>1. TAKE i \in 1 .. n + 3
  <2>2. i <= n \/ (i - n \in 1 .. 3 /\ i = n + (i - n))
    OBVIOUS
  <2>3. QED BY <2>2
<1>6. Elems(t) = Elems(s) \union ItemsOf(r)
  <2>1. ASSUME NEW x \in Elems(t)
        PROVE  x \in Elems(s) \union ItemsOf(r)
    <3>1. PICK i \in 1 .. n + 3 : x = t[i]
      BY <1>2 DEF Elems
    <3>2. CASE i \in 1 .. n
      BY <3>1, <3>2, <1>1, <1>2 DEF Elems
    <3>3. CASE \E j \in 1 .. 3 : i = n + j
      BY <3>1, <3>3, <1>2, ElemsOfEvidence, SMTT(60)
    <3>4. QED BY <3>2, <3>3, <1>5
  <2>2. ASSUME NEW x \in Elems(s)
        PROVE  x \in Elems(t)
    BY <2>2, <1>1, <1>2, <1>3 DEF Elems
  <2>3. ASSUME NEW x \in ItemsOf(r)
        PROVE  x \in Elems(t)
    <3>1. PICK j \in 1 .. 3 : x = Evidence(r)[j]
      BY <2>3, ElemsOfEvidence
    <3>2. t[n + j] = x
      BY <3>1, <1>2
    <3>3. QED BY <3>2, <1>2, <1>4 DEF Elems
  <2>4. QED BY <2>1, <2>2, <2>3
<1>7. ASSUME Distinct(s), Elems(s) \intersect ItemsOf(r) = {}
      PROVE  Distinct(t)
  <2>1. \A i, j \in 1 .. n : i # j => t[i] # t[j]
    BY <1>1, <1>2, <1>7 DEF Distinct
  <2>2. ASSUME NEW i \in 1 .. 3, NEW j \in 1 .. 3, i # j
        PROVE  t[n + i] # t[n + j]
    <3>1. t[n + i] = Evidence(r)[i] /\ t[n + j] = Evidence(r)[j]
      BY <1>2
    <3>2. QED BY <2>2, <3>1, ElemsOfEvidence
  <2>3. ASSUME NEW i \in 1 .. n, NEW j \in 1 .. 3
        PROVE  t[i] # t[n + j]
    <3>1. t[n + j] \in ItemsOf(r) /\ t[i] \in Elems(s)
      BY <1>1, <1>2, ElemsOfEvidence DEF Elems
    <3>2. QED BY <3>1, <1>7
  <2>4. ASSUME NEW i \in 1 .. n + 3, NEW j \in 1 .. n + 3, i # j
        PROVE  t[i] # t[j]
    <3>1. CASE i \in 1 .. n /\ j \in 1 .. n
      BY <3>1, <2>1, <2>4
    <3>2. CASE i \in 1 .. n /\ \E k \in 1 .. 3 : j = n + k
      BY <3>2, <2>3
    <3>3. CASE j \in 1 .. n /\ \E k \in 1 .. 3 : i = n + k
      <4>1. PICK k \in 1 .. 3 : i = n + k
        BY <3>3
      <4>2. QED BY <3>3, <4>1, <2>3
    <3>4. CASE (\E k \in 1 .. 3 : i = n + k) /\ (\E k \in 1 .. 3 : j = n + k)
      <4>1. PICK k \in 1 .. 3, l \in 1 .. 3 : i = n + k /\ j = n + l
        BY <3>4
      <4>2. k # l
        BY <4>1, <2>4
      <4>3. QED BY <4>1, <4>2, <2>2
    <3>5. QED BY <3>1, <3>2, <3>3, <3>4, <1>5
  <2>5. QED BY <1>2, <2>4 DEF Distinct
<1>8. QED BY <1>2, <1>6, <1>7

\* The queue s is split into a batch b of n items and the rest t.
Splits(s, b, t, n) ==
  /\ n \in 1 .. Len(s) /\ Len(b) = n /\ Len(t) = Len(s) - n
  /\ \A i \in 1 .. n : b[i] = s[i]
  /\ \A i \in 1 .. Len(s) - n : t[i] = s[n + i]

LEMMA ElemsOfSplit ==
  ASSUME NEW s \in Seq(Items), NEW b \in Seq(Items), NEW t \in Seq(Items),
         NEW n \in Nat, Splits(s, b, t, n)
  PROVE  /\ Elems(s) = Elems(b) \union Elems(t)
         /\ Distinct(s) => Distinct(b) /\ Distinct(t) /\ Elems(b) \intersect Elems(t) = {}
<1> USE DEF Splits
<1>1. PICK m \in Nat : m = Len(s)
  BY SeqFacts
<1>2. \A j \in 1 .. m - n : n + j \in 1 .. m /\ n + j \notin 1 .. n
  BY <1>1
<1>3. \A i \in 1 .. m : i \in 1 .. n \/ \E j \in 1 .. m - n : i = n + j
  <2>1. TAKE i \in 1 .. m
  <2>2. i <= n \/ (i - n \in 1 .. m - n /\ i = n + (i - n))
    BY <1>1
  <2>3. QED BY <2>2, <1>1
<1>4. \A i \in 1 .. n : i \in 1 .. m
  BY <1>1
<1>5. \A x \in Elems(s) : x \in Elems(b) \/ x \in Elems(t)
  <2>1. TAKE x \in Elems(s)
  <2>2. PICK i \in 1 .. m : x = s[i]
    BY <1>1 DEF Elems
  <2>3. CASE i \in 1 .. n
    BY <2>2, <2>3 DEF Elems
  <2>4. CASE \E j \in 1 .. m - n : i = n + j
    BY <2>2, <2>4, <1>1 DEF Elems
  <2>5. QED BY <2>3, <2>4, <1>3
<1>6. Elems(b) \subseteq Elems(s)
  BY <1>1, <1>4 DEF Elems
<1>7. Elems(t) \subseteq Elems(s)
  BY <1>1, <1>2 DEF Elems
<1>8. ASSUME Distinct(s)
      PROVE  Distinct(b) /\ Distinct(t) /\ Elems(b) \intersect Elems(t) = {}
  <2>1. Distinct(b)
    BY <1>1, <1>4, <1>8 DEF Distinct
  <2>2. \A i, j \in 1 .. m - n : i # j => n + i # n + j
    BY <1>1
  <2>3. Distinct(t)
    BY <1>1, <1>2, <2>2, <1>8 DEF Distinct
  <2>4. ASSUME NEW i \in 1 .. n, NEW j \in 1 .. m - n
        PROVE  b[i] # t[j]
    <3>1. i \in 1 .. m /\ n + j \in 1 .. m /\ i # n + j
      BY <1>2, <1>4
    <3>2. b[i] = s[i] /\ t[j] = s[n + j]
      BY <1>1
    <3>3. QED BY <1>1, <1>8, <3>1, <3>2 DEF Distinct
  <2>5. QED BY <2>1, <2>3, <2>4, <1>1 DEF Elems
<1>9. QED BY <1>5, <1>6, <1>7, <1>8

\* Persisting takes the first item off a batch s and leaves t.
Cuts(s, t) ==
  /\ Len(s) >= 1 /\ Len(t) = Len(s) - 1
  /\ \A i \in 1 .. Len(s) - 1 : t[i] = s[i + 1]

LEMMA ElemsOfTail ==
  ASSUME NEW s \in Seq(Items), NEW t \in Seq(Items), Cuts(s, t)
  PROVE  /\ Elems(s) = Elems(t) \union {s[1]}
         /\ Distinct(s) => Distinct(t) /\ s[1] \notin Elems(t)
<1> USE DEF Cuts
<1>1. PICK m \in Nat : m = Len(s) /\ m >= 1
  BY SeqFacts
<1>2. \A i \in 1 .. m - 1 : i + 1 \in 1 .. m /\ i + 1 # 1
  BY <1>1
<1>3. \A i \in 1 .. m : i = 1 \/ \E j \in 1 .. m - 1 : i = j + 1
  <2>1. TAKE i \in 1 .. m
  <2>2. i = 1 \/ (i - 1 \in 1 .. m - 1 /\ i = (i - 1) + 1)
    BY <1>1
  <2>3. QED BY <2>2
<1>4. 1 \in 1 .. m
  BY <1>1
<1>5. \A x \in Elems(s) : x = s[1] \/ x \in Elems(t)
  <2>1. TAKE x \in Elems(s)
  <2>2. PICK i \in 1 .. m : x = s[i]
    BY <1>1 DEF Elems
  <2>3. CASE \E j \in 1 .. m - 1 : i = j + 1
    BY <2>2, <2>3, <1>1 DEF Elems
  <2>4. QED BY <2>2, <2>3, <1>3
<1>6. Elems(t) \subseteq Elems(s) /\ s[1] \in Elems(s)
  BY <1>1, <1>2, <1>4 DEF Elems
<1>7. ASSUME Distinct(s)
      PROVE  Distinct(t) /\ s[1] \notin Elems(t)
  <2>1. \A i, j \in 1 .. m - 1 : i # j => i + 1 # j + 1
    BY <1>1
  <2>2. Distinct(t)
    BY <1>1, <1>2, <2>1, <1>7 DEF Distinct
  <2>3. s[1] \notin Elems(t)
    BY <1>1, <1>2, <1>4, <1>7 DEF Distinct, Elems
  <2>4. QED BY <2>2, <2>3
<1>8. QED BY <1>5, <1>6, <1>7

\* The places of the model as sets of items.
LEMMA Places ==
  ASSUME TypeOK
  PROVE  /\ InQueue = Elems(queue) /\ Enqueued = Elems(enqueued)
         /\ \A x : x \in InHand <=> \E p \in Persisters : x \in HeldBy(p)
         /\ InQueue \union InHand \union Enqueued \subseteq Items
<1>1. \A p \in Persisters : {hand[p][i] : i \in DOMAIN hand[p]} = HeldBy(p) /\ HeldBy(p) \subseteq Items
  BY ElemsOfDomain DEF TypeOK, HeldBy
<1>2. \A x : x \in InHand <=> \E p \in Persisters : x \in HeldBy(p)
  BY <1>1 DEF InHand
<1>3. /\ InQueue = Elems(queue) /\ Enqueued = Elems(enqueued)
      /\ Elems(queue) \subseteq Items /\ Elems(enqueued) \subseteq Items
  BY ElemsOfDomain DEF TypeOK, InQueue, Enqueued
<1>4. QED BY <1>1, <1>2, <1>3

LEMMA PlacesNext ==
  ASSUME TypeOK'
  PROVE  /\ InQueue' = Elems(queue') /\ Enqueued' = Elems(enqueued')
         /\ \A x : x \in InHand' <=> \E p \in Persisters : x \in HeldBy(p)'
         /\ InQueue' \union InHand' \union Enqueued' \subseteq Items
<1>1. \A p \in Persisters : {hand'[p][i] : i \in DOMAIN hand'[p]} = HeldBy(p)' /\ HeldBy(p)' \subseteq Items
  BY ElemsOfDomain DEF TypeOK, HeldBy
<1>2. \A x : x \in InHand' <=> \E p \in Persisters : x \in HeldBy(p)'
  BY <1>1 DEF InHand
<1>3. /\ InQueue' = Elems(queue') /\ Enqueued' = Elems(enqueued')
      /\ Elems(queue') \subseteq Items /\ Elems(enqueued') \subseteq Items
  BY ElemsOfDomain DEF TypeOK, InQueue, Enqueued
<1>4. QED BY <1>1, <1>2, <1>3

LEMMA EnqueueSets ==
  ASSUME TypeOK, TypeOK', PlacesInv, NEW r \in Requests, Enqueue(r)
  PROVE  /\ InQueue' = InQueue \union ItemsOf(r)
         /\ Enqueued' = Enqueued \union ItemsOf(r)
         /\ Enqueued \intersect ItemsOf(r) = {}
         /\ InHand' = InHand
         /\ Distinct(queue')
         /\ UNCHANGED <<hand, saved, failed, applied, lost, life, flushing>>
<1>1. /\ queue' = queue \o Evidence(r) /\ enqueued' = enqueued \o Evidence(r)
      /\ UNCHANGED <<hand, saved, failed, applied, lost, life, flushing>>
  BY DEF Enqueue
<1>2. queue \in Seq(Items) /\ enqueued \in Seq(Items)
  BY DEF TypeOK
<1>3. InQueue' = InQueue \union ItemsOf(r) /\ Enqueued' = Enqueued \union ItemsOf(r)
  BY <1>1, <1>2, ElemsOfAppend, Places, PlacesNext
<1>4. Enqueued \intersect ItemsOf(r) = {}
  BY DEF Enqueue, Enqueued, ItemsOf
<1>5. Elems(queue) \intersect ItemsOf(r) = {}
  BY <1>4, Places DEF PlacesInv
<1>6. Distinct(queue')
  BY <1>1, <1>2, <1>5, ElemsOfAppend DEF PlacesInv
<1>7. InHand' = InHand
  BY <1>1 DEF InHand
<1>8. QED BY <1>1, <1>3, <1>4, <1>6, <1>7

LEMMA TakeSets ==
  ASSUME TypeOK, TypeOK', PlacesInv, NEW p \in Persisters, TakeBatch(p)
  PROVE  /\ HeldBy(p) = {}
         /\ InQueue = InQueue' \union HeldBy(p)'
         /\ InQueue' \intersect HeldBy(p)' = {}
         /\ \A q \in Persisters : q # p => HeldBy(q)' = HeldBy(q)
         /\ Distinct(queue') /\ \A q \in Persisters : Distinct(hand'[q])
         /\ Len(hand'[p]) <= MaxBatch
         /\ UNCHANGED <<Enqueued, saved, failed, applied, lost, life, flushing>>
<1>1. PICK n \in 1 .. Len(queue) :
        /\ n <= MaxBatch
        /\ Len(hand'[p]) = n /\ Len(queue') = Len(queue) - n
        /\ \A i \in 1 .. n : hand'[p][i] = queue[i]
        /\ \A i \in 1 .. Len(queue) - n : queue'[i] = queue[n + i]
  BY TakeFacts
<1>2. /\ hand[p] = <<>>
      /\ UNCHANGED <<enqueued, saved, failed, applied, lost, life, flushing>>
      /\ \A q \in Persisters : q # p => hand'[q] = hand[q]
  BY TakeFacts
<1>3. HeldBy(p) = {}
  BY <1>2, ElemsOfEmpty DEF HeldBy
<1>4. /\ queue \in Seq(Items) /\ hand'[p] \in Seq(Items) /\ queue' \in Seq(Items)
      /\ n \in Nat /\ Splits(queue, hand'[p], queue', n)
  BY <1>1 DEF TypeOK, Splits
<1>5. /\ Elems(queue) = Elems(hand'[p]) \union Elems(queue')
      /\ Distinct(queue) => /\ Distinct(hand'[p]) /\ Distinct(queue')
                            /\ Elems(hand'[p]) \intersect Elems(queue') = {}
  BY <1>4, ElemsOfSplit
<1>6. \A q \in Persisters : q # p => HeldBy(q)' = HeldBy(q) /\ Distinct(hand'[q])
  BY <1>2 DEF HeldBy, PlacesInv
<1>7. QED BY <1>1, <1>2, <1>3, <1>5, <1>6, Places, PlacesNext DEF Enqueued, HeldBy, PlacesInv

LEMMA PersistSets ==
  ASSUME TypeOK, TypeOK', PlacesInv, NEW p \in Persisters, Persist(p)
  PROVE  /\ hand[p][1] \in HeldBy(p) /\ hand[p][1] \notin HeldBy(p)'
         /\ HeldBy(p) = HeldBy(p)' \union {hand[p][1]}
         /\ \A q \in Persisters : q # p => HeldBy(q)' = HeldBy(q)
         /\ \A q \in Persisters : Distinct(hand'[q]) /\ Len(hand'[q]) <= Len(hand[q])
         /\ applied' \subseteq applied \union {hand[p][1]}
         /\ Settled' = Settled \union {hand[p][1]}
         /\ UNCHANGED <<Enqueued, InQueue, queue, lost, life, flushing>>
<1>1. /\ Len(hand[p]) \in Nat /\ Len(hand[p]) >= 1
      /\ Len(hand'[p]) = Len(hand[p]) - 1
      /\ \A i \in 1 .. Len(hand[p]) - 1 : hand'[p][i] = hand[p][i + 1]
      /\ \A q \in Persisters : q # p => hand'[q] = hand[q]
      /\ UNCHANGED <<life, queue, flushing, enqueued, lost>>
      /\ Apply(hand[p][1]) \/ UNCHANGED <<applied, statsDoc>>
      /\ Settled' = Settled \union {hand[p][1]}
  BY PersistFacts
<1>2. hand[p] \in Seq(Items) /\ hand'[p] \in Seq(Items)
  BY DEF TypeOK
<1>3. /\ Elems(hand[p]) = Elems(hand'[p]) \union {hand[p][1]}
      /\ Distinct(hand[p]) => Distinct(hand'[p]) /\ hand[p][1] \notin Elems(hand'[p])
  BY <1>1, <1>2, ElemsOfTail DEF Cuts
<1>4. \A q \in Persisters : q # p => Distinct(hand'[q]) /\ HeldBy(q)' = HeldBy(q)
  BY <1>1 DEF PlacesInv, HeldBy
<1>5. \A q \in Persisters : Len(hand[q]) \in Nat
  BY SeqFacts DEF TypeOK
<1>6. \A q \in Persisters : Len(hand'[q]) <= Len(hand[q])
  BY <1>1, <1>5
<1>7. applied' \subseteq applied \union {hand[p][1]}
  BY <1>1 DEF Apply
<1>8. QED BY <1>1, <1>3, <1>4, <1>6, <1>7 DEF Enqueued, InQueue, HeldBy, PlacesInv

-----------------------------------------------------------------------------
(* The buffer's invariant holds initially and every step keeps it.         *)

\* A step by the coroutine that takes a batch.
TakeStep(p) == (DrainTake /\ p = Drain) \/ FlushTake(p)

LEMMA StepCases ==
  ASSUME [AsyncNext]_vars
  PROVE  \/ \E r \in Requests : Authorize(r)
         \/ \E f \in Flushers : FlushCall(f) /\ UNCHANGED chainVars
         \/ \E p \in Persisters :
              (TakeStep(p) \/ Persist(p) \/ FlushReturn(p)) /\ UNCHANGED chainVars
         \/ Stop /\ UNCHANGED chainVars
         \/ Restart
         \/ LandLate
         \/ UNCHANGED vars
BY Constants DEF AsyncNext, PersistNext, TakeStep

LEMMA InitType == AsyncInit => AsyncTypeOK
<1>1. <<>> \in Seq(Items) /\ <<>> \in Seq(Requests)
  BY EmptySeq
<1>2. ASSUME AsyncInit PROVE TypeOK
  BY <1>1, <1>2 DEF AsyncInit, Init, TypeOK
<1>3. ASSUME AsyncInit
      PROVE  /\ chain \in ChainHead /\ receipt \in [Requests -> ChainHead]
             /\ wire \in SUBSET Items
  BY <1>3 DEF AsyncInit, FreshChain, ChainHead
<1>4. ASSUME AsyncInit PROVE disrupted \in BOOLEAN
  BY <1>4 DEF AsyncInit
<1>5. QED BY <1>2, <1>3, <1>4 DEF AsyncTypeOK

LEMMA ApplyTypes ==
  ASSUME NEW x \in Items, Apply(x), applied \in SUBSET Items, statsDoc \in Seq(Requests)
  PROVE  applied' \in SUBSET Items /\ statsDoc' \in Seq(Requests)
<1>1. x.req \in Requests
  BY DEF Items
<1>2. <<x.req>> \in Seq(Requests)
  BY <1>1
<1>3. QED BY <1>2 DEF Apply

LEMMA ResumedTypes ==
  ASSUME AsyncTypeOK, NEW S \in SUBSET Requests, NEW c \in ResumedHeads(S)
  PROVE  c \in ChainHead
BY DEF AsyncTypeOK, ResumedHeads, FreshChain, ChainHead, LastStored

LEMMA FirstHeld ==
  ASSUME TypeOK, NEW x \in InFlightItems
  PROVE  \E p \in Persisters : hand[p] # <<>> /\ x = hand[p][1] /\ x \in Items /\ x \in HeldBy(p)
<1>1. PICK p \in Persisters : hand[p] # <<>> /\ x = Head(hand[p])
  BY DEF InFlightItems
<1>2. hand[p] \in Seq(Items)
  BY DEF TypeOK
<1>3. Len(hand[p]) \in Nat /\ Len(hand[p]) >= 1 /\ x = hand[p][1] /\ x \in Items
  BY <1>1, <1>2, HeadAndTail
<1>4. x \in HeldBy(p)
  BY <1>3 DEF HeldBy, Elems
<1>5. QED BY <1>1, <1>3, <1>4

LEMMA TypeStep ==
  ASSUME AsyncTypeOK, [AsyncNext]_vars
  PROVE  AsyncTypeOK'
<1> USE DEF AsyncTypeOK
<1>1. ASSUME NEW r \in Requests, Authorize(r)
      PROVE  AsyncTypeOK'
  <2>1. queue' \in Seq(Items) /\ enqueued' \in Seq(Items)
    BY <1>1, AppendEvidence DEF Authorize, Enqueue, TypeOK
  <2>2. TypeOK'
    BY <1>1, <2>1 DEF Authorize, Enqueue, TypeOK
  <2>3. QED BY <1>1, <2>2 DEF Authorize, ChainHead
<1>2. ASSUME NEW f \in Flushers, FlushCall(f), UNCHANGED chainVars
      PROVE  AsyncTypeOK'
  BY <1>2 DEF FlushCall, TypeOK, chainVars
<1>3. ASSUME NEW p \in Persisters, TakeStep(p), UNCHANGED chainVars
      PROVE  AsyncTypeOK'
  <2>1. TakeBatch(p)
    BY <1>3 DEF TakeStep, DrainTake, FlushTake
  <2>2. QED BY <1>3, <2>1, TakeFacts DEF TypeOK, chainVars
<1>4. ASSUME NEW p \in Persisters, Persist(p), UNCHANGED chainVars
      PROVE  AsyncTypeOK'
  <2>1. /\ hand[p][1] \in Items /\ hand' \in [Persisters -> Seq(Items)]
        /\ UNCHANGED <<life, queue, flushing, enqueued, alone, lost>>
        /\ Apply(hand[p][1]) \/ UNCHANGED <<applied, statsDoc>>
        /\ saved' \union failed' \subseteq saved \union failed \union {hand[p][1]}
    BY <1>4, PersistFacts
  <2>2. applied' \in SUBSET Items /\ statsDoc' \in Seq(Requests)
    BY <2>1, ApplyTypes DEF TypeOK
  <2>3. QED BY <1>4, <2>1, <2>2 DEF TypeOK, chainVars
<1>5. ASSUME NEW p \in Persisters, FlushReturn(p), UNCHANGED chainVars
      PROVE  AsyncTypeOK'
  BY <1>5 DEF FlushReturn, TypeOK, chainVars
<1>6. ASSUME Stop, UNCHANGED chainVars
      PROVE  AsyncTypeOK'
  <2>1. hand' \in [Persisters -> Seq(Items)]
    BY <1>6, EmptySeq DEF Stop, TypeOK
  <2>2. applied' \in SUBSET Items /\ statsDoc' \in Seq(Requests)
    <3>1. CASE hand[Drain] # <<>> /\ Apply(Head(hand[Drain]))
      <4>1. Head(hand[Drain]) \in Items
        BY <3>1, HeadAndTail, Constants DEF TypeOK
      <4>2. QED BY <3>1, <4>1, ApplyTypes DEF TypeOK
    <3>2. CASE UNCHANGED <<applied, statsDoc>>
      BY <3>2 DEF TypeOK
    <3>3. QED BY <1>6, <3>1, <3>2 DEF Stop
  <2>3. QED BY <1>6, <2>1, <2>2 DEF Stop, TypeOK, chainVars
<1>7. ASSUME Restart
      PROVE  AsyncTypeOK'
  <2>1. PICK late \in SUBSET InFlightItems :
          /\ applied' = applied \union late
          /\ statsDoc' \in {statsDoc} \union {<<item.req>> : item \in {x \in late : x.kind = "stats"}}
          /\ wire' = wire \union (InFlightItems \ late)
          /\ chain' \in ResumedHeads(Stored(applied \union late)) \union {FreshChain}
          /\ disrupted' \in {disrupted, TRUE}
    BY <1>7 DEF Restart
  <2>2. late \subseteq Items /\ InFlightItems \subseteq Items
    BY FirstHeld
  <2>3. \A x \in late : <<x.req>> \in Seq(Requests)
    <3>1. \A x \in late : x.req \in Requests
      BY <2>2 DEF Items
    <3>2. QED BY <3>1
  <2>4. statsDoc' \in Seq(Requests)
    BY <2>1, <2>3 DEF TypeOK
  <2>5. chain' \in ChainHead
    <3>1. Stored(applied \union late) \in SUBSET Requests
      BY DEF Stored
    <3>2. FreshChain \in ChainHead
      BY DEF FreshChain, ChainHead
    <3>3. QED BY <2>1, <3>1, <3>2, ResumedTypes
  <2>6. <<>> \in Seq(Items)
    BY EmptySeq
  <2>7. lost' \in SUBSET Items
    BY <1>7, Places DEF Restart
  <2>8. QED BY <1>7, <2>1, <2>2, <2>4, <2>5, <2>6, <2>7 DEF Restart, TypeOK
<1>8. ASSUME LandLate
      PROVE  AsyncTypeOK'
  <2>1. PICK item \in wire : Apply(item) /\ wire' = wire \ {item}
    BY <1>8 DEF LandLate
  <2>2. applied' \in SUBSET Items /\ statsDoc' \in Seq(Requests)
    BY <2>1, ApplyTypes DEF TypeOK
  <2>3. disrupted' \in BOOLEAN
    BY <1>8 DEF LandLate
  <2>4. UNCHANGED <<life, queue, hand, flushing, enqueued, saved, failed, alone, lost, chain, receipt>>
    BY <1>8 DEF LandLate
  <2>5. QED BY <2>1, <2>2, <2>3, <2>4 DEF TypeOK
<1>9. ASSUME UNCHANGED vars
      PROVE  AsyncTypeOK'
  BY <1>9 DEF vars, bufferVars, TypeOK
<1>10. QED BY <1>1, <1>2, <1>3, <1>4, <1>5, <1>6, <1>7, <1>8, <1>9, StepCases

LEMMA WireStep ==
  ASSUME AsyncTypeOK, PlacesInv, WireInv, [AsyncNext]_vars
  PROVE  WireInv'
<1>1. CASE UNCHANGED <<wire, lost>>
  BY <1>1 DEF WireInv
<1>2. CASE Restart
  <2>1. wire' \subseteq wire \union InFlightItems /\ lost' = Enqueued \ Settled
    BY <1>2 DEF Restart
  <2>2. \A x \in InFlightItems : \E p \in Persisters : x \in HeldBy(p)
    BY FirstHeld DEF AsyncTypeOK
  <2>3. InFlightItems \subseteq Enqueued \ Settled
    BY <2>2 DEF PlacesInv
  <2>4. lost \subseteq Enqueued \ Settled
    BY DEF PlacesInv
  <2>5. QED BY <2>1, <2>3, <2>4 DEF WireInv
<1>3. CASE LandLate
  BY <1>3 DEF LandLate, WireInv
<1>4. CASE \E r \in Requests : Authorize(r)
  BY <1>1, <1>4 DEF Authorize, Enqueue
<1>5. ASSUME NEW p \in Persisters, TakeStep(p) \/ Persist(p) \/ FlushReturn(p), UNCHANGED chainVars
      PROVE  WireInv'
  BY <1>1, <1>5 DEF TakeStep, DrainTake, FlushTake, TakeBatch, Persist, FlushReturn, chainVars
<1>6. CASE \E f \in Flushers : FlushCall(f) /\ UNCHANGED chainVars
  BY <1>1, <1>6 DEF FlushCall, chainVars
<1>7. CASE Stop /\ UNCHANGED chainVars
  BY <1>1, <1>7 DEF Stop, chainVars
<1>8. CASE UNCHANGED vars
  BY <1>1, <1>8 DEF vars, bufferVars
<1>9. QED BY <1>2, <1>3, <1>4, <1>5, <1>6, <1>7, <1>8, StepCases

LEMMA PlacesKept ==
  ASSUME PlacesInv, UNCHANGED <<queue, hand, enqueued, saved, failed, lost>>, applied' \subseteq Enqueued
  PROVE  PlacesInv'
<1>1. UNCHANGED <<InQueue, Enqueued, Settled>>
  BY DEF InQueue, Enqueued, Settled
<1>2. \A q \in Persisters : HeldBy(q)' = HeldBy(q) /\ hand'[q] = hand[q]
  BY DEF HeldBy
<1>3. QED BY <1>1, <1>2 DEF PlacesInv

LEMMA PlacesStep ==
  ASSUME TypeOK, TypeOK', PlacesInv, WireInv, [AsyncNext]_vars
  PROVE  PlacesInv'
<1>1. ASSUME NEW r \in Requests, Authorize(r)
      PROVE  PlacesInv'
  <2>1. /\ InQueue' = InQueue \union ItemsOf(r)
        /\ Enqueued' = Enqueued \union ItemsOf(r)
        /\ Enqueued \intersect ItemsOf(r) = {}
        /\ Distinct(queue')
        /\ UNCHANGED <<hand, saved, failed, applied, lost>>
    BY <1>1, EnqueueSets DEF Authorize
  <2>2. Settled' = Settled /\ \A p \in Persisters : HeldBy(p)' = HeldBy(p)
    BY <2>1 DEF Settled, HeldBy
  <2>3. QED BY <2>1, <2>2 DEF PlacesInv
<1>2. ASSUME NEW f \in Flushers, FlushCall(f)
      PROVE  PlacesInv'
  BY <1>2, PlacesKept DEF FlushCall, PlacesInv
<1>3. ASSUME NEW p \in Persisters, TakeStep(p)
      PROVE  PlacesInv'
  <2>1. TakeBatch(p)
    BY <1>3 DEF TakeStep, DrainTake, FlushTake
  <2>2. /\ InQueue = InQueue' \union HeldBy(p)'
        /\ InQueue' \intersect HeldBy(p)' = {}
        /\ \A q \in Persisters : q # p => HeldBy(q)' = HeldBy(q)
        /\ Distinct(queue') /\ \A q \in Persisters : Distinct(hand'[q])
        /\ UNCHANGED <<Enqueued, saved, failed, applied, lost>>
    BY <2>1, TakeSets
  <2>3. Settled' = Settled
    BY <2>2 DEF Settled
  <2>4. ASSUME NEW q \in Persisters
        PROVE  /\ HeldBy(q)' \intersect (InQueue' \union Settled' \union lost') = {}
               /\ HeldBy(q)' \subseteq Enqueued'
    BY <2>2, <2>3, <2>4 DEF PlacesInv
  <2>5. ASSUME NEW q \in Persisters, NEW s \in Persisters, q # s
        PROVE  HeldBy(q)' \intersect HeldBy(s)' = {}
    BY <2>2, <2>5 DEF PlacesInv
  <2>6. QED BY <2>2, <2>3, <2>4, <2>5 DEF PlacesInv
<1>4. ASSUME NEW p \in Persisters, Persist(p)
      PROVE  PlacesInv'
  <2>1. PICK h : h = hand[p][1]
    OBVIOUS
  <2>2. /\ h \in HeldBy(p) /\ h \notin HeldBy(p)'
        /\ HeldBy(p) = HeldBy(p)' \union {h}
        /\ \A q \in Persisters : q # p => HeldBy(q)' = HeldBy(q)
        /\ \A q \in Persisters : Distinct(hand'[q])
        /\ applied' \subseteq applied \union {h}
        /\ Settled' = Settled \union {h}
        /\ UNCHANGED <<Enqueued, InQueue, queue, lost>>
    BY <1>4, <2>1, PersistSets
  <2>3. ASSUME NEW q \in Persisters
        PROVE  /\ HeldBy(q)' \intersect (InQueue' \union Settled' \union lost') = {}
               /\ HeldBy(q)' \subseteq Enqueued'
    BY <2>2, <2>3 DEF PlacesInv
  <2>4. ASSUME NEW q \in Persisters, NEW s \in Persisters, q # s
        PROVE  HeldBy(q)' \intersect HeldBy(s)' = {}
    BY <2>2, <2>4 DEF PlacesInv
  <2>5. QED BY <2>2, <2>3, <2>4 DEF PlacesInv
<1>5. ASSUME NEW p \in Persisters, FlushReturn(p)
      PROVE  PlacesInv'
  BY <1>5, PlacesKept DEF FlushReturn, PlacesInv
<1>6. ASSUME Stop
      PROVE  PlacesInv'
  <2>1. /\ UNCHANGED <<queue, enqueued, saved, failed, lost>>
        /\ hand' = [hand EXCEPT ![Drain] = <<>>]
    BY <1>6 DEF Stop
  <2>2. UNCHANGED <<InQueue, Enqueued, Settled>>
    BY <2>1 DEF InQueue, Enqueued, Settled
  <2>3. \A q \in Persisters : q # Drain => hand'[q] = hand[q]
    BY <2>1 DEF TypeOK
  <2>4. hand'[Drain] = <<>>
    BY <2>1, Constants DEF TypeOK
  <2>5. HeldBy(Drain)' = {} /\ Distinct(hand'[Drain])
    BY <2>4, ElemsOfEmpty DEF HeldBy
  <2>6. \A q \in Persisters : q # Drain => HeldBy(q)' = HeldBy(q) /\ Distinct(hand'[q])
    BY <2>3 DEF HeldBy, PlacesInv
  <2>7. applied' \subseteq Enqueued
    <3>1. CASE hand[Drain] # <<>> /\ Apply(Head(hand[Drain]))
      <4>1. Head(hand[Drain]) \in InFlightItems
        BY <3>1, Constants DEF InFlightItems
      <4>2. Head(hand[Drain]) \in Enqueued
        BY <4>1, FirstHeld DEF PlacesInv
      <4>3. QED BY <3>1, <4>2 DEF Apply, PlacesInv
    <3>2. CASE UNCHANGED <<applied, statsDoc>>
      BY <3>2 DEF PlacesInv
    <3>3. QED BY <1>6, <3>1, <3>2 DEF Stop
  <2>8. QED BY <2>1, <2>2, <2>5, <2>6, <2>7 DEF PlacesInv
<1>7. ASSUME Restart
      PROVE  PlacesInv'
  <2>1. PICK late \in SUBSET InFlightItems : applied' = applied \union late
    BY <1>7 DEF Restart
  <2>2. /\ lost' = Enqueued \ Settled
        /\ queue' = <<>>
        /\ hand' = [p \in Persisters |-> <<>>]
        /\ UNCHANGED <<enqueued, saved, failed>>
    BY <1>7 DEF Restart
  <2>3. late \subseteq Enqueued
    BY FirstHeld DEF PlacesInv
  <2>4. UNCHANGED <<Enqueued, Settled>>
    BY <2>2 DEF Enqueued, Settled
  <2>5. InQueue' = {} /\ \A p \in Persisters : HeldBy(p)' = {}
    BY <2>2, ElemsOfEmpty, PlacesNext DEF HeldBy
  <2>6. Distinct(queue') /\ \A p \in Persisters : Distinct(hand'[p])
    BY <2>2, ElemsOfEmpty
  <2>7. QED BY <2>1, <2>2, <2>3, <2>4, <2>5, <2>6 DEF PlacesInv
<1>8. ASSUME LandLate
      PROVE  PlacesInv'
  <2>1. PICK item \in wire : Apply(item)
    BY <1>8 DEF LandLate
  <2>2. applied' \subseteq Enqueued
    BY <2>1 DEF Apply, PlacesInv, WireInv
  <2>3. QED BY <1>8, <2>2, PlacesKept DEF LandLate
<1>9. ASSUME UNCHANGED vars
      PROVE  PlacesInv'
  BY <1>9, PlacesKept DEF vars, bufferVars, PlacesInv
<1>10. QED BY <1>1, <1>2, <1>3, <1>4, <1>5, <1>6, <1>7, <1>8, <1>9, StepCases

LEMMA HolderStep ==
  ASSUME TypeOK, TypeOK', PlacesInv, HolderInv, [AsyncNext]_vars
  PROVE  HolderInv'
<1>1. ASSUME NEW r \in Requests, Authorize(r)
      PROVE  HolderInv'
  BY <1>1 DEF Authorize, Enqueue, HolderInv
<1>2. ASSUME NEW f \in Flushers, FlushCall(f)
      PROVE  HolderInv'
  BY <1>2, Constants DEF FlushCall, HolderInv
<1>3. ASSUME NEW p \in Persisters, TakeStep(p)
      PROVE  HolderInv'
  <2>1. TakeBatch(p)
    BY <1>3 DEF TakeStep, DrainTake, FlushTake
  <2>2. /\ queue # <<>>
        /\ UNCHANGED <<life, flushing>>
        /\ \A q \in Persisters : q # p => hand'[q] = hand[q]
        /\ Len(hand'[p]) <= MaxBatch
    BY <2>1, TakeFacts, TakeSets
  <2>3. life # "stopped"
    BY <2>2 DEF HolderInv
  <2>4. \/ p = Drain /\ life = "running"
        \/ p # Drain /\ p \in flushing
    BY <1>3, Constants DEF TakeStep, DrainTake, FlushTake, TypeOK
  <2>5. QED BY <2>2, <2>3, <2>4, Constants DEF HolderInv
<1>4. ASSUME NEW p \in Persisters, Persist(p)
      PROVE  HolderInv'
  <2>1. /\ UNCHANGED <<life, flushing, queue>>
        /\ hand[p] # <<>>
        /\ \A q \in Persisters : q # p => hand'[q] = hand[q]
    BY <1>4, PersistFacts
  <2>2. \A q \in Persisters : Len(hand'[q]) <= Len(hand[q])
    BY <1>4, PersistSets
  <2>3. \A q \in Persisters : Len(hand[q]) \in Nat /\ Len(hand'[q]) \in Nat
    BY SeqFacts DEF TypeOK
  <2>4. \A q \in Persisters : Len(hand'[q]) <= MaxBatch
    BY <2>2, <2>3, Constants DEF HolderInv
  <2>5. QED BY <2>1, <2>4, Constants DEF HolderInv
<1>5. ASSUME NEW p \in Persisters, FlushReturn(p)
      PROVE  HolderInv'
  BY <1>5, Constants DEF FlushReturn, HolderInv, TypeOK
<1>6. ASSUME Stop
      PROVE  HolderInv'
  <2>1. hand' = [hand EXCEPT ![Drain] = <<>>] /\ flushing = {}
    BY <1>6 DEF Stop
  <2>2. \A q \in Persisters : q # Drain => hand'[q] = hand[q] /\ hand[q] = <<>>
    BY <2>1 DEF TypeOK, HolderInv
  <2>3. hand'[Drain] = <<>>
    BY <2>1, Constants DEF TypeOK
  <2>4. Len(<<>>) <= MaxBatch
    BY EmptySeq, Constants
  <2>5. QED BY <1>6, <2>2, <2>3, <2>4 DEF HolderInv, Stop
<1>7. ASSUME Restart
      PROVE  HolderInv'
  <2>1. hand' = [p \in Persisters |-> <<>>] /\ life' = "running" /\ flushing' = {}
    BY <1>7 DEF Restart
  <2>2. Len(<<>>) <= MaxBatch
    BY EmptySeq, Constants
  <2>3. QED BY <2>1, <2>2 DEF HolderInv
<1>8. ASSUME LandLate \/ UNCHANGED vars
      PROVE  HolderInv'
  BY <1>8 DEF LandLate, vars, bufferVars, HolderInv
<1>9. QED BY <1>1, <1>2, <1>3, <1>4, <1>5, <1>6, <1>7, <1>8, StepCases

\* A sequence has at most as many items as positions.
LEMMA FewElems ==
  ASSUME NEW s \in Seq(Items)
  PROVE  IsFiniteSet(Elems(s)) /\ Cardinality(Elems(s)) <= Len(s)
<1>1. Len(s) \in Nat
  BY SeqFacts
<1>2. IsFiniteSet(1 .. Len(s)) /\ Cardinality(1 .. Len(s)) = Len(s)
  BY <1>1, FS_Interval
<1>3. DEFINE f == [i \in 1 .. Len(s) |-> s[i]]
<1>4. f \in [1 .. Len(s) -> Elems(s)] /\ \A x \in Elems(s) : \E i \in 1 .. Len(s) : f[i] = x
  BY DEF Elems
<1>5. f \in Surjection(1 .. Len(s), Elems(s))
  BY <1>4 DEF Surjection
<1>6. QED BY <1>2, <1>5, FS_Surjection

\* What is missing after a step was missing before, unless the step is stop().
LEMMA MissingStep ==
  ASSUME TypeOK, TypeOK', PlacesInv, HolderInv, MissingInv, [AsyncNext]_vars
  PROVE  MissingInv'
<1>1. ASSUME Missing' \subseteq Missing, life' = "running" => life = "running" \/ Missing' = {}
      PROVE  MissingInv'
  <2>1. IsFiniteSet(Missing') /\ Cardinality(Missing') <= Cardinality(Missing)
    BY <1>1, FS_Subset DEF MissingInv
  <2>2. Cardinality(Missing') \in Nat /\ Cardinality(Missing) \in Nat
    BY <2>1, FS_CardinalityType DEF MissingInv
  <2>3. Cardinality(Missing') <= MaxBatch
    BY <2>1, <2>2, Constants DEF MissingInv
  <2>4. QED BY <1>1, <2>1, <2>3 DEF MissingInv
<1>2. ASSUME NEW r \in Requests, Authorize(r)
      PROVE  MissingInv'
  <2>1. /\ InQueue' = InQueue \union ItemsOf(r)
        /\ Enqueued' = Enqueued \union ItemsOf(r)
        /\ InHand' = InHand
        /\ UNCHANGED <<saved, failed, lost, life>>
    BY <1>2, EnqueueSets DEF Authorize
  <2>2. Missing' \subseteq Missing /\ life' = life
    BY <2>1 DEF Missing, Settled
  <2>3. QED BY <2>2, <1>1
<1>3. ASSUME NEW f \in Flushers, FlushCall(f)
      PROVE  MissingInv'
  BY <1>3 DEF FlushCall, MissingInv, Missing, InQueue, InHand, Enqueued, Settled
<1>4. ASSUME NEW p \in Persisters, TakeStep(p)
      PROVE  MissingInv'
  <2>1. TakeBatch(p)
    BY <1>4 DEF TakeStep, DrainTake, FlushTake
  <2>2. /\ HeldBy(p) = {} /\ InQueue = InQueue' \union HeldBy(p)'
        /\ \A q \in Persisters : q # p => HeldBy(q)' = HeldBy(q)
        /\ UNCHANGED <<Enqueued, saved, failed, lost, life>>
    BY <2>1, TakeSets
  <2>3. Missing' \subseteq Missing
    BY <2>2, Places, PlacesNext DEF Missing, Settled
  <2>4. QED BY <2>2, <2>3, <1>1
<1>5. ASSUME NEW p \in Persisters, Persist(p)
      PROVE  MissingInv'
  <2>1. /\ HeldBy(p) = HeldBy(p)' \union {hand[p][1]}
        /\ \A q \in Persisters : q # p => HeldBy(q)' = HeldBy(q)
        /\ Settled' = Settled \union {hand[p][1]}
        /\ UNCHANGED <<Enqueued, InQueue, lost, life>>
    BY <1>5, PersistSets
  <2>2. Missing' \subseteq Missing
    BY <2>1, Places, PlacesNext DEF Missing
  <2>3. QED BY <2>1, <2>2, <1>1
<1>6. ASSUME NEW p \in Persisters, FlushReturn(p)
      PROVE  MissingInv'
  <2>1. UNCHANGED <<queue, hand, enqueued, saved, failed, lost>> /\ life' \in {"stopped", life}
    BY <1>6 DEF FlushReturn
  <2>2. Missing' = Missing
    BY <2>1 DEF Missing, InQueue, InHand, Enqueued, Settled
  <2>3. QED BY <2>1, <2>2, <1>1
<1>7. ASSUME Stop
      PROVE  MissingInv'
  <2>1. /\ life = "running" /\ flushing = {} /\ life' = "stopping"
        /\ UNCHANGED <<queue, enqueued, saved, failed, lost>>
        /\ hand' = [hand EXCEPT ![Drain] = <<>>]
    BY <1>7 DEF Stop
  <2>2. UNCHANGED <<InQueue, Enqueued, Settled>>
    BY <2>1 DEF InQueue, Enqueued, Settled
  <2>3. \A q \in Persisters : q # Drain => HeldBy(q)' = HeldBy(q)
    BY <2>1 DEF TypeOK, HeldBy
  <2>4. Missing' \subseteq HeldBy(Drain)
    BY <2>1, <2>2, <2>3, Places, PlacesNext DEF Missing, MissingInv
  <2>5. hand[Drain] \in Seq(Items) /\ Len(hand[Drain]) \in Nat /\ Len(hand[Drain]) <= MaxBatch
    BY Constants, SeqFacts DEF TypeOK, HolderInv
  <2>6. IsFiniteSet(HeldBy(Drain)) /\ Cardinality(HeldBy(Drain)) <= Len(hand[Drain])
    BY <2>5, FewElems DEF HeldBy
  <2>7. IsFiniteSet(Missing') /\ Cardinality(Missing') <= Cardinality(HeldBy(Drain))
    BY <2>4, <2>6, FS_Subset
  <2>8. Cardinality(Missing') \in Nat /\ Cardinality(HeldBy(Drain)) \in Nat
    BY <2>6, <2>7, FS_CardinalityType
  <2>9. Cardinality(Missing') <= MaxBatch
    BY <2>5, <2>6, <2>7, <2>8, Constants
  <2>10. QED BY <2>1, <2>7, <2>9 DEF MissingInv
<1>8. ASSUME Restart
      PROVE  MissingInv'
  <2>1. lost' = Enqueued \ Settled /\ UNCHANGED <<enqueued, saved, failed>>
    BY <1>8 DEF Restart
  <2>2. Missing' = {}
    BY <2>1 DEF Missing, Enqueued, Settled
  <2>3. QED BY <2>2, <1>1
<1>9. ASSUME LandLate \/ UNCHANGED vars
      PROVE  MissingInv'
  <2>1. UNCHANGED <<life, queue, hand, enqueued, saved, failed, lost>>
    BY <1>9 DEF LandLate, vars, bufferVars
  <2>2. QED BY <2>1 DEF MissingInv, Missing, InQueue, InHand, Enqueued, Settled
<1>10. QED BY <1>2, <1>3, <1>4, <1>5, <1>6, <1>7, <1>8, <1>9, StepCases

\* Between them the parts of the invariant account for every item.
LEMMA Accounted == BufferInv => EveryItemAccounted
<1> SUFFICES ASSUME TypeOK, PlacesInv, HolderInv, MissingInv
             PROVE  EveryItemAccounted
  BY DEF BufferInv
<1>1. HandledOnce
  <2>1. InQueue \intersect InHand = {} /\ (InQueue \union InHand) \intersect Settled = {}
    BY Places DEF PlacesInv
  <2>2. ASSUME NEW p \in Persisters, NEW q \in Persisters, p # q,
               NEW i \in DOMAIN hand[p], NEW j \in DOMAIN hand[q]
        PROVE  hand[p][i] # hand[q][j]
    <3>1. hand[p] \in Seq(Items) /\ hand[q] \in Seq(Items)
      BY DEF TypeOK
    <3>2. hand[p][i] \in HeldBy(p) /\ hand[q][j] \in HeldBy(q)
      BY <3>1, ElemsOfDomain DEF HeldBy
    <3>3. QED BY <2>2, <3>2 DEF PlacesInv
  <2>3. QED BY <2>1, <2>2 DEF HandledOnce
<1>2. NothingVanishes
  BY Places DEF NothingVanishes, MissingInv, Missing, PlacesInv
<1>3. ASSUME life = "stopped"
      PROVE  Cardinality(Enqueued \ (Settled \union lost)) <= MaxBatch
  <2>1. queue = <<>> /\ \A p \in Persisters : hand[p] = <<>>
    BY <1>3 DEF HolderInv
  <2>2. InQueue = {} /\ InHand = {}
    BY <2>1, Places, ElemsOfEmpty DEF HeldBy
  <2>3. Enqueued \ (Settled \union lost) = Missing
    BY <2>2 DEF Missing
  <2>4. QED BY <2>3 DEF MissingInv
<1>4. QED BY <1>1, <1>2, <1>3 DEF EveryItemAccounted, StopLosesAtMostABatch

LEMMA BufferInvariant == AsyncSpec => [](AsyncTypeOK /\ BufferInv)
<1>1. AsyncInit => AsyncTypeOK /\ BufferInv
  <2> SUFFICES ASSUME AsyncInit
               PROVE  AsyncTypeOK /\ BufferInv
    OBVIOUS
  <2>1. AsyncTypeOK /\ TypeOK
    BY InitType DEF AsyncTypeOK
  <2>2. /\ queue = <<>> /\ enqueued = <<>> /\ \A p \in Persisters : hand[p] = <<>>
        /\ saved = {} /\ failed = {} /\ applied = {} /\ lost = {} /\ life = "running" /\ flushing = {}
        /\ wire = {}
    BY DEF AsyncInit, Init
  <2>3. /\ InQueue = {} /\ Enqueued = {} /\ Settled = {}
        /\ \A p \in Persisters : HeldBy(p) = {} /\ Distinct(hand[p])
        /\ Distinct(queue)
    BY <2>1, <2>2, Places, ElemsOfEmpty DEF HeldBy, Settled
  <2>4. PlacesInv
    BY <2>2, <2>3 DEF PlacesInv
  <2>5. HolderInv
    <3>1. Len(<<>>) <= MaxBatch
      BY EmptySeq, Constants
    <3>2. QED BY <2>2, <3>1 DEF HolderInv
  <2>6. Missing = {}
    BY <2>3 DEF Missing
  <2>7. MissingInv
    BY <2>6, FS_EmptySet, Constants DEF MissingInv
  <2>8. QED BY <2>1, <2>2, <2>4, <2>5, <2>7 DEF BufferInv, WireInv
<1>2. AsyncTypeOK /\ BufferInv /\ [AsyncNext]_vars => (AsyncTypeOK /\ BufferInv)'
  <2> SUFFICES ASSUME AsyncTypeOK, BufferInv, [AsyncNext]_vars
               PROVE  (AsyncTypeOK /\ BufferInv)'
    OBVIOUS
  <2>1. AsyncTypeOK'
    BY TypeStep
  <2>2. TypeOK /\ TypeOK' /\ PlacesInv /\ HolderInv /\ MissingInv /\ WireInv
    BY <2>1 DEF AsyncTypeOK, BufferInv
  <2>3. PlacesInv' /\ HolderInv' /\ MissingInv' /\ WireInv'
    BY <2>2, PlacesStep, HolderStep, MissingStep, WireStep
  <2>4. QED BY <2>1, <2>2, <2>3 DEF BufferInv
<1>3. QED BY <1>1, <1>2, PTL DEF AsyncSpec

-----------------------------------------------------------------------------
\* Every item of evidence is accounted for, whatever flush calls, failing writes,
\* shutdowns and crashes happen: no coroutine handles an item that another one
\* holds or handled, none vanishes while the service runs, and stop() loses at
\* most the one batch it cancels (EvidenceBuffer).
THEOREM ItemsAccounted == AsyncSpec => []EveryItemAccounted
BY BufferInvariant, Accounted, PTL

-----------------------------------------------------------------------------
(* The order of the receipts in the sequences.                             *)

LEMMA StoredFacts ==
  /\ \A A, B : Stored(A \union B) = Stored(A) \union Stored(B)
  /\ \A A, B : A \subseteq B => Stored(A) \subseteq Stored(B)
  /\ Stored({}) = {}
  /\ \A A : Stored(A) \subseteq Requests
BY DEF Stored

LEMMA StoredOfItem ==
  ASSUME NEW x \in Items
  PROVE  /\ x.kind = "receipt" => Stored({x}) = {x.req}
         /\ x.kind # "receipt" => Stored({x}) = {}
BY DEF Stored, Items

LEMMA StoredOfRequest ==
  ASSUME NEW r \in Requests
  PROVE  Stored(ItemsOf(r)) = {r}
BY DEF Stored, ItemsOf, Items, Kinds

\* A waiting receipt has a position.
LEMMA WaitingAt ==
  ASSUME NEW s \in Seq(Items)
  PROVE  /\ \A r \in Waiting(s) : \E i \in 1 .. Len(s) : s[i].kind = "receipt" /\ s[i].req = r
         /\ \A i \in 1 .. Len(s) : s[i].kind = "receipt" => s[i].req \in Waiting(s)
<1>1. ASSUME NEW r \in Waiting(s)
      PROVE  \E i \in 1 .. Len(s) : s[i].kind = "receipt" /\ s[i].req = r
  <2>1. [kind |-> "receipt", req |-> r] \in Elems(s)
    BY <1>1 DEF Waiting, Stored
  <2>2. PICK i \in 1 .. Len(s) : s[i] = [kind |-> "receipt", req |-> r]
    BY <2>1 DEF Elems
  <2>3. QED BY <2>2
<1>2. ASSUME NEW i \in 1 .. Len(s), s[i].kind = "receipt"
      PROVE  s[i].req \in Waiting(s)
  <2>1. s[i] \in Items /\ s[i] \in Elems(s)
    BY SeqFacts DEF Elems
  <2>2. s[i] = [kind |-> "receipt", req |-> s[i].req] /\ s[i].req \in Requests
    BY <2>1, <1>2 DEF Items
  <2>3. QED BY <2>1, <2>2 DEF Waiting, Stored
<1>3. QED BY <1>1, <1>2

LEMMA OrderOfEmpty ==
  ASSUME NEW R
  PROVE  InOrder(R, <<>>) /\ Waiting(<<>>) = {}
<1>1. 1 .. Len(<<>>) = {}
  BY EmptySeq
<1>2. InOrder(R, <<>>)
  BY <1>1 DEF InOrder
<1>3. QED BY <1>2, ElemsOfEmpty, StoredFacts DEF Waiting

LEMMA OrderOfSplit ==
  ASSUME NEW R, NEW s \in Seq(Items), NEW b \in Seq(Items), NEW t \in Seq(Items),
         NEW n \in Nat, Splits(s, b, t, n), InOrder(R, s)
  PROVE  InOrder(R, b) /\ InOrder(R, t) /\ Below(R, Waiting(b), Waiting(t))
<1>1. PICK m \in Nat : m = Len(s)
  BY SeqFacts
<1>2. /\ n \in 1 .. m /\ Len(b) = n /\ Len(t) = m - n
      /\ \A i \in 1 .. n : b[i] = s[i]
      /\ \A i \in 1 .. m - n : t[i] = s[n + i]
  BY <1>1 DEF Splits
<1>3. \A i \in 1 .. n : i \in 1 .. m
  BY <1>2
<1>4. \A j \in 1 .. m - n : n + j \in 1 .. m
  BY <1>2
<1>5. \A i, j \in 1 .. m : i < j /\ s[i].kind = "receipt" /\ s[j].kind = "receipt"
                            => R[s[i].req].seq < R[s[j].req].seq
  BY <1>1 DEF InOrder
<1>6. InOrder(R, b)
  BY <1>2, <1>3, <1>5 DEF InOrder
<1>7. InOrder(R, t)
  <2>1. ASSUME NEW i \in 1 .. m - n, NEW j \in 1 .. m - n,
               i < j, t[i].kind = "receipt", t[j].kind = "receipt"
        PROVE  R[t[i].req].seq < R[t[j].req].seq
    <3>1. n + i \in 1 .. m /\ n + j \in 1 .. m /\ n + i < n + j
      BY <2>1, <1>2, <1>4
    <3>2. t[i] = s[n + i] /\ t[j] = s[n + j]
      BY <1>2
    <3>3. QED BY <2>1, <3>1, <3>2, <1>5
  <2>2. QED BY <2>1, <1>2 DEF InOrder
<1>8. ASSUME NEW x \in Waiting(b), NEW y \in Waiting(t)
      PROVE  R[x].seq < R[y].seq
  <2>1. PICK i \in 1 .. n : b[i].kind = "receipt" /\ b[i].req = x
    BY <1>8, <1>2, WaitingAt
  <2>2. PICK j \in 1 .. m - n : t[j].kind = "receipt" /\ t[j].req = y
    BY <1>8, <1>2, WaitingAt
  <2>3. i \in 1 .. m /\ n + j \in 1 .. m /\ i < n + j /\ b[i] = s[i] /\ t[j] = s[n + j]
    BY <1>2, <1>3, <1>4
  <2>4. QED BY <2>1, <2>2, <2>3, <1>5
<1>9. QED BY <1>6, <1>7, <1>8 DEF Below

LEMMA OrderOfTail ==
  ASSUME NEW R, NEW s \in Seq(Items), NEW t \in Seq(Items), Cuts(s, t), InOrder(R, s)
  PROVE  InOrder(R, t) /\ Below(R, Stored({s[1]}), Waiting(t))
<1>1. PICK m \in Nat : m = Len(s) /\ m >= 1
  BY SeqFacts DEF Cuts
<1>2. Len(t) = m - 1 /\ \A i \in 1 .. m - 1 : t[i] = s[i + 1]
  BY <1>1 DEF Cuts
<1>3. \A i \in 1 .. m - 1 : i + 1 \in 1 .. m
  BY <1>1
<1>4. \A i, j \in 1 .. m : i < j /\ s[i].kind = "receipt" /\ s[j].kind = "receipt"
                            => R[s[i].req].seq < R[s[j].req].seq
  BY <1>1 DEF InOrder
<1>5. InOrder(R, t)
  <2>1. ASSUME NEW i \in 1 .. m - 1, NEW j \in 1 .. m - 1,
               i < j, t[i].kind = "receipt", t[j].kind = "receipt"
        PROVE  R[t[i].req].seq < R[t[j].req].seq
    <3>1. i + 1 \in 1 .. m /\ j + 1 \in 1 .. m /\ i + 1 < j + 1
      BY <2>1, <1>3
    <3>2. t[i] = s[i + 1] /\ t[j] = s[j + 1]
      BY <1>2
    <3>3. QED BY <2>1, <3>1, <3>2, <1>4
  <2>2. QED BY <2>1, <1>2 DEF InOrder
<1>6. ASSUME NEW x \in Stored({s[1]}), NEW y \in Waiting(t)
      PROVE  R[x].seq < R[y].seq
  <2>1. PICK j \in 1 .. m - 1 : t[j].kind = "receipt" /\ t[j].req = y
    BY <1>6, <1>2, WaitingAt
  <2>2. 1 \in 1 .. m /\ j + 1 \in 1 .. m /\ 1 < j + 1 /\ t[j] = s[j + 1]
    BY <1>1, <1>2, <1>3
  <2>3. s[1].kind = "receipt" /\ s[1].req = x
    BY <1>6 DEF Stored
  <2>4. QED BY <2>1, <2>2, <2>3, <1>4
<1>7. QED BY <1>5, <1>6 DEF Below

\* The receipt signed for r, above all others, is appended.
LEMMA OrderOfAppend ==
  ASSUME NEW R \in [Requests -> ChainHead], NEW c \in ChainHead, NEW r \in Requests,
         NEW Q, Q = [R EXCEPT ![r] = [seq |-> c.seq + 1, prev |-> c.prev]],
         NEW s \in Seq(Items), Elems(s) \intersect ItemsOf(r) = {}, InOrder(R, s),
         \A q \in Waiting(s) : R[q].seq <= c.seq
  PROVE  InOrder(Q, s \o Evidence(r))
<1>1. PICK n \in Nat : n = Len(s)
  BY SeqFacts
<1>2. PICK t \in Seq(Items) :
        /\ t = s \o Evidence(r)
        /\ Len(t) = n + 3
        /\ \A i \in 1 .. n : t[i] = s[i]
        /\ \A i \in 1 .. 3 : t[n + i] = Evidence(r)[i]
  BY <1>1, AppendEvidence, ZenonT(60)
<1>3. \A i \in 1 .. n : s[i] \in Items /\ s[i].req \in Requests /\ s[i].req # r
  <2>1. TAKE i \in 1 .. n
  <2>2. s[i] \in Items /\ s[i] \in Elems(s)
    BY <1>1, SeqFacts DEF Elems
  <2>3. QED BY <2>2 DEF Items, ItemsOf
<1>4. \A i \in 1 .. n : Q[t[i].req] = R[s[i].req]
  BY <1>2, <1>3
<1>5. t[n + 1].req = r /\ t[n + 2].kind # "receipt" /\ t[n + 3].kind # "receipt"
  <2>1. t[n + 1] = Evidence(r)[1] /\ t[n + 2] = Evidence(r)[2] /\ t[n + 3] = Evidence(r)[3]
    BY <1>2, SMTT(60)
  <2>2. /\ t[n + 1] = [kind |-> "receipt", req |-> r]
        /\ t[n + 2] = [kind |-> "stats", req |-> r]
        /\ t[n + 3] = [kind |-> "rate_limits", req |-> r]
    BY <2>1, EvidenceFacts
  <2>3. QED BY <2>2
<1>6. Q[r].seq = c.seq + 1 /\ c.seq \in Nat /\ \A q \in Requests : R[q].seq \in Nat
  BY DEF ChainHead
<1>7. ASSUME NEW i \in 1 .. n + 3, NEW j \in 1 .. n + 3,
             i < j, t[i].kind = "receipt", t[j].kind = "receipt"
      PROVE  Q[t[i].req].seq < Q[t[j].req].seq
  <2>1. j \in 1 .. n + 1
    <3>1. j # n + 2 /\ j # n + 3
      BY <1>5, <1>7
    <3>2. QED BY <3>1
  <2>2. i \in 1 .. n
    BY <2>1, <1>7
  <2>3. CASE j \in 1 .. n
    <3>1. R[s[i].req].seq < R[s[j].req].seq
      BY <2>2, <2>3, <1>1, <1>2, <1>7 DEF InOrder
    <3>2. QED BY <3>1, <2>2, <2>3, <1>4
  <2>4. CASE j = n + 1
    <3>1. s[i].req \in Waiting(s)
      BY <2>2, <1>1, <1>2, <1>7, WaitingAt
    <3>2. R[s[i].req].seq <= c.seq /\ R[s[i].req].seq \in Nat
      BY <3>1, <2>2, <1>3, <1>6
    <3>3. Q[t[j].req].seq = c.seq + 1 /\ Q[t[i].req].seq = R[s[i].req].seq
      BY <2>2, <2>4, <1>4, <1>5, <1>6
    <3>4. QED BY <3>2, <3>3, <1>6
  <2>5. QED BY <2>1, <2>3, <2>4
<1>8. QED BY <1>2, <1>7 DEF InOrder

\* What is below the rest of a chain is itself a chain.
LEMMA LinkedBelow ==
  ASSUME NEW R \in [Requests -> ChainHead], NEW A \in SUBSET Requests, NEW B \in SUBSET Requests,
         LinkedIn(R, A \union B), Below(R, A, B)
  PROVE  LinkedIn(R, A)
<1>1. ASSUME NEW r \in A, R[r] # [seq |-> 1, prev |-> Genesis]
      PROVE  R[r].prev \in A /\ R[R[r].prev].seq + 1 = R[r].seq
  <2>1. R[r].prev \in A \union B /\ R[R[r].prev].seq + 1 = R[r].seq
    BY <1>1 DEF LinkedIn
  <2>2. R[r].seq \in Nat /\ R[R[r].prev].seq \in Nat
    BY <2>1 DEF ChainHead
  <2>3. ~ (R[r].seq < R[R[r].prev].seq)
    BY <2>1, <2>2
  <2>4. R[r].prev \notin B
    BY <2>3 DEF Below
  <2>5. QED BY <2>1, <2>4
<1>2. QED BY <1>1 DEF LinkedIn

-----------------------------------------------------------------------------
(* The chain's invariant holds initially and every step keeps it.          *)

\* What each step leaves of the chain, as the other lemmas need it.
LEMMA ChainFrame ==
  ASSUME [AsyncNext]_vars
  PROVE  \/ \E r \in Requests : Authorize(r)
         \/ UNCHANGED <<enqueued, receipt>> /\ (Restart \/ UNCHANGED chain)
BY StepCases, TakeFacts DEF TakeStep, DrainTake, FlushTake, TakeBatch, Persist, FlushReturn, FlushCall,
   Stop, Restart, LandLate, chainVars, vars, bufferVars

LEMMA ResumedHead ==
  ASSUME NEW S \in SUBSET Requests, NEW c \in ResumedHeads(S)
  PROVE  \/ S = {} /\ c = FreshChain
         \/ /\ c.prev \in S /\ c.seq = receipt[c.prev].seq
            /\ \A x \in S : receipt[x].seq <= c.seq
BY DEF ResumedHeads, LastStored

\* A restart resumes from stored or in-flight receipts, which were enqueued.
LEMMA RestartFacts ==
  ASSUME AsyncTypeOK, PlacesInv, Restart
  PROVE  \E late \in SUBSET InFlightItems :
           /\ applied' = applied \union late /\ applied' \subseteq Enqueued
           /\ chain' \in ResumedHeads(Stored(applied')) \/ (chain' = FreshChain /\ disrupted' = TRUE)
           /\ Stored(applied') \subseteq Requests
<1>1. PICK late \in SUBSET InFlightItems :
        /\ applied' = applied \union late
        /\ chain' \in ResumedHeads(Stored(applied \union late)) \/ (chain' = FreshChain /\ disrupted' = TRUE)
  BY DEF Restart
<1>2. late \subseteq Enqueued
  BY FirstHeld DEF PlacesInv, AsyncTypeOK
<1>3. QED BY <1>1, <1>2, StoredFacts DEF PlacesInv

LEMMA LinkStep ==
  ASSUME AsyncTypeOK, AsyncTypeOK', PlacesInv, LinkInv, [AsyncNext]_vars
  PROVE  LinkInv'
<1>1. ASSUME NEW r \in Requests, Authorize(r)
      PROVE  LinkInv'
  <2>1. /\ Enqueued' = Enqueued \union ItemsOf(r)
        /\ Enqueued \intersect ItemsOf(r) = {}
    BY <1>1, EnqueueSets DEF Authorize, AsyncTypeOK
  <2>2. /\ receipt' = [receipt EXCEPT ![r] = [seq |-> chain.seq + 1, prev |-> chain.prev]]
        /\ chain' = [seq |-> chain.seq + 1, prev |-> r]
    BY <1>1 DEF Authorize
  <2>3. /\ receipt'[r] = [seq |-> chain.seq + 1, prev |-> chain.prev]
        /\ \A q \in Requests : q # r => receipt'[q] = receipt[q]
    BY <2>2 DEF AsyncTypeOK
  <2>4. \A x \in Enqueued : x \in Items
    BY Places DEF AsyncTypeOK
  <2>5. ~ SignedAt(receipt, r)
    BY <2>1, <2>4 DEF LinkInv, ItemsOf
  <2>6. chain.seq \in Nat
    BY DEF AsyncTypeOK, ChainHead
  <2>7. SignedAt(receipt', r)
    BY <2>3, <2>6 DEF SignedAt
  <2>8. \A q \in Requests : q # r => (SignedAt(receipt', q) <=> SignedAt(receipt, q))
    BY <2>3 DEF SignedAt
  <2>9. \A q \in Requests : SignedAt(receipt', q) <=> \E x \in Enqueued' : x.req = q
    <3>1. \E x \in Enqueued' : x.req = r
      <4>1. [kind |-> "receipt", req |-> r] \in ItemsOf(r)
        BY DEF ItemsOf, Items, Kinds
      <4>2. QED BY <2>1, <4>1
    <3>2. \A q \in Requests : q # r =>
            ((\E x \in Enqueued' : x.req = q) <=> (\E x \in Enqueued : x.req = q))
      BY <2>1 DEF ItemsOf
    <3>3. QED BY <2>7, <2>8, <3>1, <3>2 DEF LinkInv
  <2>10. ASSUME NEW q \in Requests, SignedAt(receipt', q)
         PROVE  \/ receipt'[q] = [seq |-> 1, prev |-> Genesis]
                \/ /\ receipt'[q].prev \in Requests
                   /\ SignedAt(receipt', receipt'[q].prev)
                   /\ receipt'[receipt'[q].prev].seq + 1 = receipt'[q].seq
    <3>1. CASE q = r
      <4>1. CASE chain = FreshChain
        BY <3>1, <4>1, <2>3 DEF FreshChain
      <4>2. CASE chain # FreshChain
        <5>1. chain.prev \in Requests /\ SignedAt(receipt, chain.prev) /\ receipt[chain.prev].seq = chain.seq
          BY <4>2 DEF LinkInv
        <5>2. chain.prev # r
          BY <5>1, <2>5
        <5>3. receipt'[q].prev = chain.prev /\ receipt'[q].seq = chain.seq + 1
          BY <3>1, <2>3
        <5>4. receipt'[chain.prev] = receipt[chain.prev]
          BY <5>1, <5>2, <2>3
        <5>5. QED BY <5>1, <5>2, <5>3, <5>4, <2>8
      <4>3. QED BY <4>1, <4>2
    <3>2. CASE q # r
      <4>1. SignedAt(receipt, q) /\ receipt'[q] = receipt[q]
        BY <3>2, <2>10, <2>3, <2>8
      <4>2. CASE receipt[q] # [seq |-> 1, prev |-> Genesis]
        <5>1. /\ receipt[q].prev \in Requests /\ SignedAt(receipt, receipt[q].prev)
              /\ receipt[receipt[q].prev].seq + 1 = receipt[q].seq
          BY <4>1, <4>2 DEF LinkInv
        <5>2. receipt[q].prev # r
          BY <5>1, <2>5
        <5>3. QED BY <4>1, <5>1, <5>2, <2>3, <2>8
      <4>3. QED BY <4>1, <4>2
    <3>3. QED BY <3>1, <3>2
  <2>11. chain'.prev \in Requests /\ SignedAt(receipt', chain'.prev) /\ receipt'[chain'.prev].seq = chain'.seq
    BY <2>2, <2>3, <2>7
  <2>12. QED BY <2>9, <2>10, <2>11 DEF LinkInv
<1>2. ASSUME UNCHANGED <<enqueued, receipt>>, Restart \/ UNCHANGED chain
      PROVE  LinkInv'
  <2>1. Enqueued' = Enqueued /\ receipt' = receipt
    BY <1>2 DEF Enqueued
  <2>2. CASE UNCHANGED chain
    BY <1>2, <2>1, <2>2 DEF LinkInv
  <2>3. CASE Restart
    <3>1. PICK S \in SUBSET Requests :
            /\ S = Stored(applied') /\ applied' \subseteq Enqueued
            /\ chain' \in ResumedHeads(S) \/ chain' = FreshChain
      BY <2>3, RestartFacts
    <3>2. \A q \in S : SignedAt(receipt, q)
      <4>1. TAKE q \in S
      <4>2. [kind |-> "receipt", req |-> q] \in Enqueued
        BY <3>1 DEF Stored
      <4>3. QED BY <4>2 DEF LinkInv
    <3>3. \/ chain' = FreshChain
          \/ chain'.prev \in S /\ chain'.seq = receipt[chain'.prev].seq
      BY <3>1, ResumedHead
    <3>4. \/ chain' = FreshChain
          \/ /\ chain'.prev \in Requests
             /\ SignedAt(receipt', chain'.prev)
             /\ receipt'[chain'.prev].seq = chain'.seq
      BY <1>2, <2>1, <3>2, <3>3
    <3>5. QED BY <1>2, <2>1, <3>4 DEF LinkInv
  <2>4. QED BY <1>2, <2>2, <2>3
<1>3. QED BY <1>1, <1>2, ChainFrame

\* The parts of OrderInv about the receipts, while no write failed.
Ordered ==
  /\ InOrder(receipt, hand[Drain])
  /\ InOrder(receipt, queue)
  /\ Below(receipt, Stored(applied), Pending)
  /\ Below(receipt, Waiting(hand[Drain]), Waiting(queue))
  /\ OneEach(receipt, Stored(applied))
  /\ LinkedIn(receipt, Kept)
  /\ \A r \in Kept : receipt[r].seq <= chain.seq
  /\ IF Kept = {} THEN chain = FreshChain ELSE chain.prev \in Kept

Alone ==
  /\ life = "running"
  /\ flushing = {}
  /\ \A p \in Persisters : p # Drain => hand[p] = <<>>

\* The receipts that are kept belong to enqueued items.
LEMMA KeptEnqueued ==
  ASSUME AsyncTypeOK, PlacesInv
  PROVE  /\ Kept \subseteq Requests
         /\ \A r \in Kept : \E x \in Enqueued : x.req = r
         /\ hand[Drain] \in Seq(Items) /\ queue \in Seq(Items)
<1>1. hand[Drain] \in Seq(Items) /\ queue \in Seq(Items)
  BY Constants DEF AsyncTypeOK, TypeOK
<1>2. Elems(hand[Drain]) \subseteq Enqueued /\ Elems(queue) \subseteq Enqueued /\ applied \subseteq Enqueued
  BY Constants, Places DEF PlacesInv, HeldBy, AsyncTypeOK
<1>3. Kept \subseteq Stored(Enqueued)
  BY <1>2, StoredFacts DEF Kept, Pending, Waiting
<1>4. \A r \in Stored(Enqueued) : r \in Requests /\ [kind |-> "receipt", req |-> r] \in Enqueued
  BY DEF Stored
<1>5. QED BY <1>1, <1>3, <1>4

LEMMA AuthorizeOrdered ==
  ASSUME AsyncTypeOK, AsyncTypeOK', PlacesInv, LinkInv, Ordered,
         NEW r \in Requests, Authorize(r)
  PROVE  Ordered'
<1>1. /\ receipt' = [receipt EXCEPT ![r] = [seq |-> chain.seq + 1, prev |-> chain.prev]]
      /\ chain' = [seq |-> chain.seq + 1, prev |-> r]
      /\ queue' = queue \o Evidence(r)
      /\ UNCHANGED <<hand, applied>>
  BY DEF Authorize, Enqueue
<1>2. /\ receipt'[r] = [seq |-> chain.seq + 1, prev |-> chain.prev]
      /\ \A q \in Requests : q # r => receipt'[q] = receipt[q]
  BY <1>1 DEF AsyncTypeOK
<1>3. /\ Kept \subseteq Requests
      /\ \A q \in Kept : \E x \in Enqueued : x.req = q
      /\ hand[Drain] \in Seq(Items) /\ queue \in Seq(Items)
  BY KeptEnqueued
<1>4. Enqueued \intersect ItemsOf(r) = {} /\ Enqueued \subseteq Items
  BY EnqueueSets, Places DEF Authorize, AsyncTypeOK
<1>5. r \notin Kept
  BY <1>3, <1>4 DEF ItemsOf
<1>6. \A q \in Kept : receipt'[q] = receipt[q] /\ receipt[q].seq \in Nat
  BY <1>2, <1>3, <1>5 DEF AsyncTypeOK, ChainHead
<1>7. chain \in ChainHead /\ chain.seq \in Nat /\ receipt \in [Requests -> ChainHead]
  BY DEF AsyncTypeOK, ChainHead
<1>8. Waiting(queue') = Waiting(queue) \union {r}
  <2>1. Elems(queue') = Elems(queue) \union ItemsOf(r)
    BY <1>1, <1>3, ElemsOfAppend
  <2>2. Stored(Elems(queue')) = Stored(Elems(queue)) \union Stored(ItemsOf(r))
    BY <2>1, StoredFacts
  <2>3. QED BY <2>2, StoredOfRequest DEF Waiting
<1>9. /\ Stored(applied') = Stored(applied) /\ Waiting(hand'[Drain]) = Waiting(hand[Drain])
      /\ Pending' = Pending \union {r} /\ Kept' = Kept \union {r}
  BY <1>1, <1>8 DEF Pending, Kept
<1>10. InOrder(receipt', hand'[Drain])
  <2>1. \A i \in 1 .. Len(hand[Drain]) : hand[Drain][i].kind = "receipt"
                                          => hand[Drain][i].req \in Kept
    BY <1>3, WaitingAt DEF Kept, Pending
  <2>2. InOrder(receipt, hand[Drain])
    BY DEF Ordered
  <2>3. QED BY <1>1, <1>6, <2>1, <2>2 DEF InOrder
<1>11. InOrder(receipt', queue')
  <2>1. Elems(queue) \intersect ItemsOf(r) = {}
    BY <1>4, Places DEF PlacesInv, AsyncTypeOK
  <2>2. \A q \in Waiting(queue) : receipt[q].seq <= chain.seq
    BY DEF Ordered, Kept, Pending
  <2>3. InOrder(receipt, queue)
    BY DEF Ordered
  <2>4. QED BY <1>1, <1>3, <1>7, <2>1, <2>2, <2>3, OrderOfAppend
<1>12. \A q \in Kept : receipt'[q].seq < receipt'[r].seq /\ receipt'[q].seq <= chain'.seq
  <2>1. TAKE q \in Kept
  <2>2. receipt[q].seq <= chain.seq
    BY DEF Ordered
  <2>3. QED BY <2>2, <1>1, <1>2, <1>6, <1>7
<1>13. Below(receipt', Stored(applied'), Pending')
  BY <1>6, <1>9, <1>12 DEF Below, Ordered, Kept
<1>14. Below(receipt', Waiting(hand'[Drain]), Waiting(queue'))
  BY <1>6, <1>8, <1>9, <1>12 DEF Below, Ordered, Kept, Pending
<1>15. OneEach(receipt', Stored(applied'))
  BY <1>6, <1>9 DEF OneEach, Ordered, Kept
<1>16. LinkedIn(receipt', Kept')
  <2>1. ASSUME NEW q \in Kept
        PROVE  \/ receipt'[q] = [seq |-> 1, prev |-> Genesis]
               \/ receipt'[q].prev \in Kept' /\ receipt'[receipt'[q].prev].seq + 1 = receipt'[q].seq
    BY <1>6, <1>9, <2>1 DEF Ordered, LinkedIn
  <2>2. \/ receipt'[r] = [seq |-> 1, prev |-> Genesis]
        \/ receipt'[r].prev \in Kept' /\ receipt'[receipt'[r].prev].seq + 1 = receipt'[r].seq
    <3>1. CASE chain = FreshChain
      BY <1>2, <3>1 DEF FreshChain
    <3>2. CASE chain # FreshChain
      <4>1. chain.prev \in Kept
        BY <3>2 DEF Ordered
      <4>2. receipt[chain.prev].seq = chain.seq
        BY <3>2 DEF LinkInv
      <4>3. QED BY <1>2, <1>6, <1>9, <4>1, <4>2
    <3>3. QED BY <3>1, <3>2
  <2>3. QED BY <2>1, <2>2, <1>9 DEF LinkedIn
<1>17. /\ \A q \in Kept' : receipt'[q].seq <= chain'.seq
       /\ chain'.prev \in Kept'
  BY <1>1, <1>2, <1>7, <1>9, <1>12
<1>18. QED BY <1>10, <1>11, <1>13, <1>14, <1>15, <1>16, <1>17 DEF Ordered

LEMMA TakeOrdered ==
  ASSUME AsyncTypeOK, AsyncTypeOK', PlacesInv, Ordered, UNCHANGED <<chain, receipt>>, TakeBatch(Drain)
  PROVE  Ordered'
<1>1. PICK n \in 1 .. Len(queue) :
        /\ n <= MaxBatch
        /\ Len(hand'[Drain]) = n /\ Len(queue') = Len(queue) - n
        /\ \A i \in 1 .. n : hand'[Drain][i] = queue[i]
        /\ \A i \in 1 .. Len(queue) - n : queue'[i] = queue[n + i]
  BY TakeFacts, Constants DEF AsyncTypeOK
<1>2. hand[Drain] = <<>> /\ applied' = applied
  BY TakeFacts, Constants DEF AsyncTypeOK
<1>3. /\ queue \in Seq(Items) /\ hand'[Drain] \in Seq(Items) /\ queue' \in Seq(Items)
      /\ n \in Nat /\ Splits(queue, hand'[Drain], queue', n)
  BY <1>1, SeqFacts, Constants DEF AsyncTypeOK, TypeOK, Splits
<1>4. /\ InOrder(receipt, hand'[Drain]) /\ InOrder(receipt, queue')
      /\ Below(receipt, Waiting(hand'[Drain]), Waiting(queue'))
  BY <1>3, OrderOfSplit DEF Ordered
<1>5. Elems(queue) = Elems(hand'[Drain]) \union Elems(queue')
  BY <1>3, ElemsOfSplit
<1>6. Stored(Elems(queue)) = Stored(Elems(hand'[Drain])) \union Stored(Elems(queue'))
  BY <1>5, StoredFacts
<1>7. Waiting(hand[Drain]) = {}
  BY <1>2, OrderOfEmpty
<1>8. Pending' = Pending /\ Stored(applied') = Stored(applied)
  BY <1>2, <1>6, <1>7 DEF Pending, Waiting
<1>9. Kept' = Kept
  BY <1>8 DEF Kept
<1>10. QED BY <1>4, <1>8, <1>9 DEF Ordered

\* At most one receipt above a set of them has a position of its own.
LEMMA OneAbove ==
  ASSUME NEW R \in [Requests -> ChainHead], NEW A \in SUBSET Requests, NEW B \in SUBSET Requests,
         OneEach(R, A), Below(R, A, B), \A a, b \in B : a = b
  PROVE  OneEach(R, A \union B)
<1>1. \A a \in Requests : R[a].seq \in Nat
  BY DEF ChainHead
<1>2. ASSUME NEW a \in A, NEW b \in B
      PROVE  R[a].seq # R[b].seq
  <2>1. R[a].seq < R[b].seq /\ R[a].seq \in Nat /\ R[b].seq \in Nat
    BY <1>1 DEF Below
  <2>2. QED BY <2>1
<1>3. ASSUME NEW a \in A \union B, NEW b \in A \union B, a # b
      PROVE  R[a].seq # R[b].seq
  <2>1. CASE a \in A /\ b \in A
    BY <1>3, <2>1 DEF OneEach
  <2>2. CASE a \in A /\ b \in B
    BY <1>2, <2>2
  <2>3. CASE a \in B /\ b \in A
    <3>1. R[b].seq # R[a].seq
      BY <1>2, <2>3
    <3>2. QED BY <3>1
  <2>4. QED BY <1>3, <2>1, <2>2, <2>3
<1>4. QED BY <1>3 DEF OneEach

\* The first receipt of the batch moves to the stored ones.
LEMMA PersistOrdered ==
  ASSUME AsyncTypeOK, AsyncTypeOK', PlacesInv, Ordered, UNCHANGED <<chain, receipt>>,
         Persist(Drain), failed' = {}
  PROVE  Ordered'
<1>1. PICK h \in Items : h = hand[Drain][1]
  BY PersistFacts, Constants DEF AsyncTypeOK
<1>2. /\ Len(hand[Drain]) \in Nat /\ Len(hand[Drain]) >= 1
      /\ Len(hand'[Drain]) = Len(hand[Drain]) - 1
      /\ \A i \in 1 .. Len(hand[Drain]) - 1 : hand'[Drain][i] = hand[Drain][i + 1]
      /\ queue' = queue
      /\ Apply(h)
  BY <1>1, PersistFacts, Constants DEF AsyncTypeOK
<1>3. hand[Drain] \in Seq(Items) /\ hand'[Drain] \in Seq(Items) /\ Cuts(hand[Drain], hand'[Drain])
  BY <1>2, Constants DEF AsyncTypeOK, TypeOK, Cuts
<1>4. applied' = applied \union {h}
  BY <1>2 DEF Apply
<1>5. InOrder(receipt, hand'[Drain]) /\ Below(receipt, Stored({h}), Waiting(hand'[Drain]))
  BY <1>1, <1>3, OrderOfTail DEF Ordered
<1>6. Elems(hand[Drain]) = Elems(hand'[Drain]) \union {h}
  BY <1>1, <1>3, ElemsOfTail
<1>7. Stored(Elems(hand[Drain])) = Stored(Elems(hand'[Drain])) \union Stored({h})
  BY <1>6, StoredFacts
<1>8. Stored(applied') = Stored(applied) \union Stored({h})
  BY <1>4, StoredFacts
<1>9. /\ Waiting(hand[Drain]) = Waiting(hand'[Drain]) \union Stored({h})
      /\ Waiting(queue') = Waiting(queue)
  BY <1>2, <1>7 DEF Waiting
<1>10. Kept' = Kept
  BY <1>8, <1>9 DEF Kept, Pending
<1>11. Below(receipt, Stored(applied'), Pending')
  BY <1>5, <1>8, <1>9 DEF Ordered, Below, Pending
<1>12. Below(receipt, Waiting(hand'[Drain]), Waiting(queue'))
  BY <1>9 DEF Ordered, Below
<1>13. OneEach(receipt, Stored(applied'))
  <2>1. Below(receipt, Stored(applied), Stored({h}))
    BY <1>9 DEF Ordered, Below, Pending
  <2>2. \A a, b \in Stored({h}) : a = b
    BY StoredOfItem
  <2>3. Stored(applied) \in SUBSET Requests /\ Stored({h}) \in SUBSET Requests
    BY StoredFacts
  <2>4. OneEach(receipt, Stored(applied)) /\ receipt \in [Requests -> ChainHead]
    BY DEF Ordered, AsyncTypeOK
  <2>5. OneEach(receipt, Stored(applied) \union Stored({h}))
    BY <2>1, <2>2, <2>3, <2>4, OneAbove
  <2>6. QED BY <2>5, <1>8
<1>14. QED BY <1>2, <1>5, <1>10, <1>11, <1>12, <1>13 DEF Ordered

\* A restart keeps the stored receipts and at most the first of the batch.
LEMMA RestartOrdered ==
  ASSUME AsyncTypeOK, AsyncTypeOK', PlacesInv, Alone, Ordered, Restart, ~ disrupted'
  PROVE  Ordered'
<1>1. PICK late \in SUBSET InFlightItems :
        /\ applied' = applied \union late
        /\ chain' \in ResumedHeads(Stored(applied'))
  BY RestartFacts
<1>2. hand' = [p \in Persisters |-> <<>>] /\ queue' = <<>> /\ receipt' = receipt
  BY DEF Restart
<1>3. hand'[Drain] = <<>>
  BY <1>2, Constants
<1>4. /\ InOrder(receipt, hand'[Drain]) /\ InOrder(receipt, queue')
      /\ Waiting(hand'[Drain]) = {} /\ Waiting(queue') = {}
  BY <1>2, <1>3, OrderOfEmpty
<1>5. Kept' = Stored(applied') /\ Pending' = {}
  BY <1>4 DEF Kept, Pending
<1>6. PICK A \in SUBSET Requests, B \in SUBSET Requests :
        /\ A = Stored(applied') /\ Kept = A \union B /\ Below(receipt, A, B)
        /\ OneEach(receipt, A)
  <2>1. CASE late = {}
    <3>1. applied' = applied
      BY <1>1, <2>1
    <3>2. Kept \subseteq Requests /\ Kept = Stored(applied) \union Pending
      BY KeptEnqueued DEF Kept
    <3>3. Stored(applied) \subseteq Requests /\ Pending \subseteq Requests
      BY <3>2
    <3>4. QED BY <3>1, <3>2, <3>3 DEF Ordered
  <2>2. CASE late # {}
    <3>1. hand[Drain] # <<>> /\ late = {Head(hand[Drain])}
      BY <2>2 DEF InFlightItems, Alone
    <3>2. hand[Drain] \in Seq(Items) /\ Len(hand[Drain]) \in Nat /\ Len(hand[Drain]) >= 1
      BY <3>1, Constants, HeadAndTail DEF AsyncTypeOK, TypeOK
    <3>3. PICK h \in Items : h = hand[Drain][1] /\ late = {h}
      BY <3>1, <3>2, HeadAndTail
    <3>4. PICK t \in Seq(Items) : Cuts(hand[Drain], t)
      <4>1. /\ Tail(hand[Drain]) \in Seq(Items) /\ Len(Tail(hand[Drain])) = Len(hand[Drain]) - 1
            /\ \A i \in 1 .. Len(hand[Drain]) - 1 : Tail(hand[Drain])[i] = hand[Drain][i + 1]
        BY <3>1, <3>2, HeadAndTail
      <4>2. Cuts(hand[Drain], Tail(hand[Drain]))
        BY <3>2, <4>1 DEF Cuts
      <4>3. QED BY <4>1, <4>2
    <3>5. Below(receipt, Stored({h}), Waiting(t))
      BY <3>2, <3>3, <3>4, OrderOfTail DEF Ordered
    <3>6. Elems(hand[Drain]) = Elems(t) \union {h}
      BY <3>2, <3>3, <3>4, ElemsOfTail
    <3>7. Stored(Elems(hand[Drain])) = Stored(Elems(t)) \union Stored({h})
      BY <3>6, StoredFacts
    <3>8. Stored(applied') = Stored(applied) \union Stored({h})
      BY <1>1, <3>3, StoredFacts
    <3>9. DEFINE B == Waiting(t) \union Waiting(queue)
    <3>10. Waiting(hand[Drain]) = Waiting(t) \union Stored({h})
      BY <3>7 DEF Waiting
    <3>11. Kept = Stored(applied') \union B
      BY <3>8, <3>10 DEF Kept, Pending
    <3>12. Below(receipt, Stored(applied'), B)
      BY <3>5, <3>8, <3>10 DEF Ordered, Below, Pending
    <3>13. Stored(applied') \subseteq Requests /\ B \subseteq Requests
      BY StoredFacts DEF Waiting
    <3>14. OneEach(receipt, Stored(applied'))
      <4>1. Below(receipt, Stored(applied), Stored({h}))
        BY <3>10 DEF Ordered, Below, Pending
      <4>2. \A a, b \in Stored({h}) : a = b
        BY StoredOfItem
      <4>3. Stored(applied) \in SUBSET Requests /\ Stored({h}) \in SUBSET Requests
        BY StoredFacts
      <4>4. OneEach(receipt, Stored(applied)) /\ receipt \in [Requests -> ChainHead]
        BY DEF Ordered, AsyncTypeOK
      <4>5. OneEach(receipt, Stored(applied) \union Stored({h}))
        BY <4>1, <4>2, <4>3, <4>4, OneAbove
      <4>6. QED BY <4>5, <3>8
    <3>15. QED BY <3>11, <3>12, <3>13, <3>14
  <2>3. QED BY <2>1, <2>2
<1>7. LinkedIn(receipt, A)
  <2>1. LinkedIn(receipt, A \union B)
    BY <1>6 DEF Ordered
  <2>2. receipt \in [Requests -> ChainHead]
    BY DEF AsyncTypeOK
  <2>3. QED BY <1>6, <2>1, <2>2, LinkedBelow
<1>8. /\ \A r \in A : receipt[r].seq <= chain'.seq
      /\ IF A = {} THEN chain' = FreshChain ELSE chain'.prev \in A
  BY <1>1, <1>6, ResumedHead
<1>9. Below(receipt, A, {}) /\ Below(receipt, {}, {})
  BY DEF Below
<1>10. QED BY <1>2, <1>4, <1>5, <1>6, <1>7, <1>8, <1>9 DEF Ordered

LEMMA OrderSplit == OrderInv <=> (alone => Alone /\ (failed = {} /\ ~disrupted => Ordered))
BY DEF OrderInv, Alone, Ordered

LEMMA OrderStep ==
  ASSUME AsyncTypeOK, AsyncTypeOK', PlacesInv, LinkInv, OrderInv, [AsyncNext]_vars
  PROVE  OrderInv'
<1> SUFFICES ASSUME alone'
             PROVE  Alone' /\ (failed' = {} /\ ~disrupted' => Ordered')
  BY DEF OrderInv, Alone, Ordered
<1>1. ASSUME NEW r \in Requests, Authorize(r)
      PROVE  Alone' /\ (failed' = {} /\ ~disrupted' => Ordered')
  <2>1. UNCHANGED <<life, flushing, hand, failed, alone, disrupted>>
    BY <1>1 DEF Authorize, Enqueue
  <2>2. Alone /\ (failed = {} /\ ~disrupted => Ordered)
    BY <2>1, OrderSplit
  <2>3. QED BY <1>1, <2>1, <2>2, AuthorizeOrdered DEF Alone
<1>2. ASSUME NEW f \in Flushers, FlushCall(f)
      PROVE  FALSE
  BY <1>2 DEF FlushCall
<1>3. ASSUME NEW p \in Persisters, TakeStep(p), UNCHANGED chainVars
      PROVE  Alone' /\ (failed' = {} /\ ~disrupted' => Ordered')
  <2>1. TakeBatch(p)
    BY <1>3 DEF TakeStep, DrainTake, FlushTake
  <2>2. /\ UNCHANGED <<life, flushing, failed, alone, disrupted>>
        /\ \A q \in Persisters : q # p => hand'[q] = hand[q]
    BY <1>3, <2>1, TakeFacts DEF AsyncTypeOK, chainVars
  <2>3. Alone /\ (failed = {} /\ ~disrupted => Ordered)
    BY <2>2, OrderSplit
  <2>4. p = Drain
    BY <1>3, <2>3 DEF TakeStep, FlushTake, Alone
  <2>5. QED BY <1>3, <2>1, <2>2, <2>3, <2>4, TakeOrdered DEF Alone, chainVars
<1>4. ASSUME NEW p \in Persisters, Persist(p), UNCHANGED chainVars
      PROVE  Alone' /\ (failed' = {} /\ ~disrupted' => Ordered')
  <2>1. /\ UNCHANGED <<life, flushing, alone, disrupted>>
        /\ hand[p] # <<>>
        /\ \A q \in Persisters : q # p => hand'[q] = hand[q]
        /\ failed \subseteq failed'
    BY <1>4, PersistFacts DEF AsyncTypeOK, chainVars
  <2>2. Alone /\ (failed = {} /\ ~disrupted => Ordered)
    BY <2>1, OrderSplit
  <2>3. p = Drain
    BY <2>1, <2>2 DEF Alone
  <2>4. failed' = {} /\ ~disrupted' => Ordered'
    BY <1>4, <2>1, <2>2, <2>3, PersistOrdered DEF chainVars
  <2>5. QED BY <2>1, <2>2, <2>3, <2>4 DEF Alone
<1>5. ASSUME NEW p \in Persisters, FlushReturn(p)
      PROVE  FALSE
  <2>1. alone /\ p \in flushing
    BY <1>5 DEF FlushReturn
  <2>2. QED BY <2>1, OrderSplit DEF Alone
<1>6. ASSUME Stop
      PROVE  FALSE
  BY <1>6 DEF Stop
<1>7. ASSUME Restart
      PROVE  Alone' /\ (failed' = {} /\ ~disrupted' => Ordered')
  <2>1. /\ UNCHANGED <<alone, failed>> /\ life' = "running" /\ flushing' = {}
        /\ hand' = [p \in Persisters |-> <<>>]
    BY <1>7 DEF Restart
  <2>4. disrupted' \in {disrupted, TRUE}
    BY <1>7 DEF Restart
  <2>2. Alone /\ (failed = {} /\ ~disrupted => Ordered)
    BY <2>1, OrderSplit
  <2>3. QED BY <1>7, <2>1, <2>2, <2>4, RestartOrdered DEF Alone
<1>8. ASSUME LandLate
      PROVE  Alone' /\ (failed' = {} /\ ~disrupted' => Ordered')
  <2>1. /\ UNCHANGED <<life, queue, hand, flushing, failed, alone, chain, receipt>>
        /\ ~ disrupted' => ~ disrupted
    BY <1>8 DEF LandLate
  <2>2. Alone /\ (failed = {} /\ ~disrupted => Ordered)
    BY <2>1, OrderSplit
  <2>3. PICK item \in wire : applied' = applied \union {item} /\ (disrupted \/ item.kind = "receipt" <=> disrupted')
    BY <1>8 DEF LandLate, Apply
  <2>4. ASSUME ~ disrupted' PROVE Stored(applied') = Stored(applied)
    <3>1. item.kind # "receipt"
      BY <2>3, <2>4
    <3>2. QED BY <2>3, <3>1 DEF Stored
  <2>5. ASSUME ~ disrupted' PROVE UNCHANGED <<Kept, Pending>>
    BY <2>1, <2>4, <2>5 DEF Kept, Pending
  <2>6. QED BY <2>1, <2>2, <2>4, <2>5 DEF Alone, Ordered
<1>9. ASSUME UNCHANGED vars
      PROVE  Alone' /\ (failed' = {} /\ ~disrupted' => Ordered')
  <2>1. UNCHANGED <<life, queue, hand, flushing, failed, applied, alone, chain, receipt, disrupted>>
    BY <1>9 DEF vars, bufferVars
  <2>2. Alone /\ (failed = {} /\ ~disrupted => Ordered)
    BY <2>1, OrderSplit
  <2>3. UNCHANGED <<Kept, Pending>>
    BY <2>1 DEF Kept, Pending
  <2>4. QED BY <2>1, <2>2, <2>3 DEF Alone, Ordered
<1>10. QED BY <1>1, <1>2, <1>3, <1>4, <1>5, <1>6, <1>7, <1>8, <1>9, StepCases

LEMMA PairsStep ==
  ASSUME AsyncTypeOK, PairsInv, [AsyncNext]_vars
  PROVE  PairsInv'
<1>1. ASSUME NEW r \in Requests, Authorize(r)
      PROVE  PairsInv'
  <2>1. enqueued \in Seq(Items) /\ enqueued' = enqueued \o Evidence(r)
    BY <1>1 DEF Authorize, Enqueue, AsyncTypeOK, TypeOK
  <2>2. PICK n \in Nat : n = Len(enqueued)
    BY <2>1, SeqFacts
  <2>3. Len(enqueued') = n + 3 /\ \A i \in 1 .. 3 : enqueued'[n + i] = Evidence(r)[i]
    BY <2>1, <2>2, AppendEvidence
  <2>4. enqueued'[n + 2] = Evidence(r)[2] /\ enqueued'[n + 3] = Evidence(r)[3]
    BY <2>3
  <2>5. /\ enqueued'[n + 2] = [kind |-> "stats", req |-> r]
        /\ enqueued'[n + 3] = [kind |-> "rate_limits", req |-> r]
    BY <2>4, EvidenceFacts
  <2>6. Len(enqueued') - 1 = n + 2 /\ Len(enqueued') = n + 3 /\ n + 3 >= 2
    BY <2>3
  <2>7. QED BY <2>5, <2>6 DEF PairsInv
<1>2. ASSUME UNCHANGED enqueued
      PROVE  PairsInv'
  BY <1>2 DEF PairsInv
<1>3. QED BY <1>1, <1>2, ChainFrame

\* The next item was persisted: its statistics are the last ones now.
LEMMA NextStats ==
  ASSUME NEW e, NEW n \in Nat, NEW doc, NEW new, LastStats(e, n, doc),
         new = IF e[n + 1].kind = "stats" THEN <<e[n + 1].req>> ELSE doc
  PROVE  LastStats(e, n + 1, new)
<1>1. ASSUME NEW i \in 1 .. n + 1, e[i].kind = "stats",
             \A j \in i + 1 .. n + 1 : e[j].kind # "stats"
      PROVE  new = <<e[i].req>>
  <2>1. CASE i = n + 1
    BY <1>1, <2>1
  <2>2. CASE i \in 1 .. n
    <3>1. n + 1 \in i + 1 .. n + 1 /\ \A j \in i + 1 .. n : j \in i + 1 .. n + 1
      BY <2>2
    <3>2. new = doc
      BY <1>1, <3>1
    <3>3. doc = <<e[i].req>>
      BY <1>1, <2>2, <3>1 DEF LastStats
    <3>4. QED BY <3>2, <3>3
  <2>3. QED BY <2>1, <2>2
<1>2. QED BY <1>1 DEF LastStats

LEMMA AuthorizeAligned ==
  ASSUME AsyncTypeOK, Aligned, NEW r \in Requests, Enqueue(r)
  PROVE  Aligned'
<1>1. /\ queue' = queue \o Evidence(r) /\ enqueued' = enqueued \o Evidence(r)
      /\ UNCHANGED <<hand, statsDoc>>
  BY DEF Enqueue
<1>2. queue \in Seq(Items) /\ enqueued \in Seq(Items) /\ hand[Drain] \in Seq(Items)
  BY Constants DEF AsyncTypeOK, TypeOK
<1>3. PICK q \in Nat, e \in Nat, h \in Nat : q = Len(queue) /\ e = Len(enqueued) /\ h = Len(hand[Drain])
  BY <1>2, SeqFacts
<1>4. /\ Len(queue') = q + 3 /\ \A i \in 1 .. q : queue'[i] = queue[i]
      /\ \A i \in 1 .. 3 : queue'[q + i] = Evidence(r)[i]
  BY <1>1, <1>2, <1>3, AppendEvidence
<1>5. /\ Len(enqueued') = e + 3 /\ \A i \in 1 .. e : enqueued'[i] = enqueued[i]
      /\ \A i \in 1 .. 3 : enqueued'[e + i] = Evidence(r)[i]
  BY <1>1, <1>2, <1>3, AppendEvidence
<1>6. /\ Done = e - h - q /\ Done' = (e + 3) - h - (q + 3)
      /\ Done >= 0
  BY <1>1, <1>3, <1>4, <1>5 DEF Done, Aligned
<1>7. PICK d \in Nat : d = e - h - q
  BY <1>6
<1>8. d + h + q = e /\ (e + 3) - h - (q + 3) = d
  BY <1>7
<1>9. Done = d /\ Done' = d
  BY <1>6, <1>7, <1>8
<1>10. /\ \A i \in 1 .. h : hand[Drain][i] = enqueued[d + i]
       /\ \A i \in 1 .. q : queue[i] = enqueued[d + h + i]
       /\ LastStats(enqueued, d, statsDoc)
  BY <1>3, <1>9 DEF Aligned
<1>11. ASSUME NEW i \in 1 .. h
      PROVE  hand'[Drain][i] = enqueued'[d + i]
  <2>1. d + i \in 1 .. e
    BY <1>8
  <2>2. hand[Drain][i] = enqueued[d + i]
    BY <1>10
  <2>3. QED BY <2>1, <2>2, <1>1, <1>5
<1>12. ASSUME NEW i \in 1 .. q + 3
      PROVE  queue'[i] = enqueued'[d + h + i]
  <2>1. CASE i \in 1 .. q
    <3>1. d + h + i \in 1 .. e
      BY <1>8, <2>1
    <3>2. queue[i] = enqueued[d + h + i]
      BY <1>10, <2>1
    <3>3. QED BY <2>1, <3>1, <3>2, <1>4, <1>5
  <2>2. CASE i \notin 1 .. q
    <3>1. PICK k \in 1 .. 3 : i = q + k
      <4>1. i - q \in 1 .. 3 /\ i = q + (i - q)
        BY <2>2
      <4>2. QED BY <4>1
    <3>2. d + h + i = e + k
      BY <3>1, <1>8
    <3>3. QED BY <3>1, <3>2, <1>4, <1>5
  <2>3. QED BY <2>1, <2>2
<1>13. LastStats(enqueued', d, statsDoc')
  <2>1. \A i \in 1 .. d : enqueued'[i] = enqueued[i]
    <3>1. \A i \in 1 .. d : i \in 1 .. e
      BY <1>8
    <3>2. QED BY <3>1, <1>5
  <2>2. \A i \in 1 .. d : \A j \in i + 1 .. d : j \in 1 .. d
    OBVIOUS
  <2>3. QED BY <2>1, <2>2, <1>1, <1>10 DEF LastStats
<1>14. d >= 0 /\ Len(hand'[Drain]) = h
  BY <1>1, <1>3
<1>15. QED BY <1>4, <1>9, <1>11, <1>12, <1>13, <1>14 DEF Aligned

LEMMA TakeAligned ==
  ASSUME AsyncTypeOK, Aligned, TakeBatch(Drain)
  PROVE  Aligned'
<1>1. PICK n \in 1 .. Len(queue) :
        /\ Len(hand'[Drain]) = n /\ Len(queue') = Len(queue) - n
        /\ \A i \in 1 .. n : hand'[Drain][i] = queue[i]
        /\ \A i \in 1 .. Len(queue) - n : queue'[i] = queue[n + i]
  BY TakeFacts, Constants DEF AsyncTypeOK
<1>2. hand[Drain] = <<>> /\ UNCHANGED <<enqueued, statsDoc>>
  BY TakeFacts, Constants DEF AsyncTypeOK
<1>3. PICK q \in Nat, e \in Nat : q = Len(queue) /\ e = Len(enqueued)
  BY SeqFacts DEF AsyncTypeOK, TypeOK
<1>4. Len(hand[Drain]) = 0
  BY <1>2, EmptySeq
<1>5. PICK d \in Nat : d = Done /\ d = Done'
  <2>1. Done = e - 0 - q /\ Done' = e - n - (q - n) /\ Done >= 0
    BY <1>1, <1>2, <1>3, <1>4 DEF Done, Aligned
  <2>2. QED BY <2>1, <1>3
<1>6. \A i \in 1 .. q : queue[i] = enqueued[d + i]
  <2>1. \A i \in 1 .. q : queue[i] = enqueued[d + 0 + i]
    BY <1>3, <1>4, <1>5 DEF Aligned
  <2>2. \A i \in 1 .. q : d + 0 + i = d + i
    OBVIOUS
  <2>3. QED BY <2>1, <2>2
<1>7. \A i \in 1 .. n : i \in 1 .. q
  BY <1>3
<1>8. \A i \in 1 .. n : hand'[Drain][i] = enqueued[d + i]
  BY <1>1, <1>6, <1>7
<1>9. ASSUME NEW i \in 1 .. q - n
      PROVE  queue'[i] = enqueued[d + n + i]
  <2>1. n + i \in 1 .. q /\ d + (n + i) = d + n + i
    BY <1>3
  <2>2. queue'[i] = queue[n + i]
    BY <1>1, <1>3
  <2>3. QED BY <2>1, <2>2, <1>6
<1>10. LastStats(enqueued', Done', statsDoc')
  BY <1>2, <1>5 DEF Aligned
<1>11. QED BY <1>1, <1>2, <1>3, <1>5, <1>8, <1>9, <1>10 DEF Aligned

LEMMA PersistAligned ==
  ASSUME AsyncTypeOK, Aligned, Persist(Drain), failed' = {}
  PROVE  Aligned'
<1>1. /\ Len(hand[Drain]) \in Nat /\ Len(hand[Drain]) >= 1
      /\ Len(hand'[Drain]) = Len(hand[Drain]) - 1
      /\ \A i \in 1 .. Len(hand[Drain]) - 1 : hand'[Drain][i] = hand[Drain][i + 1]
      /\ UNCHANGED <<queue, enqueued>>
      /\ Apply(hand[Drain][1])
  BY PersistFacts, Constants DEF AsyncTypeOK
<1>2. PICK q \in Nat, e \in Nat, h \in Nat :
        q = Len(queue) /\ e = Len(enqueued) /\ h = Len(hand[Drain]) /\ h >= 1
  BY <1>1, SeqFacts DEF AsyncTypeOK, TypeOK
<1>3. PICK d \in Nat : d = Done /\ d + 1 = Done'
  <2>1. Done = e - h - q /\ Done' = e - (h - 1) - q /\ Done >= 0
    BY <1>1, <1>2 DEF Done, Aligned
  <2>2. PICK d \in Nat : d = e - h - q
    BY <2>1
  <2>3. d + 1 = e - (h - 1) - q
    BY <2>2
  <2>4. QED BY <2>1, <2>2, <2>3
<1>4. /\ \A i \in 1 .. h : hand[Drain][i] = enqueued[d + i]
      /\ \A i \in 1 .. q : queue[i] = enqueued[d + h + i]
      /\ LastStats(enqueued, d, statsDoc)
  BY <1>2, <1>3 DEF Aligned
<1>5. ASSUME NEW i \in 1 .. h - 1
      PROVE  hand'[Drain][i] = enqueued[d + 1 + i]
  <2>1. i + 1 \in 1 .. h /\ d + (i + 1) = d + 1 + i
    BY <1>2
  <2>2. hand'[Drain][i] = hand[Drain][i + 1]
    BY <1>1, <1>2
  <2>3. QED BY <2>1, <2>2, <1>4
<1>6. ASSUME NEW i \in 1 .. q
      PROVE  queue'[i] = enqueued[d + 1 + (h - 1) + i]
  <2>1. d + 1 + (h - 1) + i = d + h + i
    OBVIOUS
  <2>2. QED BY <2>1, <1>1, <1>4
<1>7. LastStats(enqueued, d + 1, statsDoc')
  <2>1. 1 \in 1 .. h
    BY <1>2
  <2>2. hand[Drain][1] = enqueued[d + 1]
    BY <2>1, <1>4
  <2>3. statsDoc' = IF enqueued[d + 1].kind = "stats" THEN <<enqueued[d + 1].req>> ELSE statsDoc
    BY <2>2, <1>1 DEF Apply
  <2>4. QED BY <2>3, <1>3, <1>4, NextStats
<1>8. d + 1 >= 0 /\ Len(hand'[Drain]) = h - 1 /\ Len(queue') = q
  BY <1>1, <1>2
<1>9. enqueued' = enqueued /\ Done' = d + 1
  BY <1>1, <1>3
<1>10. Done' >= 0 /\ LastStats(enqueued', Done', statsDoc')
  BY <1>7, <1>8, <1>9
<1>11. \A i \in 1 .. Len(hand'[Drain]) : hand'[Drain][i] = enqueued'[Done' + i]
  BY <1>5, <1>8, <1>9
<1>12. \A i \in 1 .. Len(queue') : queue'[i] = enqueued'[Done' + Len(hand'[Drain]) + i]
  BY <1>6, <1>8, <1>9
<1>13. QED BY <1>10, <1>11, <1>12 DEF Aligned

\* A restart that loses nothing finds the queue and the hands empty.
LEMMA RestartKeepsAll ==
  ASSUME AsyncTypeOK, AsyncTypeOK', PlacesInv, Restart, lost' = {}
  PROVE  /\ lost = {} /\ UNCHANGED <<enqueued, statsDoc, failed, alone>>
         /\ queue = <<>> /\ queue' = <<>> /\ hand[Drain] = <<>> /\ hand'[Drain] = <<>>
<1>1. /\ lost' = Enqueued \ Settled
      /\ UNCHANGED <<enqueued, failed, alone>>
      /\ queue' = <<>> /\ hand' = [p \in Persisters |-> <<>>]
  BY DEF Restart
<1>2. Enqueued \subseteq Settled
  BY <1>1
<1>3. lost = {} /\ InQueue = {} /\ \A p \in Persisters : HeldBy(p) = {}
  BY <1>2 DEF PlacesInv
<1>4. \A s \in Seq(Items) : Elems(s) = {} => s = <<>>
  <2>1. TAKE s \in Seq(Items)
  <2>2. Len(s) \in Nat /\ (s = <<>> <=> Len(s) = 0)
    BY SeqFacts
  <2>3. s # <<>> => 1 \in 1 .. Len(s)
    BY <2>2
  <2>4. QED BY <2>3 DEF Elems
<1>5. queue = <<>> /\ \A p \in Persisters : hand[p] = <<>>
  BY <1>3, <1>4, Places DEF HeldBy, AsyncTypeOK, TypeOK
<1>6. InFlightItems = {}
  BY <1>5 DEF InFlightItems
<1>7. statsDoc' = statsDoc
  BY <1>6 DEF Restart
<1>8. QED BY <1>1, <1>3, <1>5, <1>7, Constants

LEMMA AlignedStep ==
  ASSUME AsyncTypeOK, AsyncTypeOK', PlacesInv, WireInv, OrderInv, StatsInv, [AsyncNext]_vars,
         alone', failed' = {}, lost' = {}
  PROVE  Aligned'
<1>1. ASSUME NEW r \in Requests, Authorize(r)
      PROVE  Aligned'
  <2>1. Enqueue(r) /\ UNCHANGED <<failed, lost, alone>>
    BY <1>1 DEF Authorize, Enqueue
  <2>2. Aligned
    BY <2>1 DEF StatsInv
  <2>3. QED BY <2>1, <2>2, AuthorizeAligned
<1>2. ASSUME NEW f \in Flushers, FlushCall(f)
      PROVE  FALSE
  BY <1>2 DEF FlushCall
<1>3. ASSUME NEW p \in Persisters, TakeStep(p)
      PROVE  Aligned'
  <2>1. TakeBatch(p)
    BY <1>3 DEF TakeStep, DrainTake, FlushTake
  <2>2. UNCHANGED <<failed, lost, alone, flushing>>
    BY <2>1, TakeFacts DEF AsyncTypeOK
  <2>3. p = Drain
    BY <1>3, <2>2, OrderSplit DEF TakeStep, FlushTake, Alone
  <2>4. Aligned
    BY <2>2 DEF StatsInv
  <2>5. QED BY <2>1, <2>3, <2>4, TakeAligned
<1>4. ASSUME NEW p \in Persisters, Persist(p)
      PROVE  Aligned'
  <2>1. hand[p] # <<>> /\ UNCHANGED <<lost, alone>> /\ failed \subseteq failed'
    BY <1>4, PersistFacts DEF AsyncTypeOK
  <2>2. p = Drain
    BY <2>1, OrderSplit DEF Alone
  <2>3. Aligned
    BY <2>1 DEF StatsInv
  <2>4. QED BY <1>4, <2>2, <2>3, PersistAligned
<1>5. ASSUME NEW p \in Persisters, FlushReturn(p)
      PROVE  FALSE
  <2>1. alone /\ p \in flushing
    BY <1>5 DEF FlushReturn
  <2>2. QED BY <2>1, OrderSplit DEF Alone
<1>6. ASSUME Stop
      PROVE  FALSE
  BY <1>6 DEF Stop
<1>7. ASSUME Restart
      PROVE  Aligned'
  <2>1. /\ lost = {} /\ UNCHANGED <<enqueued, statsDoc, failed, alone>>
        /\ queue = <<>> /\ queue' = <<>> /\ hand[Drain] = <<>> /\ hand'[Drain] = <<>>
    BY <1>7, RestartKeepsAll
  <2>2. Aligned
    BY <2>1 DEF StatsInv
  <2>3. Done' = Done
    BY <2>1 DEF Done
  <2>4. QED BY <2>1, <2>2, <2>3 DEF Aligned
<1>8. ASSUME LandLate
      PROVE  FALSE
  BY <1>8 DEF LandLate, WireInv
<1>9. ASSUME UNCHANGED vars
      PROVE  Aligned'
  <2>1. UNCHANGED <<queue, hand, enqueued, statsDoc, failed, lost, alone>>
    BY <1>9 DEF vars, bufferVars
  <2>2. Done' = Done
    BY <2>1 DEF Done
  <2>3. QED BY <2>1, <2>2 DEF StatsInv, Aligned
<1>10. QED BY <1>1, <1>2, <1>3, <1>4, <1>5, <1>6, <1>7, <1>8, <1>9, StepCases

LEMMA ChainInvariant == AsyncSpec => [](BufferInv /\ ChainInv)
<1>1. AsyncInit => ChainInv
  <2> SUFFICES ASSUME AsyncInit
               PROVE  ChainInv
    OBVIOUS
  <2>1. AsyncTypeOK
    BY InitType
  <2>2. /\ queue = <<>> /\ enqueued = <<>> /\ \A p \in Persisters : hand[p] = <<>>
        /\ failed = {} /\ applied = {} /\ life = "running" /\ flushing = {}
        /\ chain = FreshChain /\ receipt = [r \in Requests |-> FreshChain]
    BY DEF AsyncInit, Init
  <2>3. Enqueued = {} /\ hand[Drain] = <<>>
    BY <2>1, <2>2, Constants, Places, ElemsOfEmpty DEF AsyncTypeOK
  <2>4. \A r \in Requests : ~ SignedAt(receipt, r)
    BY <2>2 DEF SignedAt, FreshChain
  <2>5. LinkInv
    BY <2>2, <2>3, <2>4 DEF LinkInv
  <2>6. /\ InOrder(receipt, <<>>) /\ Waiting(<<>>) = {} /\ Stored({}) = {}
    BY OrderOfEmpty, StoredFacts
  <2>7. Kept = {} /\ Pending = {}
    BY <2>2, <2>3, <2>6 DEF Kept, Pending
  <2>8. Ordered
    BY <2>2, <2>3, <2>6, <2>7 DEF Ordered, Below, OneEach, LinkedIn
  <2>9. OrderInv
    BY <2>2, <2>8, OrderSplit DEF Alone
  <2>10. Len(hand[Drain]) = 0 /\ Len(queue) = 0 /\ Len(enqueued) = 0
    BY <2>2, <2>3, EmptySeq
  <2>11. Done = 0 /\ Len(hand[Drain]) = 0 /\ Len(queue) = 0
    BY <2>10 DEF Done
  <2>12. StatsInv
    BY <2>2, <2>11 DEF StatsInv, PairsInv, Aligned, LastStats
  <2>13. QED BY <2>1, <2>5, <2>9, <2>12 DEF ChainInv
<1>2. BufferInv /\ BufferInv' /\ ChainInv /\ [AsyncNext]_vars => ChainInv'
  <2> SUFFICES ASSUME BufferInv, ChainInv, [AsyncNext]_vars
               PROVE  ChainInv'
    OBVIOUS
  <2>1. AsyncTypeOK /\ AsyncTypeOK' /\ PlacesInv /\ WireInv /\ LinkInv /\ OrderInv /\ StatsInv
    BY TypeStep DEF BufferInv, ChainInv
  <2>2. LinkInv' /\ OrderInv' /\ PairsInv'
    BY <2>1, LinkStep, OrderStep, PairsStep DEF StatsInv
  <2>3. alone' /\ failed' = {} /\ lost' = {} => Aligned'
    BY <2>1, AlignedStep
  <2>4. QED BY <2>1, <2>2, <2>3 DEF ChainInv, StatsInv
<1>3. QED BY <1>1, <1>2, BufferInvariant, PTL DEF AsyncSpec

\* The stored receipts resume into one chain, and the statistics are the last.
LEMMA Resumes == BufferInv /\ ChainInv => StoredChainResumes
<1> SUFFICES ASSUME AsyncTypeOK, PlacesInv, LinkInv, OrderInv, StatsInv
             PROVE  StoredChainResumes
  BY DEF BufferInv, ChainInv
<1>1. StoredChainDense
  <2> SUFFICES ASSUME alone, failed = {}, ~ disrupted
               PROVE  /\ OneEach(receipt, Stored(applied))
                      /\ LinkedIn(receipt, Stored(applied))
    BY DEF StoredChainDense, OneEach, LinkedIn
  <2>1. Ordered
    BY OrderSplit
  <2>2. Stored(applied) \in SUBSET Requests /\ Pending \in SUBSET Requests
    BY StoredFacts DEF Pending, Waiting
  <2>3. LinkedIn(receipt, Stored(applied) \union Pending) /\ Below(receipt, Stored(applied), Pending)
    BY <2>1 DEF Ordered, Kept
  <2>4. receipt \in [Requests -> ChainHead]
    BY DEF AsyncTypeOK
  <2>5. LinkedIn(receipt, Stored(applied))
    BY <2>2, <2>3, <2>4, LinkedBelow
  <2>6. QED BY <2>1, <2>5 DEF Ordered
<1>2. StoredLinksSigned
  <2>1. ASSUME NEW r \in Stored(applied)
        PROVE  SignedAt(receipt, r) /\ r \in Requests
    <3>1. r \in Requests /\ [kind |-> "receipt", req |-> r] \in Enqueued
      BY <2>1 DEF Stored, PlacesInv
    <3>2. QED BY <3>1 DEF LinkInv
  <2>2. QED BY <2>1 DEF StoredLinksSigned, LinkInv
<1>3. ASSUME alone, InQueue \union InHand = {}, failed = {}, lost = {}, enqueued # <<>>
      PROVE  statsDoc = <<enqueued[Len(enqueued)].req>>
  <2>1. Aligned /\ PairsInv
    BY <1>3 DEF StatsInv
  <2>2. /\ queue \in Seq(Items) /\ hand[Drain] \in Seq(Items) /\ enqueued \in Seq(Items)
    BY Constants DEF AsyncTypeOK, TypeOK
  <2>3. Elems(queue) = {} /\ Elems(hand[Drain]) = {}
    BY <1>3, Places, Constants DEF AsyncTypeOK, HeldBy
  <2>4. Len(queue) = 0 /\ Len(hand[Drain]) = 0
    <3>1. \A s \in Seq(Items) : Elems(s) = {} => Len(s) = 0
      <4>1. TAKE s \in Seq(Items)
      <4>2. Len(s) \in Nat
        BY SeqFacts
      <4>3. Len(s) # 0 => 1 \in 1 .. Len(s)
        BY <4>2
      <4>4. QED BY <4>3 DEF Elems
    <3>2. QED BY <2>2, <2>3, <3>1
  <2>5. PICK n \in Nat : n = Len(enqueued) /\ n >= 2
    BY <1>3, <2>1, <2>2, SeqFacts DEF PairsInv
  <2>6. Done = n
    BY <2>4, <2>5 DEF Done
  <2>7. /\ enqueued[n - 1].kind = "stats" /\ enqueued[n].kind # "stats"
        /\ enqueued[n - 1].req = enqueued[n].req
    BY <1>3, <2>1, <2>5 DEF PairsInv
  <2>8. n - 1 \in 1 .. n /\ \A j \in (n - 1) + 1 .. n : j = n
    BY <2>5
  <2>9. LastStats(enqueued, n, statsDoc)
    BY <2>1, <2>6 DEF Aligned
  <2>10. statsDoc = <<enqueued[n - 1].req>>
    BY <2>7, <2>8, <2>9 DEF LastStats
  <2>11. QED BY <2>5, <2>7, <2>10
<1>4. QED BY <1>1, <1>2, <1>3 DEF StoredChainResumes, StatsDocCurrentAtRest

-----------------------------------------------------------------------------
\* Whatever a crash took, the receipts in Firestore link to receipts that were
\* signed; as long as the drain task alone persists and no write fails they are
\* one chain without a gap or a fork, however often the process restarts, unless a
\* start-up read fails or a dead process's receipt is applied after it; and at
\* rest the stored statistics are the last ones (AsyncGateway).
THEOREM ChainResumes == AsyncSpec => []StoredChainResumes
BY ChainInvariant, Resumes, PTL
=============================================================================
