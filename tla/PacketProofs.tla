----------------------------- MODULE PacketProofs -----------------------------
(***************************************************************************)
(* Proofs about Packet.tla: what leaves the gateway verifies when it       *)
(* should, no altered copy of a packet passes, and paging misses nothing;  *)
(* for any instances, keys, requests, filters and page size, and however   *)
(* often processes start, fail and fork the chain.                         *)
(***************************************************************************)
EXTENDS Packet, SequenceTheorems, FiniteSetTheorems, WellFoundedInduction, TLAPS

-----------------------------------------------------------------------------
(* The inductive invariant.                                                *)

\* What sign_decision makes of a body.
Receipt(b, kid, i, agent) ==
  [body |-> b, receipt_hash |-> Hash(b), agent |-> agent, by |-> i,
   sig |-> [kid |-> kid, alg |-> "EdDSA", value |-> <<kid, b>>]]

ReceiptsOver(bodies) ==
  {Receipt(b, kid, i, agent) :
     b \in bodies, kid \in ToSet(Kids), i \in Instances, agent \in {c.agent : c \in ToSet(Calls)}}

Genuine == ReceiptsOver(signed)

\* Bodies are numbered in the order they are signed, and each names a signed
\* predecessor one position below, or is at position 1.
SignedInv ==
  /\ IsFiniteSet(signed)
  /\ \A b \in signed :
       /\ b.request \in 1 .. Cardinality(signed)
       /\ b.seq \in Nat \ {0}
       /\ b.decision = Calls[b.request].decision
       /\ \/ b.prev_receipt = Genesis /\ b.seq = 1
          \/ \E c \in signed : b.prev_receipt = Hash(c) /\ b.seq = c.seq + 1
  /\ \A b, c \in signed : b.request = c.request => b = c
  /\ Cardinality(signed) <= Len(Calls)

Processes(bodies) ==
  [up : BOOLEAN, kid : ToSet(Kids) \union {Missing}, seq : Nat,
   prev : {Genesis} \union {Hash(b) : b \in bodies}, mine : Seq(ReceiptsOver(bodies)),
   read : {Missing} \union SUBSET ToSet(Kids)]

\* The head of a process is a signed body; what it signed itself ends there and
\* is linked without a gap, under one key.
InstanceInv(i) ==
  LET p == inst[i]
      n == Len(p.mine)
  IN /\ p \in Processes(signed)
     /\ p.up \/ p.read # Missing => p.kid \in ToSet(Kids)
     /\ p.prev = Genesis => p.seq = 0
     /\ p.prev # Genesis => \E b \in signed : p.prev = Hash(b) /\ p.seq = b.seq
     /\ n <= p.seq
     /\ n > 0 => p.prev = p.mine[n].receipt_hash
     /\ \A k \in 1 .. n :
          /\ p.mine[k].sig.kid = p.kid
          /\ p.mine[k].body.seq = p.seq - n + k
          /\ k > 1 => p.mine[k].body.prev_receipt = p.mine[k - 1].receipt_hash

\* Unless a start-up failed or two overlapped, a key is in the document before its
\* process serves, and what a starting process will write back holds the document.
KeysInv ==
  /\ keys \subseteq ToSet(Kids)
  /\ keyFault \in BOOLEAN
  /\ ~keyFault =>
       /\ \A r \in ToSet(stored) : r.by \in RestInstances => r.sig.kid \in keys
       /\ \A i \in RestInstances : Serving(i) => inst[i].kid \in keys
       /\ \A i \in Instances :
            inst[i].read # Missing => i \in RestInstances /\ keys \subseteq inst[i].read

PagedReads(bodies, receipts) ==
  [at : {"paging", "pages_read"}, after : Nat,
   got : SUBSET ReceiptsOver(bodies), base : SUBSET receipts]

\* A page leaves nothing behind its cursor, where no two receipts share a position.
JobInv ==
  /\ job.at \in {"none", "receipts", "proofs", "packet", "paging", "pages_read"}
  /\ job.at = "none" => job = NoJob
  /\ job.at \in {"receipts", "proofs", "packet"} =>
       /\ job.receipts \in Seq(Genuine)
       /\ job.by \in Instances
  /\ job.at = "packet" =>
       /\ "receipts" \in DOMAIN job
       /\ job.counts = CountsOf(job.receipts, job.anchor_proofs)
       /\ job.chain_integrity = ExportedIntegrity(job.receipts)
  /\ job.at \in {"paging", "pages_read"} =>
       /\ job \in PagedReads(signed, ToSet(stored))
       /\ (\A r, s \in ToSet(stored) : r.body.seq = s.body.seq => r = s) =>
            \A r \in job.base : r.body.seq <= job.after \/ job.at = "pages_read" => r \in job.got

PacketInv ==
  /\ SignedInv
  /\ DOMAIN inst = Instances
  /\ \A i \in Instances : InstanceInv(i)
  /\ stored \in Seq(Genuine)
  /\ KeysInv
  /\ JobInv

-----------------------------------------------------------------------------
(* Sorting.                                                                *)

\* A set of natural numbers that is not empty has a least element.
LEMMA LeastNatural ==
  ASSUME NEW T \in SUBSET Nat, T # {}
  PROVE  \E x \in T : \A y \in T : x <= y
<1>1. PICK n \in T : TRUE
  OBVIOUS
<1> DEFINE S == 0 .. n
           F == {U \in SUBSET S : \E m \in T : U = 0 .. m}
<1>2. n \in Nat /\ IsFiniteSet(S)
  BY FS_Interval
<1>3. IsWellFoundedOn(StrictSubsetOrdering(S), SUBSET S)
  BY <1>2, FS_StrictSubsetOrderingWellFounded, FS_FiniteSubsetsOfFinite
<1>4. F \subseteq SUBSET S /\ F # {}
  BY <1>1
<1>5. PICK U \in F : \A V \in F : <<V, U>> \notin StrictSubsetOrdering(S)
  <2> HIDE DEF S, F
  <2>1. QED BY <1>3, <1>4, WFMin
<1>6. PICK m \in T : U = 0 .. m
  OBVIOUS
<1>7. m \in Nat /\ m <= n
  BY <1>2, <1>6
<1>8. ASSUME NEW y \in T, ~(m <= y) PROVE FALSE
  <2>1. y \in Nat /\ 0 .. y \subseteq 0 .. m /\ 0 .. y # 0 .. m /\ 0 .. y \subseteq S
    BY <1>7, <1>8
  <2>2. 0 .. y \in F
    BY <2>1
  <2>3. U \in SUBSET S
    OBVIOUS
  <2>4. <<0 .. y, U>> \in StrictSubsetOrdering(S)
    BY <1>6, <2>1, <2>3 DEF StrictSubsetOrdering
  <2>5. QED BY <1>5, <2>2, <2>4
<1>9. QED BY <1>8

Rank(I, R) == [i \in I |-> Cardinality({j \in I : <<j, i>> \in R}) + 1]

\* The rank of an element of a finite total order, its number of predecessors
\* plus one, numbers the elements in that order.
LEMMA Ranks ==
  ASSUME NEW I, NEW R, IsFiniteSet(I),
         \A i, j \in I : <<i, j>> \in R => <<j, i>> \notin R,
         \A i, j, k \in I : <<i, j>> \in R /\ <<j, k>> \in R => <<i, k>> \in R,
         \A i, j \in I : i = j \/ <<i, j>> \in R \/ <<j, i>> \in R
  PROVE  /\ Rank(I, R) \in Bijection(I, 1 .. Cardinality(I))
         /\ \A i, j \in I : <<i, j>> \in R => Rank(I, R)[i] < Rank(I, R)[j]
<1> DEFINE B(i) == {j \in I : <<j, i>> \in R}
           rank == Rank(I, R)
<1>1. \A i \in I : IsFiniteSet(B(i)) /\ Cardinality(B(i)) \in Nat /\ Cardinality(B(i)) < Cardinality(I)
  <2>1. SUFFICES ASSUME NEW i \in I
                 PROVE  IsFiniteSet(B(i)) /\ Cardinality(B(i)) \in Nat /\ Cardinality(B(i)) < Cardinality(I)
    OBVIOUS
  <2>2. B(i) \subseteq I /\ B(i) # I
    OBVIOUS
  <2> HIDE DEF B
  <2>3. IsFiniteSet(B(i)) /\ Cardinality(B(i)) \in Nat /\ Cardinality(I) \in Nat
        /\ Cardinality(B(i)) <= Cardinality(I) /\ Cardinality(B(i)) # Cardinality(I)
    BY <2>2, FS_Subset, FS_CardinalityType
  <2>4. QED BY <2>3
<1>2. rank = [i \in I |-> Cardinality(B(i)) + 1]
  BY DEF Rank
<1> HIDE DEF rank
<1>3. Cardinality(I) \in Nat
  BY FS_CardinalityType
<1>4. rank \in [I -> 1 .. Cardinality(I)]
  <2>1. \A i \in I : Cardinality(B(i)) + 1 \in 1 .. Cardinality(I)
    <3> HIDE DEF B
    <3>1. QED BY <1>1, <1>3
  <2>2. QED BY <1>2, <2>1
<1>5. \A i, j \in I : <<i, j>> \in R => rank[i] < rank[j]
  <2>1. SUFFICES ASSUME NEW i \in I, NEW j \in I, <<i, j>> \in R
                 PROVE  rank[i] < rank[j]
    OBVIOUS
  <2>2. B(i) \subseteq B(j) /\ i \in B(j) /\ i \notin B(i)
    BY <2>1
  <2>3. IsFiniteSet(B(j)) /\ Cardinality(B(i)) \in Nat /\ Cardinality(B(j)) \in Nat
    BY <1>1
  <2>4. rank[i] = Cardinality(B(i)) + 1 /\ rank[j] = Cardinality(B(j)) + 1
    BY <1>2
  <2> HIDE DEF B
  <2>5. Cardinality(B(i)) <= Cardinality(B(j)) /\ Cardinality(B(i)) # Cardinality(B(j))
    BY <2>2, <2>3, FS_Subset
  <2>6. QED BY <2>3, <2>4, <2>5
<1>6. rank \in Injection(I, 1 .. Cardinality(I))
  <2>1. ASSUME NEW i \in I, NEW j \in I, rank[i] = rank[j] PROVE i = j
    <3>1. rank[i] \in Int /\ rank[j] \in Int
      BY <1>4
    <3>2. <<i, j>> \notin R
      BY <1>5, <2>1, <3>1
    <3>3. <<j, i>> \notin R
      BY <1>5, <2>1, <3>1
    <3>4. QED BY <3>2, <3>3
  <2>2. QED BY <1>4, <2>1 DEF Injection, IsInjective
<1>7. IsFiniteSet(1 .. Cardinality(I)) /\ Cardinality(1 .. Cardinality(I)) = Cardinality(I)
  BY <1>3, FS_Interval
<1>8. rank \in Surjection(I, 1 .. Cardinality(I))
  BY <1>6, <1>7, FS_Injection
<1>9. QED BY <1>5, <1>6, <1>8 DEF Bijection, rank

\* InOrder picks the positions one by one, in the order of Before.
LEMMA Arranged ==
  ASSUME NEW rs, NEW I, IsFiniteSet(I), I \subseteq Nat,
         \A i \in I : rs[i].body.seq \in Nat
  PROVE  \E at \in Bijection(1 .. Cardinality(I), I) :
           /\ InOrder(rs, I) = [n \in 1 .. Cardinality(I) |-> rs[at[n]]]
           /\ \A m, n \in 1 .. Cardinality(I) : m < n => Before(rs, at[m], at[n])
<1> DEFINE N == Cardinality(I)
           P(i) == {j \in I : Before(rs, j, i)}
           R == {p \in I \X I : Before(rs, p[1], p[2])}
           rank == Rank(I, R)
           at == [n \in 1 .. N |-> CHOOSE i \in I : Cardinality(P(i)) = n - 1]
<1>1. \A i, j \in I : <<i, j>> \in R <=> Before(rs, i, j)
  OBVIOUS
<1>2. \A i \in I : {j \in I : <<j, i>> \in R} = P(i)
  BY <1>1
<1>3. /\ \A i, j \in I : Before(rs, i, j) => ~Before(rs, j, i)
      /\ \A i, j, k \in I : Before(rs, i, j) /\ Before(rs, j, k) => Before(rs, i, k)
      /\ \A i, j \in I : i = j \/ Before(rs, i, j) \/ Before(rs, j, i)
  BY DEF Before
<1> HIDE DEF R
<1>4. /\ rank \in Bijection(I, 1 .. N)
      /\ \A i, j \in I : Before(rs, i, j) => rank[i] < rank[j]
  <2> HIDE DEF rank
  <2>1. /\ \A i, j \in I : <<i, j>> \in R => <<j, i>> \notin R
        /\ \A i, j, k \in I : <<i, j>> \in R /\ <<j, k>> \in R => <<i, k>> \in R
        /\ \A i, j \in I : i = j \/ <<i, j>> \in R \/ <<j, i>> \in R
    BY <1>1, <1>3
  <2>2. /\ rank \in Bijection(I, 1 .. N)
        /\ \A i, j \in I : <<i, j>> \in R => rank[i] < rank[j]
    BY <2>1, Ranks DEF rank, N
  <2>3. QED BY <2>2, <1>1
<1>5. \A i \in I : rank[i] = Cardinality(P(i)) + 1
  BY <1>2 DEF Rank
<1>6. \A i \in I : P(i) \subseteq I /\ Cardinality(P(i)) \in Nat
  <2>1. \A i \in I : P(i) \subseteq I
    OBVIOUS
  <2> HIDE DEF P
  <2>2. QED BY <2>1, FS_Subset, FS_CardinalityType
<1>7. N \in Nat
  BY FS_CardinalityType
<1> HIDE DEF rank, P, N
<1>8. \A n \in 1 .. N : at[n] \in I /\ rank[at[n]] = n
  <2>1. TAKE n \in 1 .. N
  <2>2. PICK i \in I : rank[i] = n
    BY <1>4 DEF Bijection, Surjection
  <2>3. Cardinality(P(i)) = n - 1
    BY <1>5, <1>6, <1>7, <2>2
  <2>4. at[n] \in I /\ Cardinality(P(at[n])) = n - 1
    BY <2>3
  <2>5. QED BY <1>5, <1>6, <1>7, <2>4
<1>9. \A i, j \in I : rank[i] = rank[j] => i = j
  BY <1>4 DEF Bijection, Injection, IsInjective
<1>10. at \in [1 .. N -> I]
  BY <1>8
<1>11. InOrder(rs, I) = [n \in 1 .. N |-> rs[at[n]]]
  BY DEF InOrder, N, P
<1> HIDE DEF at
<1>12. at \in Bijection(1 .. N, I)
  <2>1. \A m, n \in 1 .. N : at[m] = at[n] => m = n
    BY <1>8
  <2>2. \A i \in I : \E n \in 1 .. N : at[n] = i
    <3>1. TAKE i \in I
    <3>2. rank[i] \in 1 .. N
      BY <1>4 DEF Bijection, Surjection
    <3>3. QED BY <1>8, <1>9, <3>2
  <2>3. QED BY <1>10, <2>1, <2>2 DEF Bijection, Injection, Surjection, IsInjective
<1>13. \A m, n \in 1 .. N : m < n => Before(rs, at[m], at[n])
  <2>1. SUFFICES ASSUME NEW m \in 1 .. N, NEW n \in 1 .. N, m < n
                 PROVE  Before(rs, at[m], at[n])
    OBVIOUS
  <2>2. at[m] \in I /\ at[n] \in I /\ rank[at[m]] = m /\ rank[at[n]] = n
    BY <1>8
  <2>3. at[m] # at[n]
    BY <2>1, <2>2
  <2>4. Before(rs, at[n], at[m]) => n < m
    BY <1>4, <2>2
  <2>5. ~Before(rs, at[n], at[m])
    BY <1>7, <2>1, <2>4
  <2>6. QED BY <1>3, <2>2, <2>3, <2>5
<1>14. QED BY <1>11, <1>12, <1>13 DEF N

\* The selected receipts, all of them and no others, by increasing position.
LEMMA InOrderFacts ==
  ASSUME NEW S, NEW rs \in Seq(S), NEW I, I \subseteq DOMAIN rs,
         \A i \in I : rs[i].body.seq \in Nat
  PROVE  /\ InOrder(rs, I) \in Seq(S)
         /\ IsFiniteSet(I)
         /\ Len(InOrder(rs, I)) = Cardinality(I)
         /\ ToSet(InOrder(rs, I)) = {rs[i] : i \in I}
         /\ \A m, n \in 1 .. Len(InOrder(rs, I)) :
              m <= n => InOrder(rs, I)[m].body.seq <= InOrder(rs, I)[n].body.seq
<1>1. IsFiniteSet(I) /\ I \subseteq Nat
  <2>1. DOMAIN rs = 1 .. Len(rs) /\ Len(rs) \in Nat
    OBVIOUS
  <2>2. IsFiniteSet(1 .. Len(rs))
    BY <2>1, FS_Interval
  <2>3. QED BY <2>1, <2>2, FS_Subset
<1>2. Cardinality(I) \in Nat
  BY <1>1, FS_CardinalityType
<1>3. PICK at \in Bijection(1 .. Cardinality(I), I) :
        /\ InOrder(rs, I) = [n \in 1 .. Cardinality(I) |-> rs[at[n]]]
        /\ \A m, n \in 1 .. Cardinality(I) : m < n => Before(rs, at[m], at[n])
  BY <1>1, Arranged
<1>4. at \in [1 .. Cardinality(I) -> I] /\ \A i \in I : \E n \in 1 .. Cardinality(I) : at[n] = i
  BY <1>3 DEF Bijection, Surjection, Injection
<1> DEFINE s == InOrder(rs, I)
<1>5. s \in Seq(S) /\ Len(s) = Cardinality(I) /\ DOMAIN s = 1 .. Cardinality(I)
  <2>1. s \in [1 .. Cardinality(I) -> S]
    BY <1>3, <1>4
  <2>2. QED BY <1>2, <2>1
<1>6. \A n \in 1 .. Cardinality(I) : s[n] = rs[at[n]]
  BY <1>3
<1> HIDE DEF s
<1>7. ToSet(s) = {rs[i] : i \in I}
  <2>1. ToSet(s) = {s[n] : n \in 1 .. Cardinality(I)}
    BY <1>5 DEF ToSet
  <2>2. \A n \in 1 .. Cardinality(I) : at[n] \in I /\ s[n] = rs[at[n]]
    BY <1>4, <1>6
  <2>3. \A i \in I : \E n \in 1 .. Cardinality(I) : s[n] = rs[i]
    BY <1>4, <1>6
  <2>4. QED BY <2>1, <2>2, <2>3
<1>8. \A m, n \in 1 .. Cardinality(I) : m <= n => s[m].body.seq <= s[n].body.seq
  <2>1. SUFFICES ASSUME NEW m \in 1 .. Cardinality(I), NEW n \in 1 .. Cardinality(I), m <= n
                 PROVE  s[m].body.seq <= s[n].body.seq
    OBVIOUS
  <2>2. s[m].body.seq \in Nat /\ s[n].body.seq \in Nat
    BY <1>4, <1>6
  <2>3. CASE m = n
    BY <2>2, <2>3
  <2>4. CASE m < n
    BY <1>3, <1>6, <2>4, <2>2 DEF Before
  <2>5. QED BY <1>2, <2>1, <2>3, <2>4
<1>9. QED BY <1>1, <1>5, <1>7, <1>8 DEF s

\* A sequence that is numbered from 1 is already sorted.
LEMMA SortedAlready ==
  ASSUME NEW S, NEW rs \in Seq(S), \A i \in DOMAIN rs : rs[i].body.seq = i
  PROVE  SortedBySeq(rs) = rs
<1>1. DOMAIN rs = 1 .. Len(rs) /\ Len(rs) \in Nat
  OBVIOUS
<1>2. \A i, j \in DOMAIN rs : Before(rs, j, i) <=> j < i
  BY <1>1 DEF Before
<1>3. \A i \in DOMAIN rs : {j \in DOMAIN rs : Before(rs, j, i)} = 1 .. i - 1
  BY <1>1, <1>2
<1>4. \A i \in DOMAIN rs : Cardinality({j \in DOMAIN rs : Before(rs, j, i)}) = i - 1
  <2>1. \A i \in DOMAIN rs : Cardinality(1 .. i - 1) = i - 1
    BY <1>1, FS_Interval
  <2>2. QED BY <1>3, <2>1
<1>5. Cardinality(DOMAIN rs) = Len(rs)
  BY <1>1, FS_Interval
<1>6. \A n \in 1 .. Len(rs) :
        (CHOOSE i \in DOMAIN rs : Cardinality({j \in DOMAIN rs : Before(rs, j, i)}) = n - 1) = n
  <2> DEFINE C(i) == Cardinality({j \in DOMAIN rs : Before(rs, j, i)})
  <2>1. \A i \in DOMAIN rs : C(i) = i - 1
    BY <1>4
  <2> HIDE DEF C
  <2>2. \A n \in 1 .. Len(rs) : (CHOOSE i \in DOMAIN rs : C(i) = n - 1) = n
    <3>1. TAKE n \in 1 .. Len(rs)
    <3>2. n \in DOMAIN rs /\ C(n) = n - 1
      BY <1>1, <2>1
    <3>3. \A i \in DOMAIN rs : C(i) = n - 1 => i = n
      BY <1>1, <2>1
    <3>4. QED BY <3>2, <3>3
  <2>3. QED BY <2>2 DEF C
<1>7. \A n \in 1 .. Len(rs) :
        rs[CHOOSE i \in DOMAIN rs : Cardinality({j \in DOMAIN rs : Before(rs, j, i)}) = n - 1] = rs[n]
  BY <1>6, Zenon
<1>8. InOrder(rs, DOMAIN rs) = [n \in 1 .. Len(rs) |-> rs[n]]
  BY <1>5, <1>7, Zenon DEF InOrder
<1>9. QED BY <1>1, <1>8 DEF SortedBySeq

-----------------------------------------------------------------------------
(* What the invariant says of an exported packet and its copies.           *)

\* What an envelope that sign_decision made contains.
LEMMA GenuineFacts ==
  ASSUME NEW r \in Genuine
  PROVE  /\ r.body \in signed
         /\ r.receipt_hash = Hash(r.body)
         /\ r.by \in Instances
         /\ r.sig.kid \in ToSet(Kids)
         /\ r.sig.alg = "EdDSA"
         /\ r.sig.value = <<r.sig.kid, r.body>>
  BY DEF Genuine, ReceiptsOver, Receipt

\* Hashes tell signed bodies apart and are never the hash of nothing; a signed
\* body has a canonical form.
LEMMA HashFacts ==
  ASSUME SignedInv
  PROVE  /\ \A b \in signed : Hash(b) \notin {Missing, Genesis} /\ Canonical(b) /\ b.seq \in Nat \ {0}
         /\ \A b, c \in signed : Hash(b) = Hash(c) => b = c
<1>1. ASSUME NEW b \in signed
      PROVE  Hash(b) \notin {Missing, Genesis} /\ Canonical(b) /\ b.seq \in Nat \ {0}
  <2>1. /\ b.request \in 1 .. Cardinality(signed)
        /\ b.decision = Calls[b.request].decision
        /\ b.seq \in Nat \ {0}
    BY DEF SignedInv
  <2>2. Cardinality(signed) \in Nat /\ Cardinality(signed) <= Len(Calls)
    BY FS_CardinalityType DEF SignedInv
  <2>3. Len(Calls) \in Nat /\ DOMAIN Calls = 1 .. Len(Calls)
    BY PacketAssumption
  <2>4. b.request \in DOMAIN Calls
    BY <2>1, <2>2, <2>3
  <2>5. QED BY <2>1, <2>4, PacketAssumption DEF Hash, Canonical
<1>2. ASSUME NEW b \in signed, NEW c \in signed, Hash(b) = Hash(c) PROVE b = c
  BY <1>2 DEF Hash, SignedInv
<1>3. QED BY <1>1, <1>2

\* Whatever is changed in a copy, the signature value stays that of a body signed.
LEMMA ChangedKeepsSignature ==
  ASSUME NEW r \in Genuine, NEW c \in Changed(r)
  PROVE  c.sig.value = r.sig.value
<1>1. DOMAIN r = {"body", "receipt_hash", "agent", "by", "sig"} /\ DOMAIN r.sig = {"kid", "alg", "value"}
  BY DEF Genuine, ReceiptsOver, Receipt
<1>2. \A v, w : [r EXCEPT !.body = v, !.receipt_hash = w].sig = r.sig
  BY <1>1
<1>3. \A v : [r EXCEPT !.receipt_hash = v].sig = r.sig
  BY <1>1
<1>4. [r EXCEPT !.body.decision = Float].sig = r.sig /\ Tampered(r).sig = r.sig
  BY <1>1 DEF Tampered
<1>5. /\ [r EXCEPT !.sig.alg = "other"].sig.value = r.sig.value
      /\ [r EXCEPT !.sig.kid = Missing].sig.value = r.sig.value
  BY <1>1
<1>6. \/ c = r \/ c = Tampered(r)
      \/ \E v : c = [r EXCEPT !.receipt_hash = v]
      \/ \E v, w : c = [r EXCEPT !.body = v, !.receipt_hash = w]
      \/ c = [r EXCEPT !.body.decision = Float]
      \/ c = [r EXCEPT !.sig.alg = "other"]
      \/ c = [r EXCEPT !.sig.kid = Missing]
  BY Zenon DEF Changed
<1>7. CASE c = r \/ c = Tampered(r) \/ c = [r EXCEPT !.body.decision = Float]
  BY <1>4, <1>7, Zenon
<1>8. CASE \E v : c = [r EXCEPT !.receipt_hash = v]
  BY <1>3, <1>8
<1>9. CASE \E v, w : c = [r EXCEPT !.body = v, !.receipt_hash = w]
  BY <1>2, <1>9
<1>10. CASE c = [r EXCEPT !.sig.alg = "other"] \/ c = [r EXCEPT !.sig.kid = Missing]
  BY <1>5, <1>10, Zenon
<1>11. QED BY <1>6, <1>7, <1>8, <1>9, <1>10

\* The receipts of a copy carry signatures of genuine receipts.
Signatures == {r.sig.value : r \in Genuine}

LEMMA CopyFacts ==
  ASSUME SignedInv, JobInv, Exported, NEW copy \in Copies(job)
  PROVE  /\ \E S : copy.receipts \in Seq(S)
         /\ \A r \in ToSet(copy.receipts) : r.sig.value \in Signatures
<1> DEFINE rs == job.receipts
           C == UNION {Changed(r) : r \in Genuine}
<1>1. rs \in Seq(Genuine)
  BY DEF JobInv, Exported
<1>2. Genuine \subseteq C
  <2>1. \A r : r \in Changed(r)
    BY Zenon DEF Changed
  <2>2. QED BY <2>1
<1>3. \A c \in C : c.sig.value \in Signatures
  BY ChangedKeepsSignature DEF Signatures
<1>4. PICK x : /\ copy = [job EXCEPT !.receipts = x, !.counts = CountsOf(x, job.anchor_proofs)]
               /\ \/ \E I \in SUBSET DOMAIN rs : x = InOrder(rs, I)
                  \/ \E m \in DOMAIN rs : \E c \in Changed(rs[m]) : x = [rs EXCEPT ![m] = c]
  <2> DEFINE some == {InOrder(rs, I) : I \in SUBSET DOMAIN rs}
             altered == UNION {{[rs EXCEPT ![m] = c] : c \in Changed(rs[m])} : m \in DOMAIN rs}
  <2>1. PICK x \in some \union altered :
          copy = [job EXCEPT !.receipts = x, !.counts = CountsOf(x, job.anchor_proofs)]
    BY Zenon DEF Copies
  <2>2. CASE x \in some
    BY <2>1, <2>2
  <2>3. CASE x \in altered
    <3>1. PICK m \in DOMAIN rs : x \in {[rs EXCEPT ![m] = c] : c \in Changed(rs[m])}
      BY <2>3
    <3>2. PICK c \in Changed(rs[m]) : x = [rs EXCEPT ![m] = c]
      BY <3>1
    <3>3. QED BY <2>1, <3>2
  <2>4. QED BY <2>1, <2>2, <2>3
<1>5. copy.receipts = x
  <2>1. "receipts" \in DOMAIN job
    BY DEF JobInv, Exported
  <2>2. QED BY <1>4, <2>1
<1>6. x \in Seq(C)
  <2>1. rs \in Seq(C)
    BY <1>1, <1>2
  <2>2. ASSUME NEW I \in SUBSET DOMAIN rs, x = InOrder(rs, I) PROVE x \in Seq(C)
    <3>1. \A i \in DOMAIN rs : rs[i] \in Genuine
      BY <1>1
    <3>2. \A i \in DOMAIN rs : rs[i].body.seq \in Nat
      BY <3>1, GenuineFacts, HashFacts
    <3> HIDE DEF rs, C
    <3>3. QED BY <2>1, <2>2, <3>2, InOrderFacts
  <2>3. ASSUME NEW m \in DOMAIN rs, NEW c \in Changed(rs[m]), x = [rs EXCEPT ![m] = c]
        PROVE  x \in Seq(C)
    <3>1. c \in C
      BY <1>1
    <3> HIDE DEF rs, C
    <3>2. QED BY <2>1, <2>3, <3>1, ExceptSeq
  <2> HIDE DEF rs, C
  <2>4. QED BY <1>4, <2>2, <2>3
<1> HIDE DEF C
<1>7. \A r \in ToSet(x) : r \in C
  BY <1>6 DEF ToSet
<1>8. QED BY <1>3, <1>5, <1>6, <1>7

\* Receipts that the packet verifier passes hold signed bodies.
LEMMA HeldBodies ==
  ASSUME NEW packet, ReceiptsHold(packet), NEW S, packet.receipts \in Seq(S),
         \A r \in ToSet(packet.receipts) : r.sig.value \in Signatures
  PROVE  \A i \in DOMAIN packet.receipts :
           LET r == packet.receipts[i] IN r.body \in signed /\ r.receipt_hash = Hash(r.body)
<1>1. TAKE i \in DOMAIN packet.receipts
<1> DEFINE r == packet.receipts[i]
<1>2. r \in ToSet(packet.receipts)
  BY DEF ToSet
<1>3. PICK g \in Genuine : r.sig.value = g.sig.value
  BY <1>2 DEF Signatures
<1>4. r.sig.value = <<r.sig.kid, r.body>> /\ r.receipt_hash = Hash(r.body)
  BY DEF ReceiptsHold, SignatureHolds
<1>5. g.sig.value = <<g.sig.kid, g.body>> /\ g.body \in signed
  BY GenuineFacts
<1>6. r.body = g.body
  <2>1. <<r.sig.kid, r.body>> = <<g.sig.kid, g.body>>
    BY <1>3, <1>4, <1>5
  <2> HIDE DEF r
  <2>2. QED BY <2>1
<1>7. QED BY <1>4, <1>5, <1>6

\* A sorted chain has the same receipts, by increasing position.
LEMMA SortedFacts ==
  ASSUME NEW S, NEW rs \in Seq(S), \A i \in DOMAIN rs : rs[i].body.seq \in Nat
  PROVE  LET t == SortedBySeq(rs)
         IN /\ t \in Seq(S)
            /\ ToSet(t) = ToSet(rs)
            /\ \A m, n \in 1 .. Len(t) : m <= n => t[m].body.seq <= t[n].body.seq
<1>1. /\ InOrder(rs, DOMAIN rs) \in Seq(S)
      /\ ToSet(InOrder(rs, DOMAIN rs)) = {rs[i] : i \in DOMAIN rs}
      /\ \A m, n \in 1 .. Len(InOrder(rs, DOMAIN rs)) :
           m <= n => InOrder(rs, DOMAIN rs)[m].body.seq <= InOrder(rs, DOMAIN rs)[n].body.seq
  BY InOrderFacts
<1>2. ToSet(rs) = {rs[i] : i \in DOMAIN rs}
  BY DEF ToSet
<1>3. QED BY <1>1, <1>2 DEF SortedBySeq

\* The receipts of a copy that the packet verifier passes: signed bodies, linked
\* from each to the next by position.
LEMMA HeldCopies ==
  ASSUME SignedInv, JobInv, Exported, NEW copy \in Copies(job), ReceiptsHold(copy)
  PROVE  /\ \A i \in DOMAIN copy.receipts :
              LET r == copy.receipts[i] IN
              /\ r.body \in signed /\ r.body.seq \in Nat
              /\ r.receipt_hash = Hash(r.body) /\ r.receipt_hash # Missing
         /\ Continuous(copy.receipts) =>
              \A i \in 2 .. Len(SortedBySeq(copy.receipts)) :
                SortedBySeq(copy.receipts)[i - 1].receipt_hash
                  = SortedBySeq(copy.receipts)[i].body.prev_receipt
<1> DEFINE rs == copy.receipts
           t == SortedBySeq(rs)
<1>1. PICK S : rs \in Seq(S)
  BY CopyFacts
<1>2. \A i \in DOMAIN rs : rs[i].body \in signed /\ rs[i].receipt_hash = Hash(rs[i].body)
  BY <1>1, CopyFacts, HeldBodies
<1>3. \A i \in DOMAIN rs : rs[i].body.seq \in Nat /\ rs[i].receipt_hash # Missing
  BY <1>2, HashFacts
<1>4. t \in Seq(S) /\ ToSet(t) = ToSet(rs)
  BY <1>1, <1>3, SortedFacts
<1> HIDE DEF t
<1>5. \A i \in DOMAIN t : t[i].receipt_hash # Missing
  <2>1. TAKE i \in DOMAIN t
  <2>2. t[i] \in ToSet(rs)
    BY <1>4 DEF ToSet
  <2>3. QED BY <1>3, <2>2 DEF ToSet
<1>6. ASSUME Continuous(rs), NEW i \in 2 .. Len(t)
      PROVE  t[i - 1].receipt_hash = t[i].body.prev_receipt
  <2>1. i - 1 \in DOMAIN t
    BY <1>4
  <2>2. t[i - 1].receipt_hash \in {Missing, t[i].body.prev_receipt}
    BY <1>6 DEF Continuous, t
  <2>3. QED BY <1>5, <2>1, <2>2
<1>7. QED BY <1>2, <1>3, <1>6 DEF t

\* Copies that pass hold signed bodies and have no gap.
LEMMA TamperEvidence ==
  ASSUME SignedInv, JobInv
  PROVE  TamperEvident
<1> SUFFICES ASSUME Exported, NEW copy \in Copies(job), Passed(copy)
             PROVE  LET bodies == {r.body : r \in ToSet(copy.receipts)}
                    IN /\ bodies \subseteq signed
                       /\ \A b \in bodies : \/ \A c \in bodies : b.seq <= c.seq
                                            \/ b.prev_receipt \in {Hash(c) : c \in bodies}
  BY DEF TamperEvident
<1> DEFINE rs == copy.receipts
           t == SortedBySeq(rs)
           bodies == {r.body : r \in ToSet(rs)}
<1>1. PICK S : rs \in Seq(S)
  BY CopyFacts
<1>2. ReceiptsHold(copy) /\ Continuous(rs)
  BY DEF Passed
<1>3. \A i \in DOMAIN rs : /\ rs[i].body \in signed /\ rs[i].body.seq \in Nat
                           /\ rs[i].receipt_hash = Hash(rs[i].body)
  BY <1>2, HeldCopies
<1>4. \A i \in 2 .. Len(t) : t[i - 1].receipt_hash = t[i].body.prev_receipt
  BY <1>2, HeldCopies
<1>5. /\ t \in Seq(S) /\ ToSet(t) = ToSet(rs)
      /\ \A m, n \in 1 .. Len(t) : m <= n => t[m].body.seq <= t[n].body.seq
  BY <1>1, <1>3, SortedFacts
<1>6. bodies \subseteq signed
  BY <1>3 DEF ToSet
<1> HIDE DEF t
<1>7. \A i \in 1 .. Len(t) : t[i] \in ToSet(rs) /\ t[i].receipt_hash = Hash(t[i].body)
  <2>1. TAKE i \in 1 .. Len(t)
  <2>2. t[i] \in ToSet(rs)
    BY <1>5 DEF ToSet
  <2>3. QED BY <1>3, <2>2 DEF ToSet
<1>8. \A r \in ToSet(rs) : \E n \in 1 .. Len(t) : r = t[n]
  <2>1. DOMAIN t = 1 .. Len(t)
    BY <1>5
  <2>2. ToSet(rs) = {t[n] : n \in 1 .. Len(t)}
    BY <1>5, <2>1 DEF ToSet
  <2>3. QED BY <2>2
<1>9. ASSUME NEW b \in bodies
      PROVE  (\A c \in bodies : b.seq <= c.seq) \/ b.prev_receipt \in {Hash(c) : c \in bodies}
  <2>1. PICK n \in 1 .. Len(t) : b = t[n].body
    BY <1>8
  <2>2. CASE n = 1
    <3>1. \A c \in bodies : \E m \in 1 .. Len(t) : c = t[m].body
      BY <1>8
    <3>2. \A m \in 1 .. Len(t) : t[n].body.seq <= t[m].body.seq
      BY <1>5, <2>2
    <3>3. QED BY <2>1, <3>1, <3>2
  <2>3. CASE n > 1
    <3>1. n \in 2 .. Len(t) /\ n - 1 \in 1 .. Len(t)
      BY <1>5, <2>3
    <3>2. b.prev_receipt = Hash(t[n - 1].body)
      BY <1>4, <1>7, <2>1, <3>1
    <3>3. QED BY <1>7, <3>1, <3>2
  <2>4. QED BY <1>5, <2>2, <2>3
<1>10. QED BY <1>6, <1>9

\* verify_chain passes a chain exactly when each of its receipts is good and has a hash.
LEMMA VerifyChainPasses ==
  ASSUME NEW rs, NEW known
  PROVE  VerifyChain(rs, known) = "PASS" <=>
           /\ rs # <<>>
           /\ \A i \in DOMAIN rs :
                /\ rs[i].sig.kid \in known
                /\ Integrity(rs[i], rs[i].sig.kid) = "PASS"
                /\ rs[i].body.seq = i
                /\ rs[i].body.prev_receipt = IF i = 1 THEN Genesis ELSE rs[i - 1].receipt_hash
                /\ rs[i].receipt_hash # Missing
<1> DEFINE good(i) ==
             /\ rs[i].sig.kid \in known
             /\ Integrity(rs[i], rs[i].sig.kid) = "PASS"
             /\ rs[i].body.seq = i
             /\ rs[i].body.prev_receipt = IF i = 1 THEN Genesis ELSE rs[i - 1].receipt_hash
           stops == {i \in DOMAIN rs : ~good(i) \/ rs[i].receipt_hash = Missing}
<1>1. VerifyChain(rs, known) =
        IF rs = <<>> THEN "INCONCLUSIVE"
        ELSE IF stops = {} THEN "PASS"
        ELSE IF good(CHOOSE i \in stops : \A j \in stops : i <= j) THEN "RAISES" ELSE "FAIL"
  BY DEF VerifyChain
<1>2. stops = {} <=> \A i \in DOMAIN rs : good(i) /\ rs[i].receipt_hash # Missing
  OBVIOUS
<1> HIDE DEF good, stops
<1>3. VerifyChain(rs, known) = "PASS" <=> rs # <<>> /\ stops = {}
  BY <1>1
<1>4. QED BY <1>2, <1>3 DEF good

\* Linked from genesis on, signed bodies are at positions 1, 2, 3 and so on.
LEMMA ChainNumbered ==
  ASSUME SignedInv, NEW S, NEW rs \in Seq(S), rs # <<>>, rs[1].body.prev_receipt = Genesis,
         \A i \in DOMAIN rs : rs[i].body \in signed,
         \A i \in 2 .. Len(rs) : rs[i].body.prev_receipt = Hash(rs[i - 1].body)
  PROVE  \A i \in DOMAIN rs : rs[i].body.seq = i
<1>1. DOMAIN rs = 1 .. Len(rs) /\ Len(rs) \in Nat
  OBVIOUS
<1> DEFINE T == {i \in DOMAIN rs : rs[i].body.seq # i}
<1> SUFFICES ASSUME T # {} PROVE FALSE
  OBVIOUS
<1>2. T \in SUBSET Nat
  BY <1>1
<1>3. PICK n \in T : \A m \in T : n <= m
  <2> HIDE DEF T
  <2>1. QED BY <1>2, LeastNatural
<1>4. n \in 1 .. Len(rs) /\ rs[n].body.seq # n /\ rs[n].body \in signed
  BY <1>1
<1>5. \/ rs[n].body.prev_receipt = Genesis /\ rs[n].body.seq = 1
      \/ \E c \in signed : rs[n].body.prev_receipt = Hash(c) /\ rs[n].body.seq = c.seq + 1
  BY <1>4 DEF SignedInv
<1>6. CASE n = 1
  BY <1>4, <1>5, <1>6, HashFacts
<1>7. CASE n # 1
  <2>1. n \in 2 .. Len(rs) /\ n - 1 \in DOMAIN rs /\ ~(n <= n - 1)
    BY <1>1, <1>4, <1>7
  <2>2. rs[n - 1].body \in signed /\ rs[n - 1].body.seq = n - 1
    BY <1>3, <2>1
  <2>3. rs[n].body.prev_receipt = Hash(rs[n - 1].body)
    BY <2>1
  <2>4. PICK c \in signed : rs[n].body.prev_receipt = Hash(c) /\ rs[n].body.seq = c.seq + 1
    BY <1>5, <2>2, <2>3, HashFacts
  <2>5. c = rs[n - 1].body
    BY <2>2, <2>3, <2>4, HashFacts
  <2>6. QED BY <1>4, <2>2, <2>4, <2>5
<1>8. QED BY <1>6, <1>7

\* The two verifiers on one copy: the positions that verify_chain compares follow
\* from the links, and back.
LEMMA VerifyChainAgrees ==
  ASSUME SignedInv, JobInv, Exported, NEW copy \in Copies(job)
  PROVE  LET rs == copy.receipts
         IN VerifyChain(rs, copy.public_keys) = "PASS" <=>
            /\ ReceiptsHold(copy)
            /\ Continuous(rs)
            /\ rs # <<>>
            /\ rs[1].body.prev_receipt = Genesis
            /\ rs = SortedBySeq(rs)
            /\ \A r \in ToSet(rs) : r.sig.alg = "EdDSA"
<1> DEFINE rs == copy.receipts
           known == copy.public_keys
           Good(i) ==
             /\ rs[i].sig.kid \in known
             /\ Integrity(rs[i], rs[i].sig.kid) = "PASS"
             /\ rs[i].body.seq = i
             /\ rs[i].body.prev_receipt = IF i = 1 THEN Genesis ELSE rs[i - 1].receipt_hash
             /\ rs[i].receipt_hash # Missing
<1>1. PICK S : rs \in Seq(S)
  BY CopyFacts
<1>2. DOMAIN rs = 1 .. Len(rs) /\ Len(rs) \in Nat /\ (rs # <<>> => 1 \in DOMAIN rs)
  BY <1>1
<1>3. VerifyChain(rs, known) = "PASS" <=> rs # <<>> /\ \A i \in DOMAIN rs : Good(i)
  BY VerifyChainPasses
<1>4. \A i \in DOMAIN rs : Integrity(rs[i], rs[i].sig.kid) = "PASS" <=>
        /\ rs[i].sig.alg = "EdDSA"
        /\ Canonical(rs[i].body)
        /\ rs[i].receipt_hash \in {Missing, Hash(rs[i].body)}
        /\ SignatureHolds(rs[i], rs[i].sig.kid)
  BY DEF Integrity
<1>5. ASSUME rs # <<>>, \A i \in DOMAIN rs : Good(i)
      PROVE  /\ ReceiptsHold(copy)
             /\ Continuous(rs)
             /\ rs[1].body.prev_receipt = Genesis
             /\ rs = SortedBySeq(rs)
             /\ \A r \in ToSet(rs) : r.sig.alg = "EdDSA"
  <2>1. rs = SortedBySeq(rs)
    BY <1>1, <1>5, SortedAlready
  <2>2. ReceiptsHold(copy)
    BY <1>4, <1>5 DEF ReceiptsHold
  <2>3. \A i \in 2 .. Len(rs) : rs[i - 1].receipt_hash = rs[i].body.prev_receipt
    <3>1. TAKE i \in 2 .. Len(rs)
    <3>2. i \in DOMAIN rs /\ i # 1
      BY <1>2
    <3>3. QED BY <1>5, <3>2
  <2>4. Continuous(rs)
    BY <2>1, <2>3 DEF Continuous
  <2>5. rs[1].body.prev_receipt = Genesis
    BY <1>2, <1>5
  <2>6. \A r \in ToSet(rs) : r.sig.alg = "EdDSA"
    BY <1>4, <1>5 DEF ToSet
  <2>7. QED BY <2>1, <2>2, <2>4, <2>5, <2>6
<1>6. ASSUME ReceiptsHold(copy), Continuous(rs), rs # <<>>, rs[1].body.prev_receipt = Genesis,
             rs = SortedBySeq(rs), \A r \in ToSet(rs) : r.sig.alg = "EdDSA"
      PROVE  \A i \in DOMAIN rs : Good(i)
  <2>1. \A i \in DOMAIN rs : /\ rs[i].body \in signed
                             /\ rs[i].receipt_hash = Hash(rs[i].body)
                             /\ rs[i].receipt_hash # Missing
    BY <1>6, HeldCopies
  <2>2. \A i \in 2 .. Len(rs) : rs[i].body.prev_receipt = rs[i - 1].receipt_hash
    BY <1>6, HeldCopies
  <2>3. \A i \in 2 .. Len(rs) : rs[i].body.prev_receipt = Hash(rs[i - 1].body)
    <3>1. TAKE i \in 2 .. Len(rs)
    <3>2. i - 1 \in DOMAIN rs
      BY <1>2
    <3>3. QED BY <2>1, <2>2, <3>2
  <2>4. \A i \in DOMAIN rs : rs[i].body.seq = i
    BY <1>1, <1>6, <2>1, <2>3, ChainNumbered
  <2>5. \A i \in DOMAIN rs : /\ rs[i].sig.kid \in known
                             /\ Canonical(rs[i].body)
                             /\ SignatureHolds(rs[i], rs[i].sig.kid)
    BY <1>6 DEF ReceiptsHold
  <2>6. \A i \in DOMAIN rs : rs[i].sig.alg = "EdDSA"
    BY <1>6 DEF ToSet
  <2>7. \A i \in DOMAIN rs : Integrity(rs[i], rs[i].sig.kid) = "PASS"
    BY <1>4, <2>1, <2>5, <2>6
  <2>8. \A i \in DOMAIN rs :
          rs[i].body.prev_receipt = IF i = 1 THEN Genesis ELSE rs[i - 1].receipt_hash
    <3>1. TAKE i \in DOMAIN rs
    <3>2. i = 1 \/ i \in 2 .. Len(rs)
      BY <1>2
    <3>3. QED BY <1>6, <2>2, <3>2
  <2>9. QED BY <2>1, <2>4, <2>5, <2>7, <2>8
<1> HIDE DEF Good
<1>7. QED BY <1>3, <1>5, <1>6

\* What an unaltered packet needs to pass, besides the inclusion proofs.
LEMMA ExportPasses ==
  ASSUME SignedInv, JobInv, Exported, InclusionHolds(job)
  PROVE  Passed(job) <=> job.chain_integrity = "PASS" /\ KeysIncluded(job)
<1>1. /\ job.receipts \in Seq(Genuine)
      /\ job.counts = CountsOf(job.receipts, job.anchor_proofs)
      /\ job.chain_integrity = ExportedIntegrity(job.receipts)
  BY DEF JobInv, Exported
<1>2. \A i \in DOMAIN job.receipts :
        LET r == job.receipts[i] IN
        /\ Canonical(r.body) /\ r.receipt_hash = Hash(r.body) /\ SignatureHolds(r, r.sig.kid)
  <2>1. TAKE i \in DOMAIN job.receipts
  <2>2. job.receipts[i] \in Genuine
    BY <1>1
  <2>3. QED BY <2>2, GenuineFacts, HashFacts DEF SignatureHolds
<1>3. ReceiptsHold(job) <=> KeysIncluded(job)
  BY <1>2 DEF ReceiptsHold, KeysIncluded, ToSet
<1>4. job.chain_integrity = "PASS" <=> Continuous(job.receipts)
  BY <1>1 DEF ExportedIntegrity
<1>5. QED BY <1>1, <1>3, <1>4 DEF Passed

\* Both halves of VerifiersAgree.
LEMMA VerifierAgreement ==
  ASSUME SignedInv, JobInv, ProofsSound
  PROVE  VerifiersAgree
<1> SUFFICES ASSUME Exported PROVE VerifiersAgree
  BY DEF VerifiersAgree
<1>1. InclusionHolds(job)
  BY DEF ProofsSound, InclusionHolds
<1>2. Passed(job) <=> job.chain_integrity = "PASS" /\ KeysIncluded(job)
  BY <1>1, ExportPasses
<1>3. QED BY <1>2, VerifyChainAgrees, Zenon DEF VerifiersAgree

-----------------------------------------------------------------------------
(* Genuine receipts and their verdicts.                                    *)

\* An envelope that sign_decision made verifies with the key of its kid and no other.
LEMMA GenuineIntegrity ==
  ASSUME SignedInv, NEW r \in Genuine, NEW kid
  PROVE  Integrity(r, kid) = "PASS" <=> r.sig.kid = kid
<1>1. Canonical(r.body)
  BY GenuineFacts, HashFacts
<1>2. QED BY <1>1, GenuineFacts DEF Integrity, SignatureHolds

LEMMA LeastOfOne ==
  ASSUME NEW k \in Int
  PROVE  (CHOOSE m \in {k} : \A j \in {k} : m <= j) = k
<1>1. k \in {k} /\ \A j \in {k} : k <= j
  OBVIOUS
<1>2. QED BY <1>1

\* Of the receipts a process signed itself, each position holds one.
LEMMA OwnPositions ==
  ASSUME NEW i \in Instances, InstanceInv(i), NEW k \in DOMAIN inst[i].mine
  PROVE  LET mine == inst[i].mine
         IN /\ mine[k] \in Genuine /\ k \in Int /\ mine[k].body.seq \in Int
            /\ mine[k].sig.kid = inst[i].kid
            /\ {m \in DOMAIN mine : mine[m].body.seq = mine[k].body.seq} = {k}
            /\ {m \in DOMAIN mine : mine[m].body.seq = mine[k].body.seq - 1}
                 = IF k = 1 THEN {} ELSE {k - 1}
            /\ k # 1 => mine[k].body.prev_receipt = mine[k - 1].receipt_hash
<1> DEFINE mine == inst[i].mine
           n == Len(mine)
<1>1. mine \in Seq(Genuine) /\ inst[i].seq \in Nat
  BY DEF InstanceInv, Processes, Genuine
<1>2. DOMAIN mine = 1 .. n /\ n \in Nat /\ mine[k] \in Genuine /\ k \in DOMAIN mine
  BY <1>1
<1>3. /\ \A m \in DOMAIN mine : mine[m].sig.kid = inst[i].kid
      /\ \A m \in DOMAIN mine : mine[m].body.seq = inst[i].seq - n + m
      /\ \A m \in DOMAIN mine : m > 1 => mine[m].body.prev_receipt = mine[m - 1].receipt_hash
  BY <1>2 DEF InstanceInv
<1> HIDE DEF mine, n
<1>4. mine[k].body.seq = inst[i].seq - n + k /\ k \in 1 .. n
  BY <1>2, <1>3
<1>5. \A m \in DOMAIN mine : mine[m].body.seq = mine[k].body.seq <=> m = k
  BY <1>1, <1>2, <1>3, <1>4
<1>6. \A m \in DOMAIN mine : mine[m].body.seq = mine[k].body.seq - 1 <=> m = k - 1
  <2>1. TAKE m \in DOMAIN mine
  <2>2. mine[m].body.seq = inst[i].seq - n + m /\ m \in Int /\ k \in Int
    BY <1>2, <1>3
  <2> HIDE DEF mine
  <2>3. QED BY <1>1, <1>2, <1>4, <2>2
<1>7. k # 1 => k - 1 \in DOMAIN mine /\ k > 1
  BY <1>2, <1>4
<1>8. k = 1 => k - 1 \notin DOMAIN mine
  BY <1>2
<1>9. {m \in DOMAIN mine : mine[m].body.seq = mine[k].body.seq - 1} = IF k = 1 THEN {} ELSE {k - 1}
  BY <1>6, <1>7, <1>8
<1>10. {m \in DOMAIN mine : mine[m].body.seq = mine[k].body.seq} = {k}
  BY <1>5, <1>4, <1>2
<1>11. k \in Int /\ mine[k].body.seq \in Int /\ mine[k].sig.kid = inst[i].kid
  BY <1>1, <1>2, <1>3, <1>4
<1>12. k # 1 => mine[k].body.prev_receipt = mine[k - 1].receipt_hash
  BY <1>2, <1>3, <1>7
<1>13. QED BY <1>2, <1>9, <1>10, <1>11, <1>12 DEF mine

\* The MCP tool and the A2A skill on a receipt of their own process.
LEMMA OwnReceipts ==
  ASSUME SignedInv, NEW i \in Instances, InstanceInv(i), NEW r \in ToSet(inst[i].mine)
  PROVE  /\ SkillVerdict(i, r.body.seq) = OwnVerdict(i, r)
         /\ OwnVerdict(i, r).integrity = "PASS"
         /\ OwnVerdict(i, r).link # "FAIL"
<1> DEFINE mine == inst[i].mine
<1>1. PICK k \in DOMAIN mine : r = mine[k]
  BY DEF ToSet
<1>2. /\ r \in Genuine /\ k \in Int
      /\ r.sig.kid = inst[i].kid
      /\ {m \in DOMAIN mine : mine[m].body.seq = r.body.seq} = {k}
      /\ {m \in DOMAIN mine : mine[m].body.seq = r.body.seq - 1} = IF k = 1 THEN {} ELSE {k - 1}
      /\ k # 1 => r.body.prev_receipt = mine[k - 1].receipt_hash
  BY <1>1, OwnPositions
<1>3. SkillVerdict(i, r.body.seq) = OwnVerdict(i, r)
  <2> DEFINE found == {m \in DOMAIN mine : mine[m].body.seq = r.body.seq}
  <2>1. SkillVerdict(i, r.body.seq) =
          IF found = {} THEN [error |-> "RECEIPT_NOT_FOUND"]
          ELSE OwnVerdict(i, mine[CHOOSE n \in found : \A m \in found : n <= m])
    BY DEF SkillVerdict
  <2>2. found = {k}
    BY <1>2
  <2> HIDE DEF found, mine
  <2>3. (CHOOSE n \in found : \A m \in found : n <= m) = k
    BY <1>2, <2>2, LeastOfOne
  <2>4. QED BY <1>1, <2>1, <2>2, <2>3
<1>4. Integrity(r, inst[i].kid) = "PASS"
  BY <1>2, GenuineIntegrity
<1>5. LinkTo(r, mine) # "FAIL"
  <2> DEFINE below == {m \in DOMAIN mine : mine[m].body.seq = r.body.seq - 1}
             prior == mine[CHOOSE n \in below : \A m \in below : n <= m]
  <2>1. LinkTo(r, mine) =
          IF r.body.prev_receipt = Genesis THEN "PASS"
          ELSE IF below = {} THEN "INCONCLUSIVE"
          ELSE IF prior.receipt_hash = r.body.prev_receipt THEN "PASS" ELSE "FAIL"
    BY DEF LinkTo
  <2>2. below = IF k = 1 THEN {} ELSE {k - 1}
    BY <1>2
  <2>3. CASE k = 1
    <3> HIDE DEF below, prior
    <3>1. QED BY <2>1, <2>2, <2>3
  <2>4. CASE k # 1
    <3>1. prior.receipt_hash = r.body.prev_receipt
      <4> HIDE DEF below, mine
      <4>1. below = {k - 1} /\ k - 1 \in Int
        BY <1>2, <2>2, <2>4
      <4>2. (CHOOSE n \in below : \A m \in below : n <= m) = k - 1
        BY <4>1, LeastOfOne
      <4>3. QED BY <1>2, <2>4, <4>2
    <3> HIDE DEF below, prior
    <3>2. QED BY <2>1, <3>1
  <2>5. QED BY <2>3, <2>4
<1>6. QED BY <1>3, <1>4, <1>5 DEF OwnVerdict

\* A broken link means two signed bodies at the position below.
LEMMA BrokenLink ==
  ASSUME SignedInv, NEW r \in Genuine, NEW chain \in Seq(Genuine), LinkTo(r, chain) = "FAIL"
  PROVE  \E b, c \in signed : b # c /\ b.seq = r.body.seq - 1 /\ c.seq = b.seq
<1> DEFINE below == {i \in DOMAIN chain : chain[i].body.seq = r.body.seq - 1}
           at == CHOOSE i \in below : \A j \in below : i <= j
<1>1. /\ r.body.prev_receipt # Genesis
      /\ below # {}
      /\ chain[at].receipt_hash # r.body.prev_receipt
  BY DEF LinkTo
<1>2. at \in below
  <2>1. below \in SUBSET Nat
    OBVIOUS
  <2> HIDE DEF below
  <2>2. \E i \in below : \A j \in below : i <= j
    BY <1>1, <2>1, LeastNatural
  <2>3. QED BY <2>2
<1> HIDE DEF at
<1>3. chain[at] \in Genuine /\ chain[at].body.seq = r.body.seq - 1
  BY <1>2
<1>4. chain[at].body \in signed /\ chain[at].receipt_hash = Hash(chain[at].body) /\ r.body \in signed
  BY <1>3, GenuineFacts
<1>5. PICK c \in signed : r.body.prev_receipt = Hash(c) /\ r.body.seq = c.seq + 1
  BY <1>1, <1>4 DEF SignedInv
<1>6. c # chain[at].body
  BY <1>1, <1>4, <1>5
<1>7. c.seq \in Nat
  BY HashFacts
<1>8. QED BY <1>3, <1>4, <1>5, <1>6, <1>7

\* What the store returns.
LEMMA StoredChainFacts ==
  ASSUME SignedInv, stored \in Seq(Genuine)
  PROVE  /\ StoredChain \in Seq(Genuine)
         /\ ToSet(StoredChain) = ToSet(stored)
         /\ stored # <<>> => StoredChain # <<>>
         /\ \A m, n \in 1 .. Len(StoredChain) :
              m <= n => StoredChain[m].body.seq <= StoredChain[n].body.seq
<1>1. \A n \in DOMAIN stored : stored[n].body.seq \in Nat
  <2>1. \A n \in DOMAIN stored : stored[n] \in Genuine
    OBVIOUS
  <2>2. QED BY <2>1, GenuineFacts, HashFacts
<1>2. /\ StoredChain \in Seq(Genuine)
      /\ ToSet(StoredChain) = ToSet(stored)
      /\ \A m, n \in 1 .. Len(StoredChain) :
           m <= n => StoredChain[m].body.seq <= StoredChain[n].body.seq
  BY <1>1, SortedFacts DEF StoredChain
<1>3. ASSUME stored # <<>>, StoredChain = <<>> PROVE FALSE
  <2>1. 1 \in DOMAIN stored /\ DOMAIN StoredChain = {}
    BY <1>3
  <2>2. stored[1] \in ToSet(stored) /\ ToSet(StoredChain) = {}
    BY <2>1 DEF ToSet
  <2>3. QED BY <1>2, <2>2
<1>4. QED BY <1>2, <1>3

\* POST /verify-receipt on a stored receipt.
LEMMA StoredReceipts ==
  ASSUME SignedInv, stored \in Seq(Genuine), NEW i \in Instances, NEW r \in ToSet(stored)
  PROVE  /\ RestVerdict(i, r).integrity = "PASS" <=> r.sig.kid \in keys \union {inst[i].kid}
         /\ RestVerdict(i, r).link = "FAIL" =>
              \E b, c \in signed : b # c /\ b.seq = r.body.seq - 1 /\ c.seq = b.seq
<1>1. r \in Genuine /\ stored # <<>>
  BY DEF ToSet
<1>2. VisibleChain(i) = StoredChain /\ StoredChain \in Seq(Genuine)
  BY <1>1, StoredChainFacts DEF VisibleChain
<1>3. Integrity(r, ResolveKey(i, r)) = "PASS" <=> r.sig.kid \in keys \union {inst[i].kid}
  BY <1>1, GenuineIntegrity DEF ResolveKey
<1>4. LinkTo(r, VisibleChain(i)) = "FAIL" =>
        \E b, c \in signed : b # c /\ b.seq = r.body.seq - 1 /\ c.seq = b.seq
  BY <1>1, <1>2, BrokenLink
<1>5. QED BY <1>3, <1>4 DEF RestVerdict

\* All of GenuineReceiptsVerify.
LEMMA GenuineVerdicts ==
  ASSUME PacketInv
  PROVE  GenuineReceiptsVerify
<1>1. SignedInv /\ stored \in Seq(Genuine) /\ KeysInv /\ \A i \in Instances : InstanceInv(i)
  BY DEF PacketInv
<1>2. keyFault \/ \A r \in ToSet(stored) : r.by \in RestInstances => r.sig.kid \in keys
  BY <1>1 DEF KeysInv
<1>3. QED BY <1>1, <1>2, OwnReceipts, StoredReceipts DEF GenuineReceiptsVerify

\* A finished paged read has everything, where positions are not shared.
LEMMA PagesComplete ==
  ASSUME JobInv
  PROVE  PagedReadComplete
BY DEF JobInv, PagedReadComplete

-----------------------------------------------------------------------------
(* Steps: what a step that signs nothing, or leaves a process alone, keeps. *)

LEMMA GenuineGrows ==
  ASSUME signed \subseteq signed'
  PROVE  Genuine \subseteq Genuine' /\ Seq(Genuine) \subseteq Seq(Genuine')
<1>1. Genuine \subseteq Genuine'
  <2>1. \A B, C : B \subseteq C => ReceiptsOver(B) \subseteq ReceiptsOver(C)
    BY DEF ReceiptsOver
  <2>2. QED BY <2>1 DEF Genuine
<1>2. QED BY <1>1

LEMMA SignedFrame ==
  ASSUME SignedInv, UNCHANGED signed
  PROVE  SignedInv'
BY DEF SignedInv, Hash

LEMMA ProcessesGrow ==
  ASSUME NEW B, NEW C, B \subseteq C
  PROVE  Processes(B) \subseteq Processes(C)
<1>1. ReceiptsOver(B) \subseteq ReceiptsOver(C)
  BY DEF ReceiptsOver
<1>2. Seq(ReceiptsOver(B)) \subseteq Seq(ReceiptsOver(C))
  BY <1>1
<1>3. {Hash(b) : b \in B} \subseteq {Hash(b) : b \in C}
  OBVIOUS
<1>4. QED BY <1>2, <1>3 DEF Processes

LEMMA InstanceFrame ==
  ASSUME NEW i \in Instances, InstanceInv(i), signed \subseteq signed', inst'[i] = inst[i]
  PROVE  InstanceInv(i)'
<1>1. Processes(signed) \subseteq Processes(signed')
  BY ProcessesGrow
<1>2. inst'[i] \in Processes(signed')
  BY <1>1 DEF InstanceInv
<1>3. inst[i].prev # Genesis => \E b \in signed' : inst[i].prev = Hash(b) /\ inst[i].seq = b.seq
  BY DEF InstanceInv
<1>4. QED BY <1>2, <1>3 DEF InstanceInv, Processes, Hash

LEMMA KeysFrame ==
  ASSUME KeysInv, UNCHANGED <<inst, stored, keys, keyFault>>
  PROVE  KeysInv'
BY DEF KeysInv, Serving

\* Receipts stored later leave a paged read complete for those it began with.
LEMMA JobFrame ==
  ASSUME JobInv, signed \subseteq signed', ToSet(stored) \subseteq ToSet(stored'), UNCHANGED job
  PROVE  JobInv'
<1>1. Seq(Genuine) \subseteq Seq(Genuine')
  BY GenuineGrows
<1>2. ASSUME job.at \in {"receipts", "proofs", "packet"}
      PROVE  job.receipts \in Seq(Genuine') /\ job.by \in Instances
  BY <1>1, <1>2 DEF JobInv
<1>3. ASSUME job.at \in {"paging", "pages_read"}
      PROVE  /\ job \in PagedReads(signed', ToSet(stored'))
             /\ (\A r, s \in ToSet(stored') : r.body.seq = s.body.seq => r = s) =>
                  \A r \in job.base : r.body.seq <= job.after \/ job.at = "pages_read" => r \in job.got
  <2>1. Genuine \subseteq Genuine'
    BY GenuineGrows
  <2>2. job \in PagedReads(signed', ToSet(stored'))
    BY <1>3, <2>1 DEF JobInv, PagedReads, Genuine
  <2>3. job.base \subseteq ToSet(stored)
    BY <1>3 DEF JobInv, PagedReads
  <2>4. QED BY <1>3, <2>2, <2>3 DEF JobInv
<1>4. ASSUME job.at = "packet"
      PROVE  /\ "receipts" \in DOMAIN job
             /\ job.counts = CountsOf(job.receipts, job.anchor_proofs)
             /\ job.chain_integrity = ExportedIntegrity(job.receipts)
  BY <1>4 DEF JobInv
<1>5. /\ job.at \in {"none", "receipts", "proofs", "packet", "paging", "pages_read"}
      /\ job.at = "none" => job = NoJob
  BY DEF JobInv
<1>6. QED BY <1>2, <1>3, <1>4, <1>5, Zenon DEF JobInv

\* A step that touches neither the receipts nor the processes and the keys.
LEMMA ReadStep ==
  ASSUME PacketInv, UNCHANGED <<signed, inst, stored, keys, keyFault>>, JobInv'
  PROVE  PacketInv'
<1>1. SignedInv'
  BY SignedFrame DEF PacketInv
<1>2. \A i \in Instances : InstanceInv(i)'
  BY InstanceFrame DEF PacketInv
<1>3. stored' \in Seq(Genuine')
  BY GenuineGrows DEF PacketInv
<1>4. KeysInv'
  BY KeysFrame DEF PacketInv
<1>5. DOMAIN inst' = Instances
  BY DEF PacketInv
<1>6. QED BY <1>1, <1>2, <1>3, <1>4, <1>5 DEF PacketInv

LEMMA InitInv == Init => PacketInv
<1> SUFFICES ASSUME Init PROVE PacketInv
  OBVIOUS
<1>1. SignedInv
  <2>1. signed = {} /\ IsFiniteSet({}) /\ Cardinality({}) = 0
    BY FS_EmptySet DEF Init
  <2>2. Len(Calls) \in Nat
    BY PacketAssumption
  <2>3. QED BY <2>1, <2>2 DEF SignedInv
<1>2. ASSUME NEW i \in Instances PROVE InstanceInv(i)
  <2>1. inst[i] = Down
    BY DEF Init
  <2>2. Down.mine = <<>> /\ Down.seq = 0 /\ Down.prev = Genesis /\ ~Down.up /\ Down.read = Missing
    BY DEF Down
  <2>3. Down \in Processes(signed)
    BY DEF Down, Processes
  <2>4. QED BY <2>1, <2>2, <2>3 DEF InstanceInv
<1>3. stored = <<>> /\ keys = {} /\ ~keyFault /\ keyFault \in BOOLEAN
  BY DEF Init
<1>4. \A i \in Instances : inst[i].read = Missing /\ ~inst[i].up
  BY DEF Init, Down
<1>5. KeysInv
  BY <1>3, <1>4 DEF KeysInv, Serving, ToSet, Instances
<1>6. JobInv
  BY DEF Init, JobInv, NoJob
<1>7. DOMAIN inst = Instances
  BY DEF Init
<1>8. QED BY <1>1, <1>2, <1>3, <1>5, <1>6, <1>7 DEF PacketInv

-----------------------------------------------------------------------------
(* Steps: start-up, keys and signing.                                      *)

\* The process a start puts in place: nothing signed, a key of Secret Manager,
\* and the head of the stored chain or the beginning.
LEMMA Started ==
  ASSUME PacketInv, NEW i \in Instances, NEW version \in DOMAIN Kids, Start(i, version)
  PROVE  \E u \in Processes(signed) :
           /\ inst' = [inst EXCEPT ![i] = u]
           /\ u.up /\ u.kid \in ToSet(Kids) /\ u.mine = <<>>
           /\ \/ u.seq = 0 /\ u.prev = Genesis
              \/ \E r \in Genuine : u.seq = r.body.seq /\ u.prev = r.receipt_hash
           /\ u.read \in {Missing, keys}
           /\ u.read # Missing => i \in RestInstances
           /\ keyFault' \/ (i \in RestInstances => u.read = keys)
<1> DEFINE last == StoredChain[Len(StoredChain)]
           loaded == [Down EXCEPT !.up = TRUE, !.kid = Kids[version]]
           after == [loaded EXCEPT !.seq = last.body.seq, !.prev = last.receipt_hash]
           resumed == IF stored = <<>> THEN loaded ELSE after
           merging == [resumed EXCEPT !.read = keys]
           Fresh(u) == u \in Processes(signed) /\ u.up /\ u.kid = Kids[version] /\ u.mine = <<>>
           FromHead(u) == \/ u.seq = 0 /\ u.prev = Genesis
                          \/ \E r \in Genuine : u.seq = r.body.seq /\ u.prev = r.receipt_hash
<1>1. Kids[version] \in ToSet(Kids)
  BY PacketAssumption DEF ToSet
<1>2. Fresh(loaded) /\ loaded.read = Missing /\ loaded.seq = 0 /\ loaded.prev = Genesis
  <2>1. Down \in Processes(signed)
    BY DEF Down, Processes
  <2>2. Down.mine = <<>> /\ Down.read = Missing /\ Down.seq = 0 /\ Down.prev = Genesis
    BY DEF Down
  <2>3. QED BY <1>1, <2>1, <2>2 DEF Processes
<1> HIDE DEF loaded
<1>3. stored # <<>> => last \in Genuine
  <2>1. StoredChain \in Seq(Genuine) /\ (stored # <<>> => StoredChain # <<>>)
    BY StoredChainFacts DEF PacketInv
  <2>2. QED BY <2>1
<1>4. last \in Genuine => last.body \in signed /\ last.receipt_hash = Hash(last.body) /\ last.body.seq \in Nat
  <2>1. SignedInv
    BY DEF PacketInv
  <2> HIDE DEF last
  <2>2. QED BY <2>1, GenuineFacts, HashFacts
<1>5. last \in Genuine => /\ Fresh(after) /\ after.read = Missing
                          /\ after.seq = last.body.seq /\ after.prev = last.receipt_hash
  <2> HIDE DEF last
  <2>1. QED BY <1>2, <1>4 DEF Processes
<1> HIDE DEF after, last
<1>6. Fresh(resumed) /\ resumed.read = Missing /\ FromHead(resumed)
  BY <1>2, <1>3, <1>5
<1> HIDE DEF resumed
<1>7. keys \subseteq ToSet(Kids)
  BY DEF PacketInv, KeysInv
<1>8. Fresh(merging) /\ merging.read = keys /\ merging.seq = resumed.seq /\ merging.prev = resumed.prev
  BY <1>6, <1>7 DEF Processes
<1> HIDE DEF merging
<1>9. \/ inst' = [inst EXCEPT ![i] = IF i \in RestInstances THEN merging ELSE resumed]
      \/ /\ inst' = [inst EXCEPT ![i] = loaded]
         /\ keyFault' = (keyFault \/ i \in RestInstances \/ inst[i].read # Missing)
  BY Zenon DEF Start, merging, resumed, after, loaded, last
<1>10. CASE inst' = [inst EXCEPT ![i] = merging] /\ i \in RestInstances
  BY <1>1, <1>6, <1>8, <1>10
<1>11. CASE inst' = [inst EXCEPT ![i] = resumed] /\ i \notin RestInstances
  BY <1>1, <1>6, <1>11
<1>12. CASE /\ inst' = [inst EXCEPT ![i] = loaded]
            /\ keyFault' = (keyFault \/ i \in RestInstances \/ inst[i].read # Missing)
  BY <1>1, <1>2, <1>12
<1>13. QED BY <1>9, <1>10, <1>11, <1>12

\* A start keeps the invariant.
LEMMA StartStep ==
  ASSUME PacketInv, NEW i \in Instances, NEW version \in DOMAIN Kids, Start(i, version)
  PROVE  PacketInv'
<1>1. PICK u \in Processes(signed) :
        /\ inst' = [inst EXCEPT ![i] = u]
        /\ u.up /\ u.kid \in ToSet(Kids) /\ u.mine = <<>>
        /\ \/ u.seq = 0 /\ u.prev = Genesis
           \/ \E r \in Genuine : u.seq = r.body.seq /\ u.prev = r.receipt_hash
        /\ u.read \in {Missing, keys}
        /\ u.read # Missing => i \in RestInstances
        /\ keyFault' \/ (i \in RestInstances => u.read = keys)
  BY Started
<1>2. UNCHANGED <<signed, stored, keys>>
  BY DEF Start
<1>3. DOMAIN inst = Instances /\ SignedInv /\ KeysInv /\ stored \in Seq(Genuine)
  BY DEF PacketInv
<1>4. inst'[i] = u /\ \A j \in Instances : j # i => inst'[j] = inst[j]
  BY <1>1, <1>3
<1>5. DOMAIN inst' = Instances
  BY <1>1, <1>3
<1>6. \A j \in Instances : InstanceInv(j)'
  <2>1. ASSUME NEW j \in Instances, j # i PROVE InstanceInv(j)'
    BY <1>2, <1>4, <2>1, InstanceFrame DEF PacketInv
  <2>2. InstanceInv(i)'
    <3>1. u \in Processes(signed')
      BY <1>2
    <3>2. Len(u.mine) = 0 /\ u.seq \in Nat
      BY <1>1 DEF Processes
    <3>3. /\ u.prev = Genesis => u.seq = 0
          /\ u.prev # Genesis => \E b \in signed : u.prev = Hash(b) /\ u.seq = b.seq
      BY <1>1, <1>3, GenuineFacts, HashFacts
    <3>4. QED BY <1>1, <1>2, <1>4, <3>1, <3>2, <3>3 DEF InstanceInv, Hash
  <2>3. QED BY <2>1, <2>2
<1>7. KeysInv'
  <2>1. keyFault \in BOOLEAN /\ keys \subseteq ToSet(Kids)
    BY <1>3 DEF KeysInv
  <2>2. Missing # keys
    BY <2>1, PacketAssumption
  <2>3. keyFault' \in BOOLEAN /\ (keyFault => keyFault')
    BY <2>1 DEF Start
  <2>4. ASSUME ~keyFault'
        PROVE  /\ \A r \in ToSet(stored) : r.by \in RestInstances => r.sig.kid \in keys
               /\ \A j \in RestInstances : inst'[j].up /\ inst'[j].read = Missing => inst'[j].kid \in keys
               /\ \A j \in Instances :
                    inst'[j].read # Missing => j \in RestInstances /\ keys \subseteq inst'[j].read
    <3>1. /\ \A r \in ToSet(stored) : r.by \in RestInstances => r.sig.kid \in keys
          /\ \A j \in RestInstances : inst[j].up /\ inst[j].read = Missing => inst[j].kid \in keys
          /\ \A j \in Instances :
               inst[j].read # Missing => j \in RestInstances /\ keys \subseteq inst[j].read
      BY <1>3, <2>3, <2>4 DEF KeysInv, Serving
    <3>2. i \in RestInstances => u.read = keys
      BY <1>1, <2>4
    <3>3. \A j \in RestInstances : j \in Instances
      BY DEF Instances
    <3>4. QED BY <1>1, <1>4, <2>2, <3>1, <3>2, <3>3
  <2>5. QED BY <1>2, <2>1, <2>3, <2>4 DEF KeysInv, Serving
<1>8. JobInv'
  <2>1. job' = NoJob \/ UNCHANGED job
    BY DEF Start
  <2>2. CASE job' = NoJob
    BY <2>2 DEF JobInv, NoJob
  <2>3. CASE UNCHANGED job
    BY <1>2, <2>3, JobFrame DEF PacketInv
  <2>4. QED BY <2>1, <2>2, <2>3
<1>9. QED BY <1>2, <1>3, <1>5, <1>6, <1>7, <1>8, SignedFrame, GenuineGrows DEF PacketInv

\* save_keys writes a superset of the document unless another process is about to.
LEMMA PublishStep ==
  ASSUME PacketInv, NEW i \in RestInstances, PublishKey(i)
  PROVE  PacketInv'
<1>1. UNCHANGED <<signed, stored, job>> /\ inst[i].read # Missing
      /\ inst' = [inst EXCEPT ![i].read = Missing]
  BY DEF PublishKey
<1>2. DOMAIN inst = Instances /\ SignedInv /\ KeysInv /\ stored \in Seq(Genuine) /\ i \in Instances
  BY DEF PacketInv, Instances
<1>3. inst[i] \in Processes(signed)
  BY <1>2 DEF PacketInv, InstanceInv
<1>4. PICK u : u = [inst[i] EXCEPT !.read = Missing]
  OBVIOUS
<1>5. /\ u \in Processes(signed) /\ u.read = Missing
      /\ u.up = inst[i].up /\ u.kid = inst[i].kid /\ u.seq = inst[i].seq
      /\ u.prev = inst[i].prev /\ u.mine = inst[i].mine
  BY <1>3, <1>4 DEF Processes
<1>6. inst'[i] = u /\ (\A j \in Instances : j # i => inst'[j] = inst[j]) /\ DOMAIN inst' = Instances
  BY <1>1, <1>2, <1>4
<1>7. \A j \in Instances : InstanceInv(j)'
  <2>1. ASSUME NEW j \in Instances, j # i PROVE InstanceInv(j)'
    BY <1>1, <1>6, <2>1, InstanceFrame DEF PacketInv
  <2>2. InstanceInv(i)
    BY <1>2 DEF PacketInv
  <2>3. InstanceInv(i)'
    BY <1>1, <1>5, <1>6, <2>2 DEF InstanceInv, Processes, Hash
  <2>4. QED BY <2>1, <2>3
<1>8. KeysInv'
  <2>1. inst[i].read \subseteq ToSet(Kids)
    BY <1>1, <1>3 DEF Processes
  <2>2. \/ /\ keys' = inst[i].read \union {inst[i].kid}
           /\ keyFault' = (keyFault \/ \E j \in Instances \ {i} : inst[j].read # Missing)
        \/ keyFault' = TRUE /\ keys' = keys
    BY DEF PublishKey
  <2>3. keyFault \in BOOLEAN /\ keys \subseteq ToSet(Kids)
    BY <1>2 DEF KeysInv
  <2>4. CASE keyFault' = TRUE /\ keys' = keys
    BY <2>3, <2>4 DEF KeysInv
  <2>5. CASE /\ keys' = inst[i].read \union {inst[i].kid}
             /\ keyFault' = (keyFault \/ \E j \in Instances \ {i} : inst[j].read # Missing)
    <3>1. keys' \subseteq ToSet(Kids)
      <4>1. inst[i].kid \in ToSet(Kids)
        BY <1>1, <1>2 DEF PacketInv, InstanceInv
      <4>2. QED BY <2>1, <2>5, <4>1
    <3>2. ASSUME ~keyFault'
          PROVE  /\ \A r \in ToSet(stored) : r.by \in RestInstances => r.sig.kid \in keys'
                 /\ \A j \in RestInstances : inst'[j].up /\ inst'[j].read = Missing => inst'[j].kid \in keys'
                 /\ \A j \in Instances : inst'[j].read = Missing
      <4>1. \A j \in Instances \ {i} : inst[j].read = Missing
        BY <2>5, <3>2
      <4>2. /\ \A r \in ToSet(stored) : r.by \in RestInstances => r.sig.kid \in keys
            /\ \A j \in RestInstances : inst[j].up /\ inst[j].read = Missing => inst[j].kid \in keys
            /\ keys \subseteq inst[i].read
        BY <1>1, <1>2, <2>5, <3>2 DEF KeysInv, Serving
      <4>3. keys \subseteq keys' /\ inst[i].kid \in keys'
        BY <2>5, <4>2
      <4>4. \A j \in RestInstances : j \in Instances
        BY DEF Instances
      <4>5. QED BY <1>5, <1>6, <4>1, <4>2, <4>3, <4>4
    <3>3. QED BY <1>1, <2>3, <2>5, <3>1, <3>2 DEF KeysInv, Serving
  <2>6. QED BY <2>2, <2>4, <2>5
<1>9. JobInv'
  BY <1>1, JobFrame DEF PacketInv
<1>10. QED BY <1>1, <1>2, <1>6, <1>7, <1>8, <1>9, SignedFrame, GenuineGrows DEF PacketInv

\* Signing: the new body extends the head of its process, under a number of its own.
LEMMA DecideStep ==
  ASSUME PacketInv, NEW i \in Instances, Decide(i)
  PROVE  PacketInv'
<1> DEFINE request == Cardinality(signed) + 1
           call == Calls[Cardinality(signed) + 1]
           newBody == [request |-> Cardinality(signed) + 1, seq |-> inst[i].seq + 1,
                       prev_receipt |-> inst[i].prev, decision |-> call.decision]
           newReceipt == [body |-> newBody, receipt_hash |-> Hash(newBody),
                          agent |-> call.agent, by |-> i,
                          sig |-> [kid |-> inst[i].kid, alg |-> "EdDSA", value |-> <<inst[i].kid, newBody>>]]
<1>1. PICK b : b = newBody
  OBVIOUS
<1>2. PICK r : r = Receipt(b, inst[i].kid, i, call.agent)
  OBVIOUS
<1>3. r = newReceipt
  BY <1>1, <1>2 DEF Receipt
<1>4. /\ Serving(i)
      /\ Cardinality(signed) < Len(Calls)
      /\ inst' = [inst EXCEPT ![i].seq = newBody.seq, ![i].prev = newReceipt.receipt_hash,
                              ![i].mine = Append(@, newReceipt)]
      /\ signed' = signed \union {newBody}
      /\ stored' = Append(stored, newReceipt) \/ stored' = stored
      /\ UNCHANGED <<keys, keyFault, job>>
  BY Zenon DEF Decide
<1>5. /\ b.request = Cardinality(signed) + 1 /\ b.seq = inst[i].seq + 1
      /\ b.prev_receipt = inst[i].prev /\ b.decision = call.decision
  BY <1>1
<1>6. r.receipt_hash = Hash(b) /\ r.body = b /\ r.by = i /\ r.sig.kid = inst[i].kid
  BY <1>2 DEF Receipt
<1>7. /\ inst' = [inst EXCEPT ![i].seq = b.seq, ![i].prev = Hash(b), ![i].mine = Append(@, r)]
      /\ signed' = signed \union {b}
      /\ stored' = Append(stored, r) \/ stored' = stored
  BY <1>1, <1>3, <1>4, <1>6
<1> HIDE DEF newBody, newReceipt
<1>8. /\ DOMAIN inst = Instances /\ SignedInv /\ KeysInv /\ stored \in Seq(Genuine)
      /\ InstanceInv(i) /\ inst[i] \in Processes(signed) /\ inst[i].kid \in ToSet(Kids)
  BY <1>4 DEF PacketInv, InstanceInv, Serving
<1>9. Cardinality(signed) \in Nat /\ IsFiniteSet(signed) /\ request \in DOMAIN Calls
  <2>1. IsFiniteSet(signed) /\ Cardinality(signed) \in Nat
    BY <1>8, FS_CardinalityType DEF SignedInv
  <2>2. Len(Calls) \in Nat /\ DOMAIN Calls = 1 .. Len(Calls)
    BY PacketAssumption
  <2>3. QED BY <1>4, <2>1, <2>2
<1>10. \A c \in signed : c.request \in 1 .. Cardinality(signed)
  BY <1>8 DEF SignedInv
<1>11. b \notin signed
  BY <1>5, <1>9, <1>10
<1>12. IsFiniteSet(signed') /\ Cardinality(signed') = Cardinality(signed) + 1
  BY <1>7, <1>9, <1>11, FS_AddElement
<1>13. inst[i].seq \in Nat /\ inst[i].mine \in Seq(Genuine) /\ inst[i].read = Missing
  BY <1>4, <1>8 DEF Processes, Genuine, Serving
<1>14. SignedInv'
  <2>1. \A c \in signed' : /\ c.request \in 1 .. Cardinality(signed')
                           /\ c.seq \in Nat \ {0}
                           /\ c.decision = Calls[c.request].decision
    <3>1. \A c \in signed : /\ c.request \in 1 .. Cardinality(signed')
                            /\ c.seq \in Nat \ {0}
                            /\ c.decision = Calls[c.request].decision
      BY <1>8, <1>9, <1>12 DEF SignedInv
    <3>2. /\ b.request \in 1 .. Cardinality(signed')
          /\ b.seq \in Nat \ {0}
          /\ b.decision = Calls[b.request].decision
      BY <1>5, <1>9, <1>12, <1>13
    <3>3. QED BY <1>7, <3>1, <3>2
  <2>2. \A c \in signed' : \/ c.prev_receipt = Genesis /\ c.seq = 1
                           \/ \E d \in signed' : c.prev_receipt = Hash(d) /\ c.seq = d.seq + 1
    <3>1. \A c \in signed : \/ c.prev_receipt = Genesis /\ c.seq = 1
                            \/ \E d \in signed' : c.prev_receipt = Hash(d) /\ c.seq = d.seq + 1
      BY <1>7, <1>8 DEF SignedInv
    <3>2. \/ b.prev_receipt = Genesis /\ b.seq = 1
          \/ \E d \in signed' : b.prev_receipt = Hash(d) /\ b.seq = d.seq + 1
      BY <1>5, <1>7, <1>8 DEF InstanceInv
    <3>3. QED BY <1>7, <3>1, <3>2
  <2>3. \A c, d \in signed' : c.request = d.request => c = d
    <3>1. \A c \in signed : c.request # b.request
      BY <1>5, <1>9, <1>10
    <3>2. QED BY <1>7, <1>8, <3>1 DEF SignedInv
  <2>4. Cardinality(signed') <= Len(Calls)
    <3>1. Len(Calls) \in Nat
      BY PacketAssumption
    <3>2. QED BY <1>4, <1>9, <1>12, <3>1
  <2>5. QED BY <1>12, <2>1, <2>2, <2>3, <2>4 DEF SignedInv, Hash
<1>15. signed \subseteq signed' /\ Genuine \subseteq Genuine' /\ r \in Genuine'
  <2>1. signed \subseteq signed' /\ b \in signed'
    BY <1>7
  <2>2. call.agent \in {c.agent : c \in ToSet(Calls)}
    BY <1>9 DEF ToSet
  <2>3. r \in ReceiptsOver(signed')
    BY <1>2, <1>8, <2>1, <2>2 DEF ReceiptsOver
  <2>4. QED BY <2>1, <2>3, GenuineGrows DEF Genuine
<1>16. PICK u : u = [inst[i] EXCEPT !.seq = b.seq, !.prev = Hash(b), !.mine = Append(@, r)]
  OBVIOUS
<1>17. /\ u \in Processes(signed')
       /\ u.seq = inst[i].seq + 1 /\ u.prev = Hash(b) /\ u.mine = Append(inst[i].mine, r)
       /\ u.up = inst[i].up /\ u.kid = inst[i].kid /\ u.read = Missing
  <2>1. inst[i] \in Processes(signed')
    BY <1>8, <1>15, ProcessesGrow
  <2>2. Append(inst[i].mine, r) \in Seq(ReceiptsOver(signed'))
    BY <1>13, <1>15 DEF Genuine
  <2>3. Hash(b) \in {Hash(c) : c \in signed'} /\ b.seq \in Nat
    <3>1. b \in signed'
      BY <1>7
    <3>2. b.seq \in Nat
      BY <1>5, <1>13
    <3>3. QED BY <3>1, <3>2
  <2>4. QED BY <1>5, <1>13, <1>16, <2>1, <2>2, <2>3 DEF Processes
<1>18. inst'[i] = u /\ (\A j \in Instances : j # i => inst'[j] = inst[j]) /\ DOMAIN inst' = Instances
  BY <1>7, <1>8, <1>16
<1>19. \A j \in Instances : InstanceInv(j)'
  <2>1. ASSUME NEW j \in Instances, j # i PROVE InstanceInv(j)'
    BY <1>15, <1>18, <2>1, InstanceFrame DEF PacketInv
  <2>2. InstanceInv(i)'
    <3> DEFINE n == Len(inst[i].mine)
    <3>1. n \in Nat /\ n <= inst[i].seq /\ DOMAIN inst[i].mine = 1 .. n
      BY <1>8, <1>13 DEF InstanceInv
    <3>2. Len(u.mine) = n + 1 /\ u.mine[n + 1] = r /\ \A k \in 1 .. n : u.mine[k] = inst[i].mine[k]
      BY <1>13, <1>17
    <3>3. n > 0 => b.prev_receipt = inst[i].mine[n].receipt_hash
      BY <1>5, <1>8 DEF InstanceInv
    <3>4. \A k \in 1 .. n : /\ inst[i].mine[k].sig.kid = inst[i].kid
                            /\ inst[i].mine[k].body.seq = inst[i].seq - n + k
                            /\ k > 1 => inst[i].mine[k].body.prev_receipt = inst[i].mine[k - 1].receipt_hash
      BY <1>8 DEF InstanceInv
    <3> HIDE DEF n
    <3>5. ASSUME NEW k \in 1 .. n + 1
          PROVE  /\ u.mine[k].sig.kid = u.kid
                 /\ u.mine[k].body.seq = u.seq - (n + 1) + k
                 /\ k > 1 => u.mine[k].body.prev_receipt = u.mine[k - 1].receipt_hash
      <4>1. CASE k \in 1 .. n
        <5>1. k \in Int /\ (k > 1 => k - 1 \in 1 .. n)
          BY <3>1, <4>1
        <5>2. u.mine[k] = inst[i].mine[k] /\ (k > 1 => u.mine[k - 1] = inst[i].mine[k - 1])
          BY <3>2, <4>1, <5>1
        <5>3. inst[i].seq - n + k = u.seq - (n + 1) + k
          BY <1>13, <1>17, <3>1, <5>1
        <5>4. QED BY <1>17, <3>4, <4>1, <5>2, <5>3
      <4>2. CASE k = n + 1
        <5>1. u.mine[k] = r /\ (k > 1 => n > 0 /\ k - 1 = n /\ n \in 1 .. n)
          BY <3>1, <3>2, <4>2
        <5>2. k > 1 => u.mine[k - 1] = inst[i].mine[n]
          BY <3>2, <5>1
        <5>3. u.mine[k].body.seq = u.seq - (n + 1) + k
          BY <1>5, <1>6, <1>13, <1>17, <3>1, <4>2, <5>1
        <5>4. QED BY <1>6, <1>17, <3>3, <5>1, <5>2, <5>3
      <4>3. QED BY <3>1, <4>1, <4>2
    <3>6. u.prev # Genesis
      <4>1. Hash(b) # Genesis
        BY <1>5, <1>9, PacketAssumption DEF Hash
      <4>2. QED BY <1>17, <4>1
    <3>7. u.prev = Hash(b) /\ u.seq = b.seq /\ b \in signed'
      BY <1>5, <1>7, <1>17
    <3>8. n + 1 <= u.seq /\ (n + 1 > 0 => u.prev = u.mine[n + 1].receipt_hash)
      BY <1>6, <1>13, <1>17, <3>1, <3>2
    <3>9. u.kid \in ToSet(Kids)
      BY <1>8, <1>17
    <3>10. QED BY <1>17, <1>18, <3>2, <3>5, <3>6, <3>7, <3>8, <3>9 DEF InstanceInv, Hash
  <2>3. QED BY <2>1, <2>2
<1>20. /\ stored' \in Seq(Genuine')
       /\ ToSet(stored) \subseteq ToSet(stored')
       /\ ToSet(stored') \subseteq ToSet(stored) \union {r}
  <2>1. stored \in Seq(Genuine')
    BY <1>8, <1>15
  <2>2. CASE stored' = stored
    BY <2>1, <2>2
  <2>3. CASE stored' = Append(stored, r)
    <3>1. stored' \in Seq(Genuine') /\ DOMAIN stored' = DOMAIN stored \union {Len(stored) + 1}
      BY <1>15, <2>1, <2>3
    <3>2. stored'[Len(stored) + 1] = r /\ \A k \in DOMAIN stored : stored'[k] = stored[k]
      BY <2>1, <2>3
    <3>3. QED BY <3>1, <3>2 DEF ToSet
  <2>4. QED BY <1>7, <2>2, <2>3
<1>21. KeysInv'
  <2>1. keyFault \in BOOLEAN /\ keys \subseteq ToSet(Kids)
    BY <1>8 DEF KeysInv
  <2>2. ASSUME ~keyFault
        PROVE  /\ \A s \in ToSet(stored') : s.by \in RestInstances => s.sig.kid \in keys
               /\ \A j \in RestInstances : inst'[j].up /\ inst'[j].read = Missing => inst'[j].kid \in keys
               /\ \A j \in Instances :
                    inst'[j].read # Missing => j \in RestInstances /\ keys \subseteq inst'[j].read
    <3>1. /\ \A s \in ToSet(stored) : s.by \in RestInstances => s.sig.kid \in keys
          /\ \A j \in RestInstances : inst[j].up /\ inst[j].read = Missing => inst[j].kid \in keys
          /\ \A j \in Instances :
               inst[j].read # Missing => j \in RestInstances /\ keys \subseteq inst[j].read
      BY <1>8, <2>2 DEF KeysInv, Serving
    <3>2. r.by \in RestInstances => r.sig.kid \in keys
      BY <1>4, <1>6, <3>1 DEF Serving
    <3>3. \A j \in Instances : /\ inst'[j].up = inst[j].up /\ inst'[j].kid = inst[j].kid
                               /\ inst'[j].read = inst[j].read
      BY <1>13, <1>17, <1>18
    <3>4. \A j \in RestInstances : j \in Instances
      BY DEF Instances
    <3>5. QED BY <1>20, <3>1, <3>2, <3>3, <3>4
  <2>3. QED BY <1>4, <2>1, <2>2 DEF KeysInv, Serving
<1>22. JobInv'
  BY <1>4, <1>15, <1>20, JobFrame DEF PacketInv
<1>23. QED BY <1>14, <1>18, <1>19, <1>20, <1>21, <1>22 DEF PacketInv

-----------------------------------------------------------------------------
(* Steps: exports and paged reads.                                         *)

\* What a REST endpoint reads, from the store or from memory.
LEMMA VisibleChainFacts ==
  ASSUME PacketInv, NEW i \in Instances
  PROVE  /\ VisibleChain(i) \in Seq(Genuine)
         /\ \A n \in DOMAIN VisibleChain(i) : VisibleChain(i)[n].body.seq \in Nat
         /\ stored # <<>> => ToSet(VisibleChain(i)) = ToSet(stored)
<1>1. SignedInv /\ stored \in Seq(Genuine) /\ InstanceInv(i)
  BY DEF PacketInv
<1>2. inst[i].mine \in Seq(Genuine)
  BY <1>1 DEF InstanceInv, Processes, Genuine
<1>3. VisibleChain(i) \in Seq(Genuine) /\ (stored # <<>> => ToSet(VisibleChain(i)) = ToSet(stored))
  BY <1>1, <1>2, StoredChainFacts DEF VisibleChain
<1>4. \A n \in DOMAIN VisibleChain(i) : VisibleChain(i)[n] \in Genuine
  BY <1>3
<1>5. QED BY <1>1, <1>3, <1>4, GenuineFacts, HashFacts

\* The three reads of an export.
LEMMA ExportSteps ==
  ASSUME PacketInv,
         \/ \E i \in RestInstances, filter \in Filters : ReadReceipts(i, filter)
         \/ ReadAnchorsAndLog
         \/ CompletePacket
  PROVE  PacketInv'
<1>1. UNCHANGED <<signed, inst, stored, keys, keyFault>> /\ JobInv
  BY DEF PacketInv, ReadReceipts, ReadAnchorsAndLog, CompletePacket
<1>2. Genuine' = Genuine
  BY <1>1 DEF Genuine
<1>3. ASSUME NEW i \in RestInstances, NEW filter \in Filters, ReadReceipts(i, filter) PROVE JobInv'
  <2> DEFINE chain == VisibleChain(i)
             wanted == {n \in DOMAIN chain : Wanted(chain[n], filter)}
  <2>1. i \in Instances
    BY DEF Instances
  <2>2. job' = [at |-> "receipts", by |-> i, receipts |-> InOrder(chain, wanted)]
    BY <1>3 DEF ReadReceipts
  <2>3. chain \in Seq(Genuine) /\ \A n \in DOMAIN chain : chain[n].body.seq \in Nat
    BY <2>1, VisibleChainFacts
  <2>4. InOrder(chain, wanted) \in Seq(Genuine)
    <3>1. wanted \subseteq DOMAIN chain
      OBVIOUS
    <3> HIDE DEF chain, wanted
    <3>2. QED BY <2>3, <3>1, InOrderFacts
  <2>5. job'.at = "receipts" /\ job'.by = i /\ job'.receipts \in Seq(Genuine')
    BY <1>2, <2>2, <2>4
  <2>6. QED BY <2>1, <2>5 DEF JobInv
<1>4. ASSUME ReadAnchorsAndLog PROVE JobInv'
  <2>1. job.at = "receipts" /\ job'.at = "proofs" /\ job'.by = job.by /\ job'.receipts = job.receipts
    BY <1>4 DEF ReadAnchorsAndLog
  <2>2. QED BY <1>1, <1>2, <2>1 DEF JobInv
<1>5. ASSUME CompletePacket PROVE JobInv'
  <2>1. /\ job.at = "proofs" /\ job'.at = "packet" /\ job'.by = job.by
        /\ job'.receipts = job.receipts /\ job'.anchor_proofs = job.anchor_proofs
        /\ "receipts" \in DOMAIN job'
        /\ job'.counts = CountsOf(job.receipts, job.anchor_proofs)
        /\ job'.chain_integrity = ExportedIntegrity(job.receipts)
    BY <1>5 DEF CompletePacket
  <2>2. job.receipts \in Seq(Genuine) /\ job.by \in Instances
    BY <1>1, <2>1 DEF JobInv
  <2>3. QED BY <1>2, <2>1, <2>2 DEF JobInv
<1>6. QED BY <1>1, <1>3, <1>4, <1>5, ReadStep

\* A paged read begins with everything behind its cursor.
LEMMA StartPagingStep ==
  ASSUME PacketInv, StartPaging
  PROVE  PacketInv'
<1>1. UNCHANGED <<signed, inst, stored, keys, keyFault>>
  BY DEF StartPaging
<1>2. job' = [at |-> "paging", after |-> 0, got |-> {}, base |-> ToSet(stored)]
  BY DEF StartPaging
<1>3. job' \in PagedReads(signed', ToSet(stored'))
  BY <1>1, <1>2 DEF PagedReads
<1>4. \A r \in ToSet(stored) : ~(r.body.seq <= 0)
  <2>1. \A r \in ToSet(stored) : r \in Genuine
    BY DEF ToSet, PacketInv
  <2>2. SignedInv
    BY DEF PacketInv
  <2>3. QED BY <2>1, <2>2, GenuineFacts, HashFacts
<1>5. JobInv'
  BY <1>2, <1>3, <1>4 DEF JobInv
<1>6. QED BY <1>1, <1>5, ReadStep

\* A page holds the receipts behind the cursor up to the new one, or all of them.
LEMMA ReadPageStep ==
  ASSUME PacketInv, NEW i \in RestInstances, ReadPage(i)
  PROVE  PacketInv'
<1> DEFINE chain == VisibleChain(i)
           behind == {n \in DOMAIN chain : chain[n].body.seq > job.after}
           rest == InOrder(chain, behind)
           m == IF Len(rest) < PageSize THEN Len(rest) ELSE PageSize
           page == SubSeq(rest, 1, m)
           read == [job EXCEPT !.got = @ \union ToSet(page)]
           Alone == \A r, s \in ToSet(stored) : r.body.seq = s.body.seq => r = s
<1>1. UNCHANGED <<signed, inst, stored, keys, keyFault>> /\ job.at = "paging" /\ i \in Instances
  BY DEF ReadPage, Instances
<1>2. job' = IF Len(rest) > PageSize THEN [read EXCEPT !.after = NextCursor(page)]
             ELSE [read EXCEPT !.at = "pages_read"]
  BY DEF ReadPage
<1>3. /\ job \in PagedReads(signed, ToSet(stored))
      /\ Alone => \A r \in job.base : r.body.seq <= job.after => r \in job.got
  BY <1>1 DEF PacketInv, JobInv
<1>4. /\ chain \in Seq(Genuine)
      /\ \A n \in DOMAIN chain : chain[n].body.seq \in Nat
      /\ stored # <<>> => ToSet(chain) = ToSet(stored)
  BY <1>1, VisibleChainFacts
<1>5. behind \subseteq DOMAIN chain
  OBVIOUS
<1>6. \A r \in ToSet(chain) : r.body.seq > job.after => \E n \in behind : r = chain[n]
  BY DEF ToSet
<1> HIDE DEF chain, behind
<1>7. /\ rest \in Seq(Genuine)
      /\ ToSet(rest) = {chain[n] : n \in behind}
      /\ \A k, n \in 1 .. Len(rest) : k <= n => rest[k].body.seq <= rest[n].body.seq
  BY <1>4, <1>5, InOrderFacts
<1> HIDE DEF rest
<1>8. PageSize \in Nat /\ PageSize >= 1 /\ Len(rest) \in Nat /\ DOMAIN rest = 1 .. Len(rest)
  BY <1>7, PacketAssumption
<1>9. m \in Nat /\ m <= Len(rest)
  BY <1>8
<1>10. /\ page \in Seq(Genuine) /\ Len(page) = m
       /\ \A k \in 1 .. m : page[k] = rest[k]
  <2> HIDE DEF m
  <2>1. QED BY <1>7, <1>9
<1>11. ToSet(page) \subseteq Genuine /\ \A k \in 1 .. m : rest[k] \in ToSet(page)
  <2> HIDE DEF page, m
  <2>1. DOMAIN page = 1 .. m
    BY <1>10
  <2>2. QED BY <1>10, <2>1 DEF ToSet
<1> HIDE DEF page
<1>12. PICK got : got = job.got \union ToSet(page)
  OBVIOUS
<1>13. /\ read \in PagedReads(signed, ToSet(stored))
       /\ read.at = "paging" /\ read.after = job.after /\ read.base = job.base /\ read.got = got
  BY <1>1, <1>3, <1>11, <1>12 DEF PagedReads, Genuine
<1> HIDE DEF read
\* A receipt of the base behind the old cursor is in the rest.
<1>14. ASSUME NEW r \in job.base, ~(r.body.seq <= job.after)
       PROVE  r \in ToSet(stored) /\ r.body.seq \in Nat /\ \E k \in 1 .. Len(rest) : r = rest[k]
  <2>1. r \in ToSet(stored) /\ job.after \in Nat
    BY <1>3 DEF PagedReads
  <2>2. stored # <<>>
    BY <2>1 DEF ToSet
  <2>3. r \in ToSet(chain)
    BY <1>4, <2>1, <2>2
  <2>4. r.body.seq \in Nat
    BY <1>4, <2>3 DEF ToSet
  <2>5. r \in ToSet(rest)
    BY <1>6, <1>7, <1>14, <2>1, <2>3, <2>4
  <2>6. QED BY <1>8, <2>1, <2>4, <2>5 DEF ToSet
<1>15. CASE Len(rest) > PageSize
  <2>1. m = PageSize /\ PageSize \in 1 .. m /\ PageSize \in 1 .. Len(rest)
    <3>1. ~(Len(rest) < PageSize)
      BY <1>8, <1>15
    <3>2. m = PageSize
      BY <3>1
    <3> HIDE DEF m
    <3>3. QED BY <1>8, <1>15, <3>2
  <2>2. NextCursor(page) = rest[PageSize].body.seq
    BY <1>10, <2>1 DEF NextCursor
  <2>3. rest[PageSize] \in Genuine /\ rest[PageSize] \in ToSet(page)
    BY <1>7, <1>11, <2>1
  <2>4. rest[PageSize].body.seq \in Nat
    BY <2>3, GenuineFacts, HashFacts DEF PacketInv
  <2>5. /\ job' \in PagedReads(signed, ToSet(stored))
        /\ job'.at = "paging" /\ job'.after = rest[PageSize].body.seq
        /\ job'.base = job.base /\ job'.got = got
    BY <1>2, <1>13, <1>15, <2>2, <2>4 DEF PagedReads
  <2>6. ASSUME Alone, NEW r \in job.base, r.body.seq <= rest[PageSize].body.seq PROVE r \in got
    <3>1. CASE r.body.seq <= job.after
      BY <1>3, <1>12, <2>6, <3>1
    <3>2. CASE ~(r.body.seq <= job.after)
      <4>1. PICK k \in 1 .. Len(rest) : r = rest[k]
        BY <1>14, <3>2
      <4>2. CASE k <= PageSize
        <5> HIDE DEF m
        <5>1. k \in 1 .. m
          BY <1>8, <2>1, <4>2
        <5>2. QED BY <1>11, <1>12, <4>1, <5>1
      <4>3. CASE PageSize <= k
        <5>1. r.body.seq = rest[PageSize].body.seq
          BY <1>7, <1>14, <2>1, <2>4, <2>6, <3>2, <4>1, <4>3
        <5>2. stored # <<>> /\ r \in ToSet(stored)
          BY <1>14, <3>2 DEF ToSet
        <5>3. rest[PageSize] \in ToSet(stored)
          <6>1. rest[PageSize] \in ToSet(rest)
            BY <1>8, <2>1 DEF ToSet
          <6>2. rest[PageSize] \in ToSet(chain)
            BY <1>5, <1>7, <6>1 DEF ToSet
          <6>3. QED BY <1>4, <5>2, <6>2
        <5>4. r = rest[PageSize]
          BY <2>6, <5>1, <5>2, <5>3
        <5>5. QED BY <1>12, <2>3, <5>4
      <4>4. QED BY <1>8, <4>2, <4>3
    <3>3. QED BY <3>1, <3>2
  <2>7. JobInv'
    BY <1>1, <2>5, <2>6 DEF JobInv
  <2>8. QED BY <1>1, <2>7, ReadStep
<1>16. CASE ~(Len(rest) > PageSize)
  <2>1. m = Len(rest)
    <3>1. PICK n : n = Len(rest)
      OBVIOUS
    <3>2. n \in Int /\ PageSize \in Int /\ ~(n > PageSize)
      BY <1>8, <1>16, <3>1
    <3>3. n < PageSize \/ n = PageSize
      BY <3>2
    <3>4. QED BY <3>1, <3>3, Zenon
  <2>2. /\ job' \in PagedReads(signed, ToSet(stored))
        /\ job'.at = "pages_read" /\ job'.base = job.base /\ job'.got = got
    BY <1>2, <1>13, <1>16 DEF PagedReads
  <2>3. ASSUME Alone, NEW r \in job.base PROVE r \in got
    <3>1. CASE r.body.seq <= job.after
      BY <1>3, <1>12, <2>3, <3>1
    <3>2. CASE ~(r.body.seq <= job.after)
      BY <1>11, <1>12, <1>14, <2>1, <3>2
    <3>3. QED BY <3>1, <3>2
  <2>4. JobInv'
    BY <1>1, <2>2, <2>3 DEF JobInv
  <2>5. QED BY <1>1, <2>4, ReadStep
<1>17. QED BY <1>15, <1>16

-----------------------------------------------------------------------------
(* The theorems.                                                           *)

LEMMA NextInv ==
  ASSUME PacketInv, [Next]_vars
  PROVE  PacketInv'
<1>1. CASE UNCHANGED vars
  <2>1. UNCHANGED <<signed, inst, stored, keys, keyFault, job>>
    BY <1>1 DEF vars
  <2>2. JobInv'
    BY <2>1, JobFrame DEF PacketInv
  <2>3. QED BY <2>1, <2>2, ReadStep
<1>2. ASSUME NEW i \in Instances, NEW version \in DOMAIN Kids, Start(i, version) PROVE PacketInv'
  BY <1>2, StartStep
<1>3. ASSUME NEW i \in Instances, Decide(i) PROVE PacketInv'
  BY <1>3, DecideStep
<1>4. ASSUME NEW i \in RestInstances, PublishKey(i) PROVE PacketInv'
  BY <1>4, PublishStep
<1>5. ASSUME NEW i \in RestInstances, ReadPage(i) PROVE PacketInv'
  BY <1>5, ReadPageStep
<1>6. ASSUME \/ \E i \in RestInstances, filter \in Filters : ReadReceipts(i, filter)
             \/ ReadAnchorsAndLog
             \/ CompletePacket
      PROVE  PacketInv'
  BY <1>6, ExportSteps
<1>7. ASSUME (\E r \in ToSet(stored) : LogReceipt(r)) \/ AnchorBatch PROVE PacketInv'
  <2>1. UNCHANGED <<signed, inst, stored, keys, keyFault, job>>
    BY <1>7 DEF LogReceipt, AnchorBatch
  <2>2. JobInv'
    BY <2>1, JobFrame DEF PacketInv
  <2>3. QED BY <2>1, <2>2, ReadStep
<1>8. ASSUME StartPaging PROVE PacketInv'
  BY <1>8, StartPagingStep
<1>9. QED BY <1>1, <1>2, <1>3, <1>4, <1>5, <1>6, <1>7, <1>8 DEF Next

\* PacketInv holds in every state.
THEOREM PacketInvariant == Spec => []PacketInv
<1>1. QED BY InitInv, NextInv, PTL DEF Spec

\* No altered copy of a packet passes the offline verifier unless it only drops
\* receipts at its ends: every body it holds was signed, and none between is missing
\* (audit_packet_verifier.py).
THEOREM CopiesTamperEvident == Spec => []TamperEvident
<1>1. PacketInv => TamperEvident
  BY TamperEvidence DEF PacketInv
<1>2. QED BY <1>1, PacketInvariant, PTL

\* verify_chain and the packet verifier agree on every copy of a packet, and an
\* unaltered packet passes exactly when the exporter found its links whole and its
\* keys published, given that its inclusion proofs lead to their roots.
THEOREM VerifiersAlwaysAgree == Spec /\ []ProofsSound => []VerifiersAgree
<1>1. PacketInv /\ ProofsSound => VerifiersAgree
  BY VerifierAgreement DEF PacketInv
<1>2. QED BY <1>1, PacketInvariant, PTL

\* A process vouches for all it signed, POST /verify-receipt for what is stored under
\* a known key, and a rotation takes no key of the REST service away (verify.py).
THEOREM GenuineAlwaysVerify == Spec => []GenuineReceiptsVerify
<1>1. PacketInv => GenuineReceiptsVerify
  BY GenuineVerdicts
<1>2. QED BY <1>1, PacketInvariant, PTL

\* Following next_cursor returns every receipt stored at the first page, unless
\* receipts share a position (GET /chain).
THEOREM PagingMissesNothing == Spec => []PagedReadComplete
<1>1. PacketInv => PagedReadComplete
  BY PagesComplete DEF PacketInv
<1>2. QED BY <1>1, PacketInvariant, PTL

===============================================================================
