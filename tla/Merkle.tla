-------------------------------- MODULE Merkle --------------------------------
(***************************************************************************)
(* The hash trees of gateway/merkle.py and their second copy in            *)
(* gateway/audit_packet_verifier.py.  SHA-256 is a free constructor: a     *)
(* digest is the tuple of its domain tag and its inputs, so two digests    *)
(* are equal only when all their inputs are.  "receipt" and "artifact"     *)
(* stand for the two pairs of domain tags.                                 *)
(***************************************************************************)
EXTENDS SequencesExt, Integers

LeafHash(domain, h) == <<domain, "leaf", h>>
NodeHash(domain, left, right) == <<domain, "node", left, right>>

Leaves(domain, hashes) == [i \in 1 .. Len(hashes) |-> LeafHash(domain, hashes[i])]

\* Faulty variant: an odd node is hashed with itself.
DuplicatedPairs(domain, level) ==
  [i \in 1 .. (Len(level) + 1) \div 2 |->
     NodeHash(domain, level[2 * i - 1], level[IF 2 * i <= Len(level) THEN 2 * i ELSE 2 * i - 1])]

\* The next level up: neighbours are hashed, an odd last node is promoted.
Pairs(domain, level) ==
  [i \in 1 .. (Len(level) + 1) \div 2 |->
     IF 2 * i <= Len(level)
     THEN NodeHash(domain, level[2 * i - 1], level[2 * i])
     ELSE level[2 * i - 1]]

\* _build_tree: the level k steps above the leaves.
Level(domain, hashes, k) ==
  LET up[n \in Nat] == IF n = 0 THEN Leaves(domain, hashes) ELSE Pairs(domain, up[n - 1])
  IN up[k]

Height(hashes) == CHOOSE k \in 0 .. Len(hashes) :
  /\ 2 ^ k >= Len(hashes)
  /\ \A j \in 0 .. k - 1 : 2 ^ j < Len(hashes)

\* compute_unified_root and compute_batch_root, for a list that is not empty.
Root(domain, hashes) == Level(domain, hashes, Height(hashes))[1]

\* The sibling of the node at a 0-based index; a promoted node has none.
Sibling(level, index) ==
  IF index % 2 = 0
  THEN IF index + 1 < Len(level)
       THEN <<[hash |-> level[index + 2], direction |-> "right"]>> ELSE <<>>
  ELSE <<[hash |-> level[index], direction |-> "left"]>>

\* compute_inclusion_proof, for a hash in the list: its first occurrence counts.
InclusionProof(hashes, h) ==
  LET first == CHOOSE i \in 1 .. Len(hashes) :
                 hashes[i] = h /\ \A j \in 1 .. i - 1 : hashes[j] # h
      steps == [k \in 1 .. Height(hashes) |->
                  Sibling(Level("artifact", hashes, k - 1), (first - 1) \div 2 ^ (k - 1))]
  IN [root |-> Root("artifact", hashes), leaf_index |-> first - 1, proof |-> FlattenSeq(steps)]

\* The verifier's walk from the leaf along a proof path.
Walk(h, path) ==
  LET climb(at, step) == IF step.direction = "right"
                         THEN NodeHash("artifact", at, step.hash)
                         ELSE NodeHash("artifact", step.hash, at)
  IN FoldLeft(climb, LeafHash("artifact", h), path)

\* Reference: the tree of RFC 6962, section 2.1, which splits a list of n
\* hashes after the largest power of two smaller than n.
SplitRoot(domain, hashes) ==
  LET split(n) == CHOOSE m \in {2 ^ j : j \in 0 .. n} : m < n /\ n <= 2 * m
      tree[from \in Nat, n \in Nat] ==
        IF n = 1 THEN LeafHash(domain, hashes[from])
        ELSE NodeHash(domain, tree[from, split(n)], tree[from + split(n), n - split(n)])
  IN tree[1, Len(hashes)]
===============================================================================
