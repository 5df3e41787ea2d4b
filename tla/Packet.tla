-------------------------------- MODULE Packet --------------------------------
(***************************************************************************)
(* Evidence leaving the gateway: signed receipts, the keys that verify     *)
(* them, GET /chain page by page, GET /audit-packet, and the two           *)
(* verifiers, gateway/verify.py and gateway/audit_packet_verifier.py.      *)
(*                                                                         *)
(* Cryptography is symbolic.  A signature is the pair of the key that made *)
(* it and the body it covers.  Signed bodies differ in their request and a *)
(* changed copy differs in its decision: the two are the body's hash.  A   *)
(* body that canonicalize refuses (it holds a float) decides Float.        *)
(*                                                                         *)
(* REST instances and MCP instances each continue their own copy of the    *)
(* chain; a signing key may be rotated in Secret Manager while some of     *)
(* them run.  An exported packet is a file: the model stops when a packet  *)
(* is complete, and quantifies over the copies of it a reader may hold.    *)
(***************************************************************************)
EXTENDS Merkle, FiniteSets

CONSTANTS
  RestInstances,  \* processes of the REST service
  McpInstances,   \* processes of the MCP server
  Kids,           \* the versions of the signing key, oldest first
  Calls,          \* the requests, in the order they are decided: agent, decision
  Filters,        \* the filters of GET /audit-packet: first and last seq, agent
  Earlier,        \* the artifact logs to start from
  MaxAnchors,     \* bound: batches anchored
  MaxStarts,      \* bound: processes started
  MaxFaults,      \* bound: store calls that fail
  PageSize,       \* the limit of GET /chain
  LogLimit,       \* the entries a proof reads of the artifact log: 10000 in the code
  Genesis,        \* GENESIS_PREV_RECEIPT
  Missing,        \* a field that is absent
  Float           \* a value canonicalize refuses

ASSUME PacketAssumption ==
  /\ Kids \in Seq(ToSet(Kids))
  /\ Calls \in Seq(ToSet(Calls))
  /\ PageSize \in Nat \ {0}
  /\ LogLimit \in Nat
  /\ \A n \in DOMAIN Calls :
       /\ Calls[n].decision # Float
       /\ <<n, Calls[n].decision>> \notin {Missing, Genesis}
  /\ \A kids \in SUBSET ToSet(Kids) : Missing # kids

Instances == RestInstances \union McpInstances

VARIABLES
  left,      \* bound: starts and faults still to come
  secret,    \* the version Secret Manager serves as latest
  signed,    \* history: every body signed so far
  inst,      \* per instance: whether it is up, its key, chain head and receipts
  stored,    \* the receipts in Firestore, in the order of their writes
  keys,      \* the kids in the stored key document
  keyFault,  \* history: a key was not published, or overlapping starts lost one
  log,       \* the hashes of the artifact log, by position
  anchors,   \* anchor records, newest first
  job        \* the one read under way: a packet export or a paged read

vars == <<left, secret, signed, inst, stored, keys, keyFault, log, anchors, job>>

NoJob == [at |-> "none"]
Finished == job.at \in {"packet", "pages_read"}

Down == [up |-> FALSE, kid |-> Missing, seq |-> 0, prev |-> Genesis,
         mine |-> <<>>, read |-> Missing]

Init ==
  /\ left = [starts |-> MaxStarts, faults |-> MaxFaults]
  /\ secret = 1
  /\ signed = {}
  /\ inst = [i \in Instances |-> Down]
  /\ stored = <<>>
  /\ keys = {}
  /\ keyFault = FALSE
  /\ log \in Earlier
  /\ anchors = <<>>
  /\ job = NoJob

Hash(body) == <<body.request, body.decision>>

\* get_chain sorts by seq; receipts that share one come in some fixed order.
Before(rs, i, j) ==
  \/ rs[i].body.seq < rs[j].body.seq
  \/ rs[i].body.seq = rs[j].body.seq /\ i < j

\* The receipts at some positions, sorted.  Of a sorted chain it is a selection.
InOrder(rs, I) ==
  [n \in 1 .. Cardinality(I) |->
     rs[CHOOSE i \in I : Cardinality({j \in I : Before(rs, j, i)}) = n - 1]]

SortedBySeq(rs) == InOrder(rs, DOMAIN rs)
StoredChain == SortedBySeq(stored)

\* The receipts the REST endpoints read: the store's, or the process's own.
VisibleChain(i) == IF stored = <<>> THEN inst[i].mine ELSE StoredChain

-----------------------------------------------------------------------------
(* verify.py: one receipt, and a chain.                                    *)

Canonical(body) == body.decision # Float
SignatureHolds(r, kid) == r.sig.value = <<kid, r.body>>

\* Faulty variant: a hash that does not match is reported but does not fail.
IntegrityWithoutHash(r, kid) ==
  IF /\ r.sig.kid = kid
     /\ r.sig.alg = "EdDSA"
     /\ Canonical(r.body)
     /\ SignatureHolds(r, kid)
  THEN "PASS" ELSE "FAIL"

\* verify_receipt against one key; an envelope without a hash is accepted.
Integrity(r, kid) ==
  IF /\ r.sig.kid = kid
     /\ r.sig.alg = "EdDSA"
     /\ Canonical(r.body)
     /\ r.receipt_hash \in {Missing, Hash(r.body)}
     /\ SignatureHolds(r, kid)
  THEN "PASS" ELSE "FAIL"

\* Faulty variant: any earlier receipt is taken for the predecessor.
LinkToEarlier(r, chain) ==
  LET below == {i \in DOMAIN chain : chain[i].body.seq < r.body.seq}
      prior == chain[CHOOSE i \in below : \A j \in below : i <= j]
  IN IF r.body.prev_receipt = Genesis THEN "PASS"
     ELSE IF below = {} THEN "INCONCLUSIVE"
     ELSE IF prior.receipt_hash = r.body.prev_receipt THEN "PASS" ELSE "FAIL"

\* Its bounded check: the first receipt one position below, if there is one.
LinkTo(r, chain) ==
  LET below == {i \in DOMAIN chain : chain[i].body.seq = r.body.seq - 1}
      prior == chain[CHOOSE i \in below : \A j \in below : i <= j]
  IN IF r.body.prev_receipt = Genesis THEN "PASS"
     ELSE IF below = {} THEN "INCONCLUSIVE"
     ELSE IF prior.receipt_hash = r.body.prev_receipt THEN "PASS" ELSE "FAIL"

\* verify_chain: stops at the first receipt that fails; it reads receipt_hash
\* of every receipt it accepts and raises where that is absent.
VerifyChain(rs, known) ==
  LET good(i) ==
        /\ rs[i].sig.kid \in known
        /\ Integrity(rs[i], rs[i].sig.kid) = "PASS"
        /\ rs[i].body.seq = i
        /\ rs[i].body.prev_receipt = IF i = 1 THEN Genesis ELSE rs[i - 1].receipt_hash
      stops == {i \in DOMAIN rs : ~good(i) \/ rs[i].receipt_hash = Missing}
  IN IF rs = <<>> THEN "INCONCLUSIVE"
     ELSE IF stops = {} THEN "PASS"
     ELSE IF good(CHOOSE i \in stops : \A j \in stops : i <= j) THEN "RAISES" ELSE "FAIL"

\* _resolve_key: the stored key of the receipt's kid, else the process's own.
ResolveKey(i, r) == IF r.sig.kid \in keys THEN r.sig.kid ELSE inst[i].kid

\* POST /verify-receipt; and the MCP tool and A2A skill, which know the key and
\* the receipts of their own process only.
RestVerdict(i, r) ==
  [integrity |-> Integrity(r, ResolveKey(i, r)), link |-> LinkTo(r, VisibleChain(i))]
OwnVerdict(i, r) ==
  [integrity |-> Integrity(r, inst[i].kid), link |-> LinkTo(r, inst[i].mine)]

\* The A2A skill looks its receipt up by position in that chain.
SkillVerdict(i, seq) ==
  LET mine == inst[i].mine
      found == {n \in DOMAIN mine : mine[n].body.seq = seq}
  IN IF found = {} THEN [error |-> "RECEIPT_NOT_FOUND"]
     ELSE OwnVerdict(i, mine[CHOOSE n \in found : \A m \in found : n <= m])

-----------------------------------------------------------------------------
(* audit_packet_verifier.py.                                               *)

\* Faulty variant: a receipt without a key is passed over.
ReceiptsHoldWithoutKeys(packet) ==
  \A i \in DOMAIN packet.receipts : LET r == packet.receipts[i] IN
    /\ Canonical(r.body)
    /\ r.receipt_hash = Hash(r.body)
    /\ r.sig.kid \in packet.public_keys => SignatureHolds(r, r.sig.kid)

\* verify_receipt_signatures; the algorithm is not looked at.
ReceiptsHold(packet) ==
  \A i \in DOMAIN packet.receipts : LET r == packet.receipts[i] IN
    /\ Canonical(r.body)
    /\ r.receipt_hash = Hash(r.body)
    /\ r.sig.kid \in packet.public_keys
    /\ SignatureHolds(r, r.sig.kid)

\* verify_chain_continuity: sorted again; the first receipt may start anywhere
\* and a link to a receipt without a hash is skipped.
Continuous(receipts) ==
  LET rs == SortedBySeq(receipts)
  IN \A i \in 2 .. Len(rs) :
       rs[i - 1].receipt_hash \in {Missing, rs[i].body.prev_receipt}

\* verify_inclusion_proofs: against the root each proof itself carries.
InclusionHolds(packet) ==
  \A h \in DOMAIN packet.inclusion_proofs :
    Walk(h, packet.inclusion_proofs[h].proof) = packet.inclusion_proofs[h].merkle_root

Count(receipts, decision) == Len(SelectSeq(receipts, LAMBDA r : r.body.decision = decision))

CountsOf(receipts, records) ==
  [receipt_count |-> Len(receipts),
   approval_count |-> Count(receipts, "approve"),
   denial_count |-> Count(receipts, "deny"),
   anchor_count |-> Len(records)]

\* get_chain_stats of a process: its own receipts and the root of their tree.
ChainStats(i) ==
  LET mine == inst[i].mine
  IN [total_receipts |-> Len(mine), approvals |-> Count(mine, "approve"),
      denials |-> Count(mine, "deny"),
      merkle_root |-> IF mine = <<>> THEN Missing
                      ELSE Root("receipt", [n \in DOMAIN mine |-> mine[n].receipt_hash])]

\* verify_audit_packet without the on-chain step: report.passed.
Passed(packet) ==
  /\ ReceiptsHold(packet)
  /\ Continuous(packet.receipts)
  /\ InclusionHolds(packet)
  /\ packet.counts = CountsOf(packet.receipts, packet.anchor_proofs)

-----------------------------------------------------------------------------
(* Instances: start-up, signing and saving.                                *)

\* A process starts, in the place of an earlier one or not, with the latest key,
\* which may have been rotated since, and resumes the stored chain.  A REST
\* process also reads the key document, to write it back with its own key added.
\* If the store fails, none of this happens and the process serves all the same.
\* What an earlier process in its place was doing ends.
Start(i, version) ==
  LET last == StoredChain[Len(StoredChain)]
      loaded == [Down EXCEPT !.up = TRUE, !.kid = Kids[version]]
      resumed == IF stored = <<>> THEN loaded
                 ELSE [loaded EXCEPT !.seq = last.body.seq, !.prev = last.receipt_hash]
  IN /\ left.starts > 0
     /\ secret <= version
     /\ secret' = version
     /\ \/ /\ inst' = [inst EXCEPT ![i] =
                 IF i \in RestInstances THEN [resumed EXCEPT !.read = keys] ELSE resumed]
           /\ left' = [left EXCEPT !.starts = @ - 1]
           /\ keyFault' = (keyFault \/ inst[i].read # Missing)
        \/ /\ left.faults > 0
           /\ inst' = [inst EXCEPT ![i] = loaded]
           /\ left' = [starts |-> left.starts - 1, faults |-> left.faults - 1]
           /\ keyFault' = (keyFault \/ i \in RestInstances \/ inst[i].read # Missing)
     /\ job' = IF job.at \in {"receipts", "proofs"} /\ job.by = i THEN NoJob ELSE job
     /\ UNCHANGED <<signed, stored, keys, log, anchors>>

\* Faulty variant: the document is replaced by the process's own key.
PublishOwnKey(i) ==
  /\ inst[i].read # Missing
  /\ \/ /\ keys' = {inst[i].kid}
        /\ keyFault' = (keyFault \/ \E j \in Instances \ {i} : inst[j].read # Missing)
        /\ UNCHANGED left
     \/ /\ left.faults > 0
        /\ left' = [left EXCEPT !.faults = @ - 1]
        /\ keyFault' = TRUE
        /\ UNCHANGED keys
  /\ inst' = [inst EXCEPT ![i].read = Missing]
  /\ UNCHANGED <<secret, signed, stored, log, anchors, job>>

\* The second half of the merge: save_keys, which may fail.
PublishKey(i) ==
  /\ inst[i].read # Missing
  /\ \/ /\ keys' = inst[i].read \union {inst[i].kid}
        /\ keyFault' = (keyFault \/ \E j \in Instances \ {i} : inst[j].read # Missing)
        /\ UNCHANGED left
     \/ /\ left.faults > 0
        /\ left' = [left EXCEPT !.faults = @ - 1]
        /\ keyFault' = TRUE
        /\ UNCHANGED keys
  /\ inst' = [inst EXCEPT ![i].read = Missing]
  /\ UNCHANGED <<secret, signed, stored, log, anchors, job>>

Serving(i) == inst[i].up /\ inst[i].read = Missing

\* sign_decision and save_receipt; the write may fail.
Decide(i) ==
  LET call == Calls[Cardinality(signed) + 1]
      body == [request |-> Cardinality(signed) + 1, seq |-> inst[i].seq + 1,
               prev_receipt |-> inst[i].prev, decision |-> call.decision]
      receipt == [body |-> body, receipt_hash |-> Hash(body), agent |-> call.agent, by |-> i,
                  sig |-> [kid |-> inst[i].kid, alg |-> "EdDSA", value |-> <<inst[i].kid, body>>]]
  IN /\ Serving(i)
     /\ Cardinality(signed) < Len(Calls)
     /\ inst' = [inst EXCEPT ![i].seq = body.seq, ![i].prev = receipt.receipt_hash,
                             ![i].mine = Append(@, receipt)]
     /\ signed' = signed \union {body}
     /\ \/ stored' = Append(stored, receipt) /\ UNCHANGED left
        \/ left.faults > 0 /\ left' = [left EXCEPT !.faults = @ - 1] /\ UNCHANGED stored
     /\ UNCHANGED <<secret, keys, keyFault, log, anchors, job>>

\* The REST handler appends the hash to the artifact log after the receipt is
\* stored; the MCP tool does not.
LogReceipt(r) ==
  /\ r \in ToSet(stored)
  /\ r.by \in RestInstances
  /\ r.receipt_hash \notin ToSet(log)
  /\ log' = Append(log, r.receipt_hash)
  /\ UNCHANGED <<left, secret, signed, inst, stored, keys, keyFault, anchors, job>>

\* Anchoring publishes the root of what was logged since the last batch.
AnchorBatch ==
  LET from == IF anchors = <<>> THEN 1 ELSE anchors[1].artifact_seq_range[2] + 1
  IN /\ Len(anchors) < MaxAnchors
     /\ from <= Len(log)
     /\ anchors' = <<[merkle_root |-> Root("artifact", SubSeq(log, from, Len(log))),
                      artifact_seq_range |-> <<from, Len(log)>>,
                      tx_hash |-> Len(anchors) + 1]>> \o anchors
     /\ UNCHANGED <<left, secret, signed, inst, stored, keys, keyFault, log, job>>

-----------------------------------------------------------------------------
(* GET /audit-packet: three reads, with the gateway at work in between.    *)

Wanted(r, filter) ==
  /\ filter.start_seq <= r.body.seq
  /\ r.body.seq <= filter.end_seq
  /\ filter.agent_id \in {Missing, r.agent}

ReadReceipts(i, filter) ==
  LET chain == VisibleChain(i)
      wanted == {n \in DOMAIN chain : Wanted(chain[n], filter)}
  IN /\ Serving(i)
     /\ job = NoJob
     /\ job' = [at |-> "receipts", by |-> i, receipts |-> InOrder(chain, wanted)]
     /\ UNCHANGED <<left, secret, signed, inst, stored, keys, keyFault, log, anchors>>

\* Anchors whose range of log positions meets the range of receipt positions:
\* the two number different things.
CoveringAnchors(receipts) ==
  SelectSeq(anchors, LAMBDA a :
    receipts = <<>> \/
    /\ a.artifact_seq_range[2] >= receipts[1].body.seq
    /\ a.artifact_seq_range[1] <= receipts[Len(receipts)].body.seq)

\* The transaction of the first record with the proof's root, if any.
TxOf(root, records) ==
  LET same == SelectSeq(records, LAMBDA a : a.merkle_root = root)
  IN IF same = <<>> THEN Missing ELSE same[1].tx_hash

\* get_entries_since(0, limit): the oldest entries, whatever was anchored since.
ReadLog == SubSeq(log, 1, IF Len(log) < LogLimit THEN Len(log) ELSE LogLimit)

\* GET /artifacts/proof/{hash}, and the packet: over all that is read.
ArtifactProof(h) == InclusionProof(ReadLog, h)

\* list_anchor_records, then the proofs, without an await in between.  A failing
\* read of the log is caught and leaves the packet without proofs.  The audit
\* reports, fetched before, are read by neither verifier and left out.
ReadAnchorsAndLog ==
  LET records == CoveringAnchors(job.receipts)
      read(proofs) == [at |-> "proofs", by |-> job.by, receipts |-> job.receipts,
                       anchor_proofs |-> records, inclusion_proofs |-> proofs]
      logged == {r.receipt_hash : r \in ToSet(job.receipts)} \intersect ToSet(ReadLog)
      entry(h) == LET p == ArtifactProof(h) IN
        [merkle_root |-> p.root, leaf_index |-> p.leaf_index, proof |-> p.proof,
         anchor_tx_hash |-> TxOf(p.root, records)]
  IN /\ job.at = "receipts"
     /\ \/ job' = read([h \in logged |-> entry(h)]) /\ UNCHANGED left
        \/ /\ left.faults > 0
           /\ left' = [left EXCEPT !.faults = @ - 1]
           /\ job' = read(<<>>)
     /\ UNCHANGED <<secret, signed, inst, stored, keys, keyFault, log, anchors>>

\* Faulty variant: only repeated receipts count as a break.
ExportedIntegrityByCount(receipts) ==
  IF Len(receipts) = Cardinality(ToSet(receipts)) THEN "PASS" ELSE "FAIL"

\* metadata.chain_integrity: links only.
ExportedIntegrity(receipts) == IF Continuous(receipts) THEN "PASS" ELSE "FAIL"

\* get_keys, whose failure is passed over; the process's own key; the metadata.
CompletePacket ==
  LET packet(known) ==
        [at |-> "packet", by |-> job.by,
         receipts |-> job.receipts, anchor_proofs |-> job.anchor_proofs,
         inclusion_proofs |-> job.inclusion_proofs,
         public_keys |-> known \union {inst[job.by].kid},
         counts |-> CountsOf(job.receipts, job.anchor_proofs),
         chain_integrity |-> ExportedIntegrity(job.receipts)]
  IN /\ job.at = "proofs"
     /\ \/ job' = packet(keys) /\ UNCHANGED left
        \/ /\ left.faults > 0
           /\ left' = [left EXCEPT !.faults = @ - 1]
           /\ job' = packet({})
     /\ UNCHANGED <<secret, signed, inst, stored, keys, keyFault, log, anchors>>

-----------------------------------------------------------------------------
(* GET /chain with limit and after_seq, followed from page to page.        *)

StartPaging ==
  /\ job = NoJob
  /\ job' = [at |-> "paging", after |-> 0, got |-> {}, base |-> ToSet(stored)]
  /\ UNCHANGED <<left, secret, signed, inst, stored, keys, keyFault, log, anchors>>

\* Faulty variant: the next cursor is the page's own end plus one.
SkippingCursor(page) == page[Len(page)].body.seq + 1

NextCursor(page) == page[Len(page)].body.seq

ReadPage(i) ==
  LET chain == VisibleChain(i)
      rest == InOrder(chain, {n \in DOMAIN chain : chain[n].body.seq > job.after})
      page == SubSeq(rest, 1, IF Len(rest) < PageSize THEN Len(rest) ELSE PageSize)
      read == [job EXCEPT !.got = @ \union ToSet(page)]
  IN /\ Serving(i)
     /\ job.at = "paging"
     /\ job' = IF Len(rest) > PageSize THEN [read EXCEPT !.after = NextCursor(page)]
               ELSE [read EXCEPT !.at = "pages_read"]
     /\ UNCHANGED <<left, secret, signed, inst, stored, keys, keyFault, log, anchors>>

Next ==
  /\ ~Finished
  /\ \/ \E i \in Instances, version \in DOMAIN Kids : Start(i, version)
     \/ \E i \in Instances : Decide(i)
     \/ \E i \in RestInstances : PublishKey(i) \/ ReadPage(i)
     \/ \E i \in RestInstances, filter \in Filters : ReadReceipts(i, filter)
     \/ \E r \in ToSet(stored) : LogReceipt(r)
     \/ AnchorBatch
     \/ ReadAnchorsAndLog
     \/ CompletePacket
     \/ StartPaging

Spec == Init /\ [][Next]_vars

-----------------------------------------------------------------------------
(* Copies of a packet: receipts left out or one changed, counts redone.    *)

\* POST /tamper-test: a field changes under the hash and the signature.
Tampered(r) == [r EXCEPT !.body.decision = "other"]

Changed(r) ==
  LET other == Tampered(r).body
  IN {r, Tampered(r),
      [r EXCEPT !.receipt_hash = Hash(other)],
      [r EXCEPT !.body = other, !.receipt_hash = Hash(other)],
      [r EXCEPT !.body.decision = Float],
      [r EXCEPT !.receipt_hash = Missing],
      [r EXCEPT !.sig.alg = "other"],
      [r EXCEPT !.sig.kid = Missing]}

Copies(packet) ==
  LET rs == packet.receipts
      some == {InOrder(rs, I) : I \in SUBSET DOMAIN rs}
      altered == UNION {{[rs EXCEPT ![m] = c] : c \in Changed(rs[m])} : m \in DOMAIN rs}
  IN {[packet EXCEPT !.receipts = x, !.counts = CountsOf(x, packet.anchor_proofs)] :
        x \in some \union altered}

Exported == job.at = "packet"
KeysIncluded(packet) == \A r \in ToSet(packet.receipts) : r.sig.kid \in packet.public_keys

\* A copy of a packet that the offline verifier passes holds only bodies that a
\* surface signed, and none is missing between its first and its last receipt:
\* whatever was left out or changed, and however surfaces forked the chain.
TamperEvident ==
  Exported => \A copy \in Copies(job) : Passed(copy) =>
    LET bodies == {r.body : r \in ToSet(copy.receipts)}
    IN /\ bodies \subseteq signed
       /\ \A b \in bodies : \/ \A c \in bodies : b.seq <= c.seq
                            \/ b.prev_receipt \in {Hash(c) : c \in bodies}

\* The two verifiers, written twice, agree on every copy: verify_chain passes
\* exactly the receipts the packet verifier passes, when they start at genesis,
\* stand in the order of their positions and name the algorithm.  And an unaltered
\* packet passes exactly when the exporter found the links whole and every key it
\* needs was published in time: reads at different moments, with receipts, anchors
\* and keys arriving in between, never make it inconsistent.
VerifiersAgree ==
  Exported =>
  /\ \A copy \in Copies(job) :
       LET rs == copy.receipts
       IN VerifyChain(rs, copy.public_keys) = "PASS" <=>
          /\ ReceiptsHold(copy)
          /\ Continuous(rs)
          /\ rs # <<>>
          /\ rs[1].body.prev_receipt = Genesis
          /\ rs = SortedBySeq(rs)
          /\ \A r \in ToSet(rs) : r.sig.alg = "EdDSA"
  /\ Passed(job) <=> job.chain_integrity = "PASS" /\ KeysIncluded(job)

\* Every inclusion proof of a packet leads to the root of the RFC 6962 tree over
\* a state of the log, and the root in the statistics is that tree's over the
\* receipts.  docs/audit-packet-spec.md:165-167 prescribes the receipt tags for the
\* walk and a comparison with the anchor's root; the code walks with the artifact
\* tags, as in the log, and compares with the proof's own root.  That comparison
\* would succeed for the proofs that name a transaction and for no others, and a
\* transaction is named only when the first batch was all the proof reads.
ProofsSound ==
  Exported =>
  /\ LET stats == ChainStats(job.by) IN
     stats.total_receipts > 0 => stats.merkle_root =
       SplitRoot("receipt", [n \in DOMAIN inst[job.by].mine |-> inst[job.by].mine[n].receipt_hash])
  /\ \A h \in DOMAIN job.inclusion_proofs :
    LET p == job.inclusion_proofs[h]
    IN /\ Walk(h, p.proof) = p.merkle_root
       /\ \E n \in 1 .. Len(log) : p.merkle_root = SplitRoot("artifact", SubSeq(log, 1, n))
       /\ \A a \in ToSet(job.anchor_proofs) :
            p.anchor_tx_hash = a.tx_hash <=> p.merkle_root = a.merkle_root
       /\ \A a \in ToSet(anchors) : p.anchor_tx_hash = a.tx_hash =>
            /\ a.artifact_seq_range[1] = 1
            /\ p.merkle_root = Root("artifact", SubSeq(log, 1, a.artifact_seq_range[2]))
            /\ \E q \in 1 .. a.artifact_seq_range[2] : log[q] = h

\* What verify_receipt says of a genuine receipt.  A process vouches for all it
\* signed, on its own surfaces, across restarts and forks; POST /verify-receipt
\* confirms the integrity of every stored receipt whose key was published, and
\* calls a link broken only where surfaces signed one position twice.  Rotating
\* the signing key takes no evidence away: unless a REST process failed in its
\* start-up or two merged their keys at once, the key of every receipt the REST
\* service signed stays published.
GenuineReceiptsVerify ==
  /\ \A i \in Instances :
       /\ \A r \in ToSet(inst[i].mine) :
            /\ SkillVerdict(i, r.body.seq) = OwnVerdict(i, r)
            /\ OwnVerdict(i, r).integrity = "PASS"
            /\ OwnVerdict(i, r).link # "FAIL"
       /\ \A r \in ToSet(stored) : inst[i].up =>
            /\ RestVerdict(i, r).integrity = "PASS" <=> r.sig.kid \in keys \union {inst[i].kid}
            /\ RestVerdict(i, r).link = "FAIL" =>
                 \E b, c \in signed : b # c /\ b.seq = r.body.seq - 1 /\ c.seq = b.seq
  /\ keyFault \/ \A r \in ToSet(stored) : r.by \in RestInstances => r.sig.kid \in keys

\* Following next_cursor to the end returns every receipt that was stored when
\* the first page was asked for, receipts arriving meanwhile or not, unless
\* surfaces had forked the chain (GET /chain pages by seq alone).
PagedReadComplete ==
  job.at = "pages_read" /\ (\A r, s \in ToSet(stored) : r.body.seq = s.body.seq => r = s)
    => job.base \subseteq job.got
===============================================================================
