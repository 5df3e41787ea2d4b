-------------------------- MODULE ContainmentProofs --------------------------
(***************************************************************************)
(* Proofs about Auditing.tla and, after them, Containment.tla: the         *)
(* checkpoint passes over no receipt, and revocations, isolation records,  *)
(* incidents and audit reports agree; for any receipts, ticks, agents and  *)
(* concurrent handlers, any plans and severities, and any errors and       *)
(* crashes.                                                                *)
(***************************************************************************)
EXTENDS Containment, FiniteSetTheorems, SequenceTheorems, TLAPS

-----------------------------------------------------------------------------
(* The Auditor: what a fetch returns.                                      *)

Above(since) == {r \in Receipts : seq[r] > since}

\* A batch is a sequence of receipts above the checkpoint, by position, and
\* what it leaves out lies at or above all of it.
LEMMA BatchFacts ==
  ASSUME NEW since \in 0 .. MaxSeq, NEW b \in Batches(since)
  PROVE  /\ b \in Seq(Receipts)
         /\ \A i \in DOMAIN b : b[i] \in Above(since)
         /\ \A i, j \in DOMAIN b : i <= j => i = j \/ seq[b[i]] <= seq[b[j]]
         /\ \A r \in Above(since), i \in DOMAIN b :
              r \in {b[k] : k \in DOMAIN b} \/ seq[b[i]] <= seq[r]
<1> DEFINE U == {r \in Receipts : seq[r] > since}
           n == IF Cardinality(U) < MaxPerTick THEN Cardinality(U) ELSE MaxPerTick
<1>1. n \in Nat
  <2>1. IsFiniteSet(U)
    BY FS_Subset, AuditingAssumption
  <2>2. Cardinality(U) \in Nat
    BY <2>1, FS_CardinalityType
  <2>3. QED BY <2>2, AuditingAssumption
<1>2. /\ b \in [1 .. n -> U]
      /\ \A i, j \in 1 .. n : i < j => b[i] # b[j] /\ seq[b[i]] <= seq[b[j]]
      /\ \A r \in U : r \in {b[i] : i \in 1 .. n} \/ \A i \in 1 .. n : seq[b[i]] <= seq[r]
  BY DEF Batches
<1> HIDE DEF n
<1>3. DOMAIN b = 1 .. n /\ \A i \in 1 .. n : b[i] \in U
  BY <1>2
<1>4. b \in Seq(Receipts)
  <2>1. b \in [1 .. n -> Receipts]
    BY <1>2
  <2>2. QED BY <1>1, <2>1, SeqDef
<1>5. \A i, j \in DOMAIN b : i <= j => i = j \/ seq[b[i]] <= seq[b[j]]
  BY <1>1, <1>2, <1>3
<1>6. QED BY <1>2, <1>3, <1>4, <1>5 DEF Above

-----------------------------------------------------------------------------
(* Types.                                                                  *)

Working(t) == tick[t].pc \in {"audit", "checkpoint", "publish"}

TypeInv ==
  /\ AuditTypeOK
  /\ \A t \in Ticks : Working(t) => tick[t].batch # <<>>

TickRecord == [pc : {"idle", "fetch", "audit", "hung", "checkpoint", "publish"},
               since : 0 .. MaxSeq, batch : Seq(Receipts), verdict : Verdicts]

LEMMA PositionsTyped ==
  ASSUME NEW r \in Receipts, NEW s \in Positions[r]
  PROVE  s \in 1 .. MaxSeq /\ s \in 0 .. MaxSeq
<1>1. Positions[r] \in SUBSET (1 .. MaxSeq)
  BY AuditingAssumption
<1>2. QED BY <1>1, AuditingAssumption

LEMMA NextReceiptTyped ==
  ASSUME TypeInv, NEW t \in Ticks, Working(t), NextReceipt(t)
  PROVE  /\ tick' \in [Ticks -> TickRecord]
         /\ \A x \in Ticks : Working(x)' => tick'[x].batch # <<>>
<1> DEFINE rest == Tail(tick[t].batch)
<1>1. tick \in [Ticks -> TickRecord] /\ tick[t].batch # <<>>
  BY DEF TypeInv, AuditTypeOK, TickRecord
<1>2. rest \in Seq(Receipts)
  BY <1>1 DEF TickRecord
<1>3. 0 \in 0 .. MaxSeq
  BY AuditingAssumption
<1>4. NoTick \in TickRecord
  BY <1>3 DEF NoTick, TickRecord, Verdicts
<1>5. [NoTick EXCEPT !.pc = "audit", !.batch = rest] \in TickRecord
  BY <1>2, <1>3 DEF NoTick, TickRecord, Verdicts
<1>6. /\ \A x \in Ticks \ {t} : tick'[x] = tick[x]
      /\ tick'[t] = IF rest = <<>> THEN NoTick ELSE [NoTick EXCEPT !.pc = "audit", !.batch = rest]
      /\ tick' \in [Ticks -> TickRecord]
  BY <1>1, <1>4, <1>5 DEF NextReceipt
<1>7. Working(t)' => tick'[t].batch # <<>>
  BY <1>6 DEF Working, NoTick
<1>8. QED BY <1>6, <1>7 DEF TypeInv, Working

LEMMA TypeStep == TypeInv /\ [AuditNext]_auditVars => TypeInv'
<1> SUFFICES ASSUME TypeInv, [AuditNext]_auditVars PROVE TypeInv'
  OBVIOUS
<1>0. /\ tick \in [Ticks -> TickRecord]
      /\ \A t \in Ticks : Working(t) => tick[t].batch # <<>>
  BY DEF TypeInv, AuditTypeOK, TickRecord
<1>h. ASSUME NEW t \in Ticks, Working(t)
      PROVE  Head(tick[t].batch) \in Receipts
  BY <1>h, <1>0 DEF TickRecord
<1>n. 0 \in 0 .. MaxSeq /\ NoTick \in TickRecord
  <2>1. 0 \in 0 .. MaxSeq
    BY AuditingAssumption
  <2>2. QED BY <2>1 DEF NoTick, TickRecord, Verdicts
<1>m. ASSUME Mishap PROVE mishaps' \in 0 .. MaxMishaps
  BY <1>m, AuditingAssumption DEF Mishap, TypeInv, AuditTypeOK
<1>1. CASE UNCHANGED auditVars
  BY <1>1 DEF auditVars, auditorVars, TypeInv, AuditTypeOK, Working
<1>2. ASSUME NEW r \in Receipts, NEW s \in Positions[r], Store(r, s) PROVE TypeInv'
  <2>1. s \in 0 .. MaxSeq
    BY PositionsTyped
  <2>2. QED BY <1>2, <2>1 DEF Store, Stored, TypeInv, AuditTypeOK, Working
<1>3. ASSUME NEW t \in Ticks, ReadCheckpoint(t) PROVE TypeInv'
  <2>1. [NoTick EXCEPT !.pc = "fetch", !.since = checkpoint] \in TickRecord
    <3>1. checkpoint \in 0 .. MaxSeq
      BY DEF TypeInv, AuditTypeOK
    <3>2. QED BY <1>n, <3>1 DEF TickRecord
  <2>2. tick' \in [Ticks -> TickRecord]
    BY <1>3, <2>1, <1>0 DEF ReadCheckpoint
  <2>3. \A x \in Ticks : Working(x)' => tick'[x].batch # <<>>
    BY <1>3, <1>0 DEF ReadCheckpoint, Working, NoTick
  <2>4. QED BY <1>3, <2>2, <2>3 DEF ReadCheckpoint, TypeInv, AuditTypeOK, TickRecord
<1>4. ASSUME NEW t \in Ticks, Fetch(t) PROVE TypeInv'
  <2>1. PICK b \in Batches(tick[t].since) :
          tick' = [tick EXCEPT ![t] = IF b = <<>> THEN NoTick
                                      ELSE [NoTick EXCEPT !.pc = "audit", !.batch = b]]
    BY <1>4 DEF Fetch
  <2>2. b \in Seq(Receipts)
    BY <2>1, <1>0, BatchFacts DEF TickRecord
  <2>3. NoTick \in TickRecord /\ [NoTick EXCEPT !.pc = "audit", !.batch = b] \in TickRecord
    BY <2>2, <1>n DEF NoTick, TickRecord, Verdicts
  <2>4. tick' \in [Ticks -> TickRecord]
    BY <2>1, <2>3, <1>0
  <2>5. \A x \in Ticks : Working(x)' => tick'[x].batch # <<>>
    BY <2>1, <1>0 DEF Working, NoTick
  <2>6. QED BY <1>4, <2>4, <2>5 DEF Fetch, TypeInv, AuditTypeOK, TickRecord
<1>5. ASSUME NEW t \in Ticks, NEW v \in Verdicts, Report(t, v) PROVE TypeInv'
  <2>1. Head(tick[t].batch) \in Receipts
    BY <1>5, <1>h DEF Report, Working
  <2>2. tick' \in [Ticks -> TickRecord]
    BY <1>5, <1>0 DEF Report, TickRecord
  <2>3. \A x \in Ticks : Working(x)' => tick'[x].batch # <<>>
    BY <1>5, <1>0 DEF Report, Working, TickRecord
  <2>4. QED BY <1>5, <2>1, <2>2, <2>3 DEF Report, TypeInv, AuditTypeOK, TickRecord, Reports
<1>6. ASSUME NEW t \in Ticks, ReportFails(t) PROVE TypeInv'
  <2>1. Working(t) /\ NextReceipt(t) /\ Mishap
    BY <1>6 DEF ReportFails, Working
  <2>2. QED
    BY <1>6, <1>h, <1>m, <2>1, NextReceiptTyped, SMTT(60)
       DEF ReportFails, TypeInv, AuditTypeOK, TickRecord, Reports
<1>7. ASSUME NEW t \in Ticks, SetCheckpoint(t) PROVE TypeInv'
  <2>1. seq[Head(tick[t].batch)] \in 0 .. MaxSeq
    BY <1>7, <1>h DEF SetCheckpoint, Working, TypeInv, AuditTypeOK
  <2>2. /\ tick' \in [Ticks -> TickRecord]
        /\ \A x \in Ticks : Working(x)' => tick'[x].batch # <<>>
    <3>1. CASE tick[t].verdict = "CONFLICT"
      BY <1>7, <1>0, <3>1, ZenonT(60) DEF SetCheckpoint, Working, TickRecord
    <3>2. CASE tick[t].verdict # "CONFLICT"
      BY <1>7, <3>2, NextReceiptTyped DEF SetCheckpoint, Working
    <3>3. QED BY <3>1, <3>2
  <2>3. QED BY <1>7, <2>1, <2>2 DEF SetCheckpoint, TypeInv, AuditTypeOK, TickRecord
<1>8. ASSUME NEW t \in Ticks, CheckpointFails(t) PROVE TypeInv'
  <2>1. Working(t) /\ NextReceipt(t) /\ Mishap
    BY <1>8 DEF CheckpointFails, Working
  <2>2. seq[Head(tick[t].batch)] \in 0 .. MaxSeq
    BY <2>1, <1>h DEF TypeInv, AuditTypeOK
  <2>3. checkpoint' \in 0 .. MaxSeq
    BY <1>8, <2>2 DEF CheckpointFails, TypeInv, AuditTypeOK
  <2>4. QED
    BY <1>8, <1>h, <1>m, <2>1, <2>3, NextReceiptTyped
       DEF CheckpointFails, TypeInv, AuditTypeOK, TickRecord
<1>9. ASSUME NEW t \in Ticks, Publish(t) PROVE TypeInv'
  <2>1. Working(t) /\ NextReceipt(t)
    BY <1>9 DEF Publish, Working
  <2>2. QED
    BY <1>9, <1>h, <1>m, <2>1, NextReceiptTyped
       DEF Publish, TypeInv, AuditTypeOK, TickRecord
<1>10. ASSUME NEW r \in Receipts, NEW v \in Verdicts, AuditOnDemand(r, v) PROVE TypeInv'
  BY <1>10 DEF AuditOnDemand, TypeInv, AuditTypeOK, Reports, Working
<1>11. CASE AuditorCrash
  <2>1. {Head(tick[t].batch) : t \in {x \in Ticks : InHand(x)}} \subseteq Receipts
    BY <1>h DEF InHand, Working
  <2>2. tick' \in [Ticks -> TickRecord] /\ \A x \in Ticks : ~Working(x)'
    BY <1>11, <1>n DEF AuditorCrash, Working, NoTick
  <2>3. QED
    BY <1>11, <1>m, <2>1, <2>2 DEF AuditorCrash, TypeInv, AuditTypeOK, TickRecord
<1>12. ASSUME NEW t \in Ticks, AnswerUnusable(t) PROVE TypeInv'
  <2>1. Working(t) /\ NextReceipt(t)
    BY <1>12 DEF AnswerUnusable, Working
  <2>2. QED
    BY <1>12, <1>h, <2>1, NextReceiptTyped
       DEF AnswerUnusable, TypeInv, AuditTypeOK, TickRecord
<1>13. ASSUME NEW t \in Ticks, Hang(t) PROVE TypeInv'
  <2>1. tick' \in [Ticks -> TickRecord]
    BY <1>13, <1>0 DEF Hang, TickRecord
  <2>2. \A x \in Ticks : Working(x)' => tick'[x].batch # <<>>
    BY <1>13, <1>0 DEF Hang, Working, TickRecord
  <2>3. QED BY <1>13, <1>m, <2>1, <2>2 DEF Hang, TypeInv, AuditTypeOK, TickRecord
<1>14. QED
  BY <1>1, <1>2, <1>3, <1>4, <1>5, <1>6, <1>7, <1>8, <1>9, <1>10, <1>11, <1>12, <1>13
     DEF AuditNext, TickStep

LEMMA TypeInvariant == AuditSpec => []TypeInv
<1>1. AuditInit => TypeInv
  BY AuditingAssumption
     DEF AuditInit, TypeInv, AuditTypeOK, NoTick, Verdicts, Working
<1>2. QED BY <1>1, TypeStep, PTL DEF AuditSpec

\* The state of the auditor stays well typed.
THEOREM AuditTypeCorrect == AuditSpec => []AuditTypeOK
<1>1. TypeInv => AuditTypeOK
  BY DEF TypeInv
<1>2. QED BY <1>1, TypeInvariant, PTL

-----------------------------------------------------------------------------
(* The checkpoint passes over no receipt.                                  *)
(*                                                                         *)
(* NothingPassedOver says of the checkpoint what the ticks must have kept  *)
(* up to the moment they set it: a tick may still set it to the position   *)
(* of any receipt of its batch, in any order with other ticks.  So the     *)
(* inductive invariant says of every batch that what lies below one of its *)
(* receipts is accounted for or in the batch, and of a checkpoint a tick   *)
(* has read that it is covered and was reached by a stored receipt, which  *)
(* makes every later arrival below it irregular.                           *)

Accounted == Audited \union failed \union irregular

Reached(c) == c = 0 \/ \E x \in Stored : c <= seq[x]

Covered(c) == \A r \in Stored : seq[r] <= c => r \in Accounted

SharedIsIrregular ==
  \A r, x \in Stored : r # x /\ seq[r] = seq[x] => r \in irregular

BatchInv(b) ==
  /\ \A i \in DOMAIN b : b[i] \in Stored
  /\ \A i, j \in DOMAIN b : i <= j => seq[b[i]] <= seq[b[j]]
  /\ \A r \in Stored, i \in DOMAIN b :
       seq[r] < seq[b[i]] => r \in Accounted \/ \E k \in DOMAIN b : b[k] = r

TickInv(t) ==
  /\ tick[t].pc = "fetch" => Reached(tick[t].since) /\ Covered(tick[t].since)
  /\ Working(t) => BatchInv(tick[t].batch)
  /\ tick[t].pc \in {"checkpoint", "publish"} => Head(tick[t].batch) \in Audited

PassInv ==
  /\ Reached(checkpoint) /\ Covered(checkpoint)
  /\ SharedIsIrregular
  /\ \A t \in Ticks : TickInv(t)

\* What a step that stores nothing and forgets nothing leaves as it was.
Grows ==
  /\ seq' = seq /\ irregular' = irregular
  /\ reports \subseteq reports' /\ failed \subseteq failed'

LEMMA GrowsFacts ==
  ASSUME Grows
  PROVE  /\ Audited \subseteq Audited' /\ Accounted \subseteq Accounted'
         /\ Stored' = Stored
         /\ SharedIsIrregular => SharedIsIrregular'
         /\ \A c : Reached(c) => (c = 0 \/ \E x \in Stored' : c <= seq'[x])
         /\ \A c : Covered(c) => \A r \in Stored' : seq'[r] <= c => r \in Accounted'
<1>1. Audited \subseteq Audited'
  BY DEF Grows, Audited
<1>2. Accounted \subseteq Accounted'
  BY <1>1 DEF Grows, Accounted
<1>3. Stored' = Stored
  BY DEF Grows, Stored
<1>4. SharedIsIrregular => SharedIsIrregular'
  BY <1>3 DEF Grows, SharedIsIrregular
<1>5. \A c : Reached(c) => (c = 0 \/ \E x \in Stored' : c <= seq'[x])
  BY <1>3 DEF Grows, Reached
<1>6. \A c : Covered(c) => \A r \in Stored' : seq'[r] <= c => r \in Accounted'
  BY <1>2, <1>3 DEF Grows, Covered
<1>7. QED BY <1>1, <1>2, <1>3, <1>4, <1>5, <1>6

LEMMA CheckpointKept ==
  ASSUME PassInv, Grows, checkpoint' = checkpoint
  PROVE  Reached(checkpoint)' /\ Covered(checkpoint)'
BY GrowsFacts DEF PassInv, Reached, Covered

\* A handler that takes no part in the step keeps its invariant.
LEMMA TickKept ==
  ASSUME Grows, NEW t \in Ticks, TickInv(t), tick'[t] = tick[t]
  PROVE  TickInv(t)'
<1>1. seq' = seq /\ Stored' = Stored /\ Audited \subseteq Audited' /\ Accounted \subseteq Accounted'
  BY GrowsFacts DEF Grows
<1>2. (tick[t].pc = "fetch" => Reached(tick[t].since) /\ Covered(tick[t].since))'
  BY <1>1 DEF TickInv, Reached, Covered
<1>3. (Working(t) => BatchInv(tick[t].batch))'
  BY <1>1 DEF TickInv, BatchInv, Working
<1>4. (tick[t].pc \in {"checkpoint", "publish"} => Head(tick[t].batch) \in Audited)'
  BY <1>1 DEF TickInv
<1>5. QED BY <1>2, <1>3, <1>4 DEF TickInv

\* A tick that is done with a receipt that is accounted for goes on correctly.
LEMMA TickAdvances ==
  ASSUME TypeInv, Grows, NEW t \in Ticks, Working(t), TickInv(t), NextReceipt(t),
         Head(tick[t].batch) \in Accounted'
  PROVE  TickInv(t)' /\ \A x \in Ticks \ {t} : tick'[x] = tick[x]
<1> DEFINE b == tick[t].batch
           rest == Tail(b)
<1>1. /\ tick \in [Ticks -> TickRecord]
      /\ b \in Seq(Receipts) /\ b # <<>>
  BY DEF TypeInv, AuditTypeOK, TickRecord
<1>2. /\ \A x \in Ticks \ {t} : tick'[x] = tick[x]
      /\ tick'[t] = IF rest = <<>> THEN NoTick ELSE [NoTick EXCEPT !.pc = "audit", !.batch = rest]
  BY <1>1 DEF NextReceipt
<1>3. BatchInv(b)
  BY DEF TickInv
<1>4. /\ rest \in Seq(Receipts) /\ Len(rest) = Len(b) - 1
      /\ \A i \in 1 .. Len(rest) : rest[i] = b[i + 1]
      /\ DOMAIN b = 1 .. Len(b) /\ DOMAIN rest = 1 .. Len(rest)
      /\ Len(b) \in Nat \ {0} /\ Head(b) = b[1]
  BY <1>1
<1> HIDE DEF b, rest
<1>5. seq' = seq /\ Stored' = Stored /\ Accounted \subseteq Accounted'
  BY GrowsFacts DEF Grows
<1>6. /\ \A i \in DOMAIN rest : rest[i] \in Stored
      /\ \A i, j \in DOMAIN rest : i <= j => seq[rest[i]] <= seq[rest[j]]
  <2>1. \A i \in DOMAIN rest : i + 1 \in DOMAIN b /\ rest[i] = b[i + 1]
    BY <1>4
  <2>2. \A i, j \in DOMAIN rest : i <= j => i + 1 <= j + 1
    BY <1>4
  <2>3. QED BY <2>1, <2>2, <1>3 DEF BatchInv
<1>7. ASSUME NEW r \in Stored, NEW i \in DOMAIN rest, seq[r] < seq[rest[i]]
      PROVE  r \in Accounted' \/ \E k \in DOMAIN rest : rest[k] = r
  <2>1. i + 1 \in DOMAIN b /\ rest[i] = b[i + 1]
    BY <1>4
  <2>2. CASE r \in Accounted
    BY <2>2, <1>5
  <2>3. ASSUME NEW k \in DOMAIN b, b[k] = r
        PROVE  r \in Accounted' \/ \E j \in DOMAIN rest : rest[j] = r
    <3>1. CASE k = 1
      BY <2>3, <3>1, <1>4 DEF b
    <3>2. CASE k # 1
      <4>1. k - 1 \in DOMAIN rest /\ rest[k - 1] = b[k]
        BY <3>2, <1>4
      <4>2. QED BY <4>1, <2>3
    <3>3. QED BY <3>1, <3>2
  <2>4. QED BY <1>3, <1>7, <2>1, <2>2, <2>3 DEF BatchInv
<1>8. rest # <<>> => BatchInv(tick[t].batch)'
  <2>1. rest # <<>> => tick'[t].batch = rest
    BY <1>2 DEF NoTick
  <2>2. QED BY <2>1, <1>5, <1>6, <1>7 DEF BatchInv
<1>9. CASE rest = <<>>
  BY <1>2, <1>9 DEF TickInv, Working, NoTick
<1>10. CASE rest # <<>>
  BY <1>2, <1>8, <1>10 DEF TickInv, Working, NoTick
<1>11. QED BY <1>2, <1>9, <1>10

\* Setting the checkpoint to the receipt in hand passes over nothing.
LEMMA HeadCovered ==
  ASSUME TypeInv, PassInv, NEW t \in Ticks, tick[t].pc = "checkpoint"
  PROVE  LET c == seq[Head(tick[t].batch)] IN Reached(c) /\ Covered(c)
<1> DEFINE b == tick[t].batch
<1>1. b \in Seq(Receipts) /\ b # <<>> /\ seq \in [Receipts -> 0 .. MaxSeq]
  BY DEF TypeInv, AuditTypeOK, Working
<1>2. 1 \in DOMAIN b /\ Head(b) = b[1] /\ \A k \in DOMAIN b : 1 <= k
  BY <1>1
<1>3. BatchInv(b) /\ Head(b) \in Audited
  BY DEF PassInv, TickInv, Working
<1> HIDE DEF b
<1>4. Head(b) \in Stored
  BY <1>2, <1>3 DEF BatchInv
<1>5. seq[Head(b)] \in Nat /\ \A r \in Stored : seq[r] \in Nat
  BY <1>1, <1>4, AuditingAssumption DEF Stored
<1>6. ASSUME NEW r \in Stored, seq[r] <= seq[Head(b)] PROVE r \in Accounted
  <2>1. CASE r = Head(b)
    BY <2>1, <1>3 DEF Accounted
  <2>2. CASE r # Head(b) /\ seq[r] = seq[Head(b)]
    BY <2>2, <1>4 DEF PassInv, SharedIsIrregular, Accounted
  <2>3. CASE seq[r] < seq[Head(b)]
    BY <2>3, <1>2, <1>3, <1>5 DEF BatchInv
  <2>4. QED BY <1>6, <2>1, <2>2, <2>3, <1>5
<1>7. QED BY <1>4, <1>5, <1>6 DEF Reached, Covered, b

LEMMA PassStep ==
  TypeInv /\ TypeInv' /\ PassInv /\ [AuditNext]_auditVars => PassInv'
<1> SUFFICES ASSUME TypeInv, TypeInv', PassInv, [AuditNext]_auditVars PROVE PassInv'
  OBVIOUS
<1>0. /\ tick \in [Ticks -> TickRecord]
      /\ seq \in [Receipts -> 0 .. MaxSeq] /\ checkpoint \in 0 .. MaxSeq
      /\ \A t \in Ticks : TickInv(t)
      /\ SharedIsIrregular
  BY DEF TypeInv, AuditTypeOK, TickRecord, PassInv
<1>a. Accounted = Audited \union failed \union irregular
  BY DEF Accounted
\* A step that only grows the reports and the failures, and moves one tick.
<1>g. ASSUME Grows, NEW t \in Ticks, TickInv(t)', Reached(checkpoint)', Covered(checkpoint)',
             \A x \in Ticks \ {t} : tick'[x] = tick[x]
      PROVE  PassInv'
  <2>1. \A x \in Ticks : TickInv(x)'
    BY <1>g, <1>0, TickKept
  <2>2. QED BY <1>g, <1>0, <2>1, GrowsFacts DEF PassInv
<1>1. CASE UNCHANGED auditVars
  BY <1>1 DEF auditVars, auditorVars, PassInv, Reached, Covered, SharedIsIrregular, TickInv,
              BatchInv, Accounted, Audited, Stored, Working
<1>2. ASSUME NEW r \in Receipts, NEW s \in Positions[r], Store(r, s) PROVE PassInv'
  <2>0. s \in 1 .. MaxSeq
    BY PositionsTyped
  <2>1. /\ seq[r] = 0 /\ seq'[r] = s /\ s \in Nat /\ s > 0
        /\ \A x \in Receipts \ {r} : seq'[x] = seq[x]
        /\ Stored' = Stored \union {r} /\ r \notin Stored
        /\ Stored \subseteq Receipts
        /\ \A x \in Receipts : seq[x] \in Nat
    BY <1>2, <1>0, <2>0, AuditingAssumption DEF Store, Stored
  <2>2. /\ \A x \in Stored : seq[x] = s => x \in irregular'
        /\ (\E x \in Stored : s <= seq[x]) => r \in irregular'
        /\ irregular \subseteq irregular'
        /\ reports' = reports /\ failed' = failed
        /\ tick' = tick /\ checkpoint' = checkpoint
    BY <1>2, <2>1 DEF Store
  <2>3. Accounted \subseteq Accounted' /\ Audited' = Audited /\ irregular' \subseteq Accounted'
    BY <2>2 DEF Accounted, Audited
  <2>4. ASSUME NEW c \in 0 .. MaxSeq, Reached(c), Covered(c)
        PROVE  /\ c = 0 \/ \E x \in Stored' : c <= seq'[x]
               /\ \A x \in Stored' : seq'[x] <= c => x \in Accounted'
    <3>1. c = 0 \/ \E x \in Stored' : c <= seq'[x]
      BY <2>1, <2>4 DEF Reached
    <3>2. ASSUME s <= c PROVE r \in Accounted'
      <4>1. PICK x \in Stored : c <= seq[x]
        BY <2>1, <2>4, <3>2, AuditingAssumption DEF Reached
      <4>2. s <= seq[x]
        BY <2>1, <3>2, <4>1, AuditingAssumption
      <4>3. QED BY <2>2, <2>3, <4>2
    <3>3. \A x \in Stored : seq'[x] <= c => x \in Accounted'
      BY <2>1, <2>3, <2>4 DEF Covered
    <3>4. QED BY <2>1, <3>1, <3>2, <3>3
  <2>5. Reached(checkpoint)' /\ Covered(checkpoint)'
    BY <1>0, <2>2, <2>4 DEF PassInv, Reached, Covered
  <2>6. SharedIsIrregular'
    BY <1>0, <2>1, <2>2 DEF SharedIsIrregular
  <2>7. ASSUME NEW t \in Ticks PROVE TickInv(t)'
    <3>1. (tick[t].pc = "fetch" => Reached(tick[t].since) /\ Covered(tick[t].since))'
      BY <1>0, <2>2, <2>4 DEF TickInv, TickRecord, Reached, Covered
    <3>2. ASSUME Working(t) PROVE BatchInv(tick[t].batch)'
      <4> DEFINE b == tick[t].batch
      <4>1. BatchInv(b)
        BY <1>0, <3>2 DEF TickInv
      <4> HIDE DEF b
      <4>2. \A i \in DOMAIN b : b[i] \in Stored /\ b[i] \in Stored' /\ seq'[b[i]] = seq[b[i]]
        BY <2>1, <4>1 DEF BatchInv
      <4>3. ASSUME NEW x \in Stored', NEW i \in DOMAIN b, seq'[x] < seq'[b[i]]
            PROVE  x \in Accounted' \/ \E k \in DOMAIN b : b[k] = x
        <5>1. CASE x = r
          BY <2>1, <2>2, <2>3, <4>2, <4>3, <5>1
        <5>2. CASE x # r
          BY <2>1, <2>3, <4>1, <4>2, <4>3, <5>2 DEF BatchInv
        <5>3. QED BY <5>1, <5>2
      <4>4. \A i, j \in DOMAIN b : i <= j => seq'[b[i]] <= seq'[b[j]]
        BY <4>1, <4>2 DEF BatchInv
      <4>5. tick'[t].batch = b
        BY <2>2 DEF b
      <4>6. QED BY <4>2, <4>3, <4>4, <4>5 DEF BatchInv
    <3>3. QED BY <1>0, <2>2, <2>3, <3>1, <3>2 DEF TickInv, Working
  <2>8. QED BY <2>5, <2>6, <2>7 DEF PassInv
<1>3. ASSUME NEW t \in Ticks, ReadCheckpoint(t) PROVE PassInv'
  <2>1. Grows /\ checkpoint' = checkpoint
    BY <1>3 DEF ReadCheckpoint, Grows
  <2>2. /\ tick'[t] = [NoTick EXCEPT !.pc = "fetch", !.since = checkpoint]
        /\ \A x \in Ticks \ {t} : tick'[x] = tick[x]
    BY <1>3, <1>0 DEF ReadCheckpoint
  <2>3. Reached(checkpoint)' /\ Covered(checkpoint)'
    BY <2>1, CheckpointKept
  <2>4. TickInv(t)'
    BY <2>1, <2>2, <2>3 DEF TickInv, Working, NoTick, Reached, Covered
  <2>5. QED BY <1>g, <2>1, <2>2, <2>3, <2>4
<1>4. ASSUME NEW t \in Ticks, Fetch(t) PROVE PassInv'
  <2>1. Grows /\ checkpoint' = checkpoint /\ tick[t].pc = "fetch"
    BY <1>4 DEF Fetch, Grows
  <2>2. PICK b \in Batches(tick[t].since) :
          tick' = [tick EXCEPT ![t] = IF b = <<>> THEN NoTick
                                      ELSE [NoTick EXCEPT !.pc = "audit", !.batch = b]]
    BY <1>4 DEF Fetch
  <2>3. tick[t].since \in 0 .. MaxSeq /\ Covered(tick[t].since)
    BY <1>0, <2>1 DEF TickInv, TickRecord
  <2>4. BatchInv(b)
    <3>1. \A i \in DOMAIN b : b[i] \in Stored
      BY <1>0, <2>2, <2>3, BatchFacts, AuditingAssumption DEF Above, Stored
    <3>2. \A i, j \in DOMAIN b : i <= j => seq[b[i]] <= seq[b[j]]
      <4>1. \A i \in DOMAIN b : seq[b[i]] <= seq[b[i]]
        BY <1>0, <3>1, AuditingAssumption DEF Stored
      <4>2. \A i, j \in DOMAIN b : i <= j => i = j \/ seq[b[i]] <= seq[b[j]]
        BY <2>2, <2>3, BatchFacts
      <4>3. QED BY <4>1, <4>2
    <3>3. ASSUME NEW r \in Stored, NEW i \in DOMAIN b, seq[r] < seq[b[i]]
          PROVE  r \in Accounted \/ \E k \in DOMAIN b : b[k] = r
      <4>0. r \in Receipts /\ seq[r] \in Nat /\ seq[b[i]] \in Nat
        BY <1>0, <3>1, AuditingAssumption DEF Stored
      <4>1. CASE seq[r] <= tick[t].since
        BY <4>1, <2>3 DEF Covered
      <4>2. CASE seq[r] > tick[t].since
        <5>1. r \in Above(tick[t].since)
          BY <4>0, <4>2 DEF Above
        <5>2. r \in {b[k] : k \in DOMAIN b} \/ seq[b[i]] <= seq[r]
          BY <5>1, <2>2, <2>3, BatchFacts
        <5>3. QED BY <5>2, <4>0, <3>3
      <4>3. QED BY <4>0, <4>1, <4>2, <2>3, AuditingAssumption
    <3>4. QED BY <3>1, <3>2, <3>3 DEF BatchInv
  <2>5. /\ tick'[t] = IF b = <<>> THEN NoTick ELSE [NoTick EXCEPT !.pc = "audit", !.batch = b]
        /\ \A x \in Ticks \ {t} : tick'[x] = tick[x]
    BY <2>2, <1>0
  <2>6. Reached(checkpoint)' /\ Covered(checkpoint)'
    BY <2>1, CheckpointKept
  <2>7. TickInv(t)'
    <3>1. CASE b = <<>>
      BY <2>5, <3>1 DEF TickInv, Working, NoTick
    <3>2. CASE b # <<>>
      <4>1. tick'[t].pc = "audit" /\ tick'[t].batch = b
        BY <2>5, <3>2 DEF NoTick
      <4>2. seq' = seq /\ Stored' = Stored /\ Accounted \subseteq Accounted'
        BY <2>1, GrowsFacts DEF Grows
      <4>3. BatchInv(tick[t].batch)'
        BY <2>4, <4>1, <4>2 DEF BatchInv
      <4>4. QED BY <4>1, <4>3 DEF TickInv, Working
    <3>3. QED BY <3>1, <3>2
  <2>8. QED BY <1>g, <2>1, <2>5, <2>6, <2>7
<1>5. ASSUME NEW t \in Ticks, NEW v \in Verdicts, Report(t, v) PROVE PassInv'
  <2>1. Grows /\ checkpoint' = checkpoint /\ Working(t)
    BY <1>5 DEF Report, Grows, Working
  <2>2. /\ tick'[t].pc = "checkpoint" /\ tick'[t].batch = tick[t].batch
        /\ \A x \in Ticks \ {t} : tick'[x] = tick[x]
    BY <1>5, <1>0 DEF Report, TickRecord
  <2>3. Head(tick'[t].batch) \in Audited'
    <3> DEFINE p == [receipt |-> Head(tick[t].batch), verdict |-> v]
    <3>1. p \in reports' /\ p.receipt = Head(tick[t].batch)
      BY <1>5 DEF Report
    <3>2. p.receipt \in Audited'
      BY <3>1 DEF Audited
    <3>3. QED BY <3>1, <3>2, <2>2
  <2>4. Reached(checkpoint)' /\ Covered(checkpoint)'
    BY <2>1, CheckpointKept
  <2>5. TickInv(t)'
    <3>1. seq' = seq /\ Stored' = Stored /\ Accounted \subseteq Accounted'
      BY <2>1, GrowsFacts DEF Grows
    <3>2. BatchInv(tick[t].batch)'
      BY <1>0, <2>1, <2>2, <3>1 DEF TickInv, BatchInv
    <3>3. QED BY <2>2, <2>3, <3>2 DEF TickInv
  <2>6. QED BY <1>g, <2>1, <2>2, <2>4, <2>5
<1>6. ASSUME NEW t \in Ticks, ReportFails(t) PROVE PassInv'
  <2>1. Grows /\ checkpoint' = checkpoint /\ Working(t) /\ NextReceipt(t)
    BY <1>6 DEF ReportFails, Grows, Working
  <2>2. Head(tick[t].batch) \in Accounted'
    BY <1>6 DEF ReportFails, Accounted
  <2>3. QED BY <1>0, <1>g, <2>1, <2>2, TickAdvances, CheckpointKept
<1>7. ASSUME NEW t \in Ticks, SetCheckpoint(t) PROVE PassInv'
  <2>1. Grows /\ Working(t) /\ tick[t].pc = "checkpoint" /\ checkpoint' = seq[Head(tick[t].batch)]
    BY <1>7 DEF SetCheckpoint, Grows, Working
  <2>2. Reached(checkpoint)' /\ Covered(checkpoint)'
    BY <2>1, HeadCovered, GrowsFacts DEF Reached, Covered
  <2>3. TickInv(t)' /\ \A x \in Ticks \ {t} : tick'[x] = tick[x]
    <3>1. Audited \subseteq Audited' /\ Accounted \subseteq Accounted' /\ seq' = seq /\ Stored' = Stored
      BY <2>1, GrowsFacts DEF Grows
    <3>2. Head(tick[t].batch) \in Audited /\ BatchInv(tick[t].batch)
      BY <1>0, <2>1 DEF TickInv
    <3>3. CASE tick[t].verdict = "CONFLICT"
      <4>1. /\ tick'[t].pc = "publish" /\ tick'[t].batch = tick[t].batch
            /\ \A x \in Ticks \ {t} : tick'[x] = tick[x]
        BY <1>7, <1>0, <3>3 DEF SetCheckpoint, TickRecord
      <4>2. BatchInv(tick[t].batch)'
        BY <3>1, <3>2, <4>1 DEF BatchInv
      <4>3. QED BY <3>1, <3>2, <4>1, <4>2 DEF TickInv
    <3>4. CASE tick[t].verdict # "CONFLICT"
      <4>1. NextReceipt(t)
        BY <1>7, <3>4 DEF SetCheckpoint
      <4>2. Head(tick[t].batch) \in Accounted'
        BY <3>1, <3>2 DEF Accounted
      <4>3. QED BY <1>0, <2>1, <4>1, <4>2, TickAdvances
    <3>5. QED BY <3>3, <3>4
  <2>4. QED BY <1>g, <2>1, <2>2, <2>3
<1>8. ASSUME NEW t \in Ticks, CheckpointFails(t) PROVE PassInv'
  <2>1. Grows /\ Working(t) /\ NextReceipt(t) /\ tick[t].pc = "checkpoint"
    BY <1>8 DEF CheckpointFails, Grows, Working
  <2>2. checkpoint' = checkpoint \/ checkpoint' = seq[Head(tick[t].batch)]
    BY <1>8 DEF CheckpointFails
  <2>3. Reached(checkpoint)' /\ Covered(checkpoint)'
    <3>1. CASE checkpoint' = checkpoint
      BY <2>1, <3>1, CheckpointKept
    <3>2. CASE checkpoint' = seq[Head(tick[t].batch)]
      BY <2>1, <3>2, HeadCovered, GrowsFacts DEF Reached, Covered
    <3>3. QED BY <2>2, <3>1, <3>2
  <2>4. Head(tick[t].batch) \in Accounted'
    BY <1>8 DEF CheckpointFails, Accounted
  <2>5. QED BY <1>0, <1>g, <2>1, <2>3, <2>4, TickAdvances
<1>9. ASSUME NEW t \in Ticks, Publish(t) PROVE PassInv'
  <2>1. Grows /\ checkpoint' = checkpoint /\ Working(t) /\ NextReceipt(t)
    BY <1>9 DEF Publish, Grows, Working
  <2>2. Head(tick[t].batch) \in Audited
    BY <1>0, <1>9 DEF Publish, TickInv
  <2>3. Head(tick[t].batch) \in Accounted'
    BY <2>1, <2>2, GrowsFacts DEF Accounted
  <2>4. QED BY <1>0, <1>g, <2>1, <2>3, TickAdvances, CheckpointKept
<1>10. ASSUME NEW r \in Receipts, NEW v \in Verdicts, AuditOnDemand(r, v) PROVE PassInv'
  <2>1. Grows /\ checkpoint' = checkpoint /\ tick' = tick
    BY <1>10 DEF AuditOnDemand, Grows
  <2>2. \A x \in Ticks : TickInv(x)'
    BY <1>0, <2>1, TickKept
  <2>3. QED BY <1>0, <2>1, <2>2, GrowsFacts, CheckpointKept DEF PassInv
<1>11. CASE AuditorCrash
  <2>1. Grows /\ checkpoint' = checkpoint
    BY <1>11 DEF AuditorCrash, Grows
  <2>2. \A x \in Ticks : TickInv(x)'
    BY <1>11 DEF AuditorCrash, TickInv, Working, NoTick
  <2>3. QED BY <1>0, <2>1, <2>2, GrowsFacts, CheckpointKept DEF PassInv
<1>12. ASSUME NEW t \in Ticks, AnswerUnusable(t) PROVE PassInv'
  <2>1. Grows /\ checkpoint' = checkpoint /\ Working(t) /\ NextReceipt(t)
    BY <1>12 DEF AnswerUnusable, Grows, Working
  <2>2. Head(tick[t].batch) \in Accounted'
    BY <1>12 DEF AnswerUnusable, Accounted
  <2>3. QED BY <1>0, <1>g, <2>1, <2>2, TickAdvances, CheckpointKept
<1>13. ASSUME NEW t \in Ticks, Hang(t) PROVE PassInv'
  <2>1. Grows /\ checkpoint' = checkpoint
    BY <1>13 DEF Hang, Grows
  <2>2. tick'[t].pc = "hung" /\ \A x \in Ticks \ {t} : tick'[x] = tick[x]
    BY <1>13, <1>0 DEF Hang, TickRecord
  <2>3. TickInv(t)'
    BY <2>2 DEF TickInv, Working
  <2>4. QED BY <1>g, <2>1, <2>2, <2>3, CheckpointKept
<1>14. QED
  BY <1>1, <1>2, <1>3, <1>4, <1>5, <1>6, <1>7, <1>8, <1>9, <1>10, <1>11, <1>12, <1>13
     DEF AuditNext, TickStep

\* However ticks overlap, fail or die, and whatever order receipts are stored
\* in, the checkpoint passes over no receipt outside the named exceptions.
THEOREM PassesOverNothing == AuditSpec => []NothingPassedOver
<1>1. AuditInit => PassInv
  BY DEF AuditInit, PassInv, Reached, Covered, SharedIsIrregular, Stored, TickInv, Working, NoTick
<1>2. PassInv => NothingPassedOver
  BY DEF PassInv, Covered, Accounted, NothingPassedOver
<1>3. QED BY <1>1, <1>2, PassStep, TypeInvariant, PTL DEF AuditSpec

-----------------------------------------------------------------------------
(* No CONFLICT is lost for another reason than the known ones.             *)

HeldConflict(r) == \E t \in Ticks : InHand(t) /\ Head(tick[t].batch) = r

\* A step that ends no handler with a CONFLICT in hand, but for those of
\* receipts it puts in told, and stores no CONFLICT it does not account for.
LEMMA ConflictsKept ==
  ASSUME ConflictsAccountedFor, told \subseteq told',
         \A t \in Ticks : InHand(t) => \/ Head(tick[t].batch) \in told'
                                       \/ InHand(t)' /\ Head(tick'[t].batch) = Head(tick[t].batch),
         \A r \in Receipts :
           [receipt |-> r, verdict |-> "CONFLICT"] \in reports' \ reports =>
             r \in told' \/ HeldConflict(r)'
  PROVE  ConflictsAccountedFor'
BY DEF ConflictsAccountedFor, HeldConflict

LEMMA ConflictsStep ==
  TypeInv /\ ConflictsAccountedFor /\ [AuditNext]_auditVars => ConflictsAccountedFor'
<1> SUFFICES ASSUME TypeInv, ConflictsAccountedFor, [AuditNext]_auditVars
             PROVE  ConflictsAccountedFor'
  OBVIOUS
<1>0. tick \in [Ticks -> TickRecord]
  BY DEF TypeInv, AuditTypeOK, TickRecord
\* The handler t takes the next receipt of its batch.
<1>n. ASSUME NEW t \in Ticks, NextReceipt(t) PROVE \A x \in Ticks \ {t} : tick'[x] = tick[x]
  BY <1>n, <1>0 DEF NextReceipt
<1>1. CASE UNCHANGED auditVars
  BY <1>1 DEF auditVars, auditorVars, ConflictsAccountedFor, InHand
<1>2. ASSUME NEW r \in Receipts, NEW s \in Positions[r], Store(r, s) PROVE ConflictsAccountedFor'
  BY <1>2 DEF Store, ConflictsAccountedFor, InHand
<1>3. ASSUME NEW t \in Ticks, ReadCheckpoint(t) \/ Fetch(t) PROVE ConflictsAccountedFor'
  <2>1. /\ ~InHand(t) /\ told' = told /\ reports' = reports
        /\ \A x \in Ticks \ {t} : tick'[x] = tick[x]
    BY <1>3, <1>0 DEF ReadCheckpoint, Fetch, InHand
  <2>2. QED BY <2>1, ConflictsKept DEF InHand
<1>4. ASSUME NEW t \in Ticks, NEW v \in Verdicts, Report(t, v) PROVE ConflictsAccountedFor'
  <2>1. /\ ~InHand(t) /\ told' = told
        /\ \A x \in Ticks \ {t} : tick'[x] = tick[x]
        /\ tick'[t].pc = "checkpoint" /\ tick'[t].verdict = v
        /\ tick'[t].batch = tick[t].batch
    BY <1>4, <1>0 DEF Report, InHand, TickRecord
  <2>2. ASSUME NEW r \in Receipts,
               [receipt |-> r, verdict |-> "CONFLICT"] \in reports' \ reports
        PROVE  HeldConflict(r)'
    <3>1. r = Head(tick[t].batch) /\ v = "CONFLICT"
      BY <1>4, <2>2 DEF Report
    <3>2. QED BY <2>1, <3>1 DEF HeldConflict, InHand
  <2>3. QED BY <2>1, <2>2, ConflictsKept DEF InHand
<1>5. ASSUME NEW t \in Ticks, ReportFails(t) PROVE ConflictsAccountedFor'
  <2>1. /\ ~InHand(t) /\ told \subseteq told'
        /\ \A x \in Ticks \ {t} : tick'[x] = tick[x]
    BY <1>5, <1>n DEF ReportFails, InHand
  <2>2. ASSUME NEW r \in Receipts,
               [receipt |-> r, verdict |-> "CONFLICT"] \in reports' \ reports
        PROVE  r \in told'
    BY <1>5, <2>2 DEF ReportFails
  <2>3. QED BY <2>1, <2>2, ConflictsKept DEF InHand
<1>6. ASSUME NEW t \in Ticks, SetCheckpoint(t) PROVE ConflictsAccountedFor'
  <2>1. told' = told /\ reports' = reports /\ \A x \in Ticks \ {t} : tick'[x] = tick[x]
    BY <1>6, <1>0, <1>n DEF SetCheckpoint
  <2>2. InHand(t) => InHand(t)' /\ tick'[t].batch = tick[t].batch
    BY <1>6, <1>0 DEF SetCheckpoint, InHand, TickRecord
  <2>3. QED BY <2>1, <2>2, ConflictsKept DEF InHand
<1>7. ASSUME NEW t \in Ticks, CheckpointFails(t) \/ Publish(t) PROVE ConflictsAccountedFor'
  <2>1. /\ told \subseteq told' /\ reports' = reports
        /\ \A x \in Ticks \ {t} : tick'[x] = tick[x]
        /\ InHand(t) => Head(tick[t].batch) \in told'
    BY <1>7, <1>n DEF CheckpointFails, Publish, InHand
  <2>2. QED BY <2>1, ConflictsKept DEF InHand
<1>8. ASSUME NEW r \in Receipts, NEW v \in Verdicts, AuditOnDemand(r, v) PROVE ConflictsAccountedFor'
  <2>1. told \subseteq told' /\ tick' = tick
    BY <1>8 DEF AuditOnDemand
  <2>2. ASSUME NEW x \in Receipts,
               [receipt |-> x, verdict |-> "CONFLICT"] \in reports' \ reports
        PROVE  x \in told'
    BY <1>8, <2>2 DEF AuditOnDemand
  <2>3. QED BY <2>1, <2>2, ConflictsKept DEF InHand
<1>9. CASE AuditorCrash
  BY <1>9, ConflictsKept DEF AuditorCrash
<1>10. ASSUME NEW t \in Ticks, AnswerUnusable(t) \/ Hang(t) PROVE ConflictsAccountedFor'
  <2>1. /\ ~InHand(t) /\ told' = told /\ reports' = reports
        /\ \A x \in Ticks \ {t} : tick'[x] = tick[x]
    BY <1>10, <1>0, <1>n DEF AnswerUnusable, Hang, InHand
  <2>2. QED BY <2>1, ConflictsKept DEF InHand
<1>11. QED
  BY <1>1, <1>2, <1>3, <1>4, <1>5, <1>6, <1>7, <1>8, <1>9, <1>10 DEF AuditNext, TickStep

\* Every CONFLICT of a stored report is announced, in a handler's hand, or was
\* kept from the topic by an error, a crash or an audit made on demand.
THEOREM ConflictsNotLost == AuditSpec => []ConflictsAccountedFor
<1>1. AuditInit => ConflictsAccountedFor
  BY DEF AuditInit, ConflictsAccountedFor
<1>2. QED BY <1>1, ConflictsStep, TypeInvariant, PTL DEF AuditSpec

-----------------------------------------------------------------------------
(* Containment: the inductive invariant.                                   *)
(*                                                                         *)
(* Evidence is handed from the Auditor's handlers over the topic and the   *)
(* Investigator's handlers to the Isolator's, and any of them may die or   *)
(* go on alone.  So what is in hand anywhere rests on what is stored: a    *)
(* CONFLICT report for what is announced, a stored incident above the gate *)
(* for what is contained, a revocation for what a handler counts executed. *)

ConflictOn(r) == [receipt |-> r, verdict |-> "CONFLICT"]

\* The stored receipts S and the reports R hold a CONFLICT on r.
Evidence(r, S, R) == r \in S /\ ConflictOn(r) \in R

\* A tick holds stored receipts, and reported the CONFLICT it will announce.
SoundTick(x, S, R) ==
  /\ x.pc \in {"audit", "checkpoint", "publish"} => \A i \in DOMAIN x.batch : x.batch[i] \in S
  /\ x.pc = "publish" \/ (x.pc = "checkpoint" /\ x.verdict = "CONFLICT")
       => ConflictOn(Head(x.batch)) \in R

\* An investigation rests on a CONFLICT; the incident it hands on is stored.
SoundInvestigation(x, I, S, R) ==
  x.pc # "idle" =>
    /\ x.incident \in Incidents
    /\ Evidence(x.incident.trigger, S, R)
    /\ x.pc = "notify" => x.incident \in I /\ SevereEnough(x.incident)

\* A containment rests on a stored incident above the gate, and the
\* revocations V hold what it counts as executed.
SoundIsolation(x, I, V) ==
  x.pc # "idle" =>
    /\ x.incident \in I
    /\ SevereEnough(x.incident)
    /\ \A a \in x.executed : [agent |-> a, incident |-> x.incident] \in V

AuditorSound ==
  /\ \A t \in Ticks : SoundTick(tick[t], Stored, reports)
  /\ \A r \in topic : Evidence(r, Stored, reports)

HandlersSound ==
  /\ \A h \in Deliveries : SoundInvestigation(inv[h], incidents, Stored, reports)
  /\ \A c \in Callers : SoundIsolation(iso[c], incidents, revoked)
  /\ \A n \in incidents : Evidence(n.trigger, Stored, reports)
  /\ \A x \in revoked : x.incident \in incidents /\ SevereEnough(x.incident)

ContainInv ==
  /\ TypeInv
  /\ ContainTypeOK
  /\ AuditorSound
  /\ HandlersSound
  /\ RecordsTruthful
  /\ RevocationsRecorded

-----------------------------------------------------------------------------
(* The Auditor's side.                                                     *)

\* A step of the Investigator or the Isolator at most acknowledges.
Acknowledges ==
  /\ UNCHANGED auditorVars
  /\ topic' \subseteq topic
  /\ UNCHANGED mishaps \/ Mishap

LEMMA AuditorCases ==
  ASSUME [ContainNext]_vars
  PROVE  \/ AuditNext /\ UNCHANGED <<inv, iso, incidents, registered, records, historyVars>>
         \/ Acknowledges
<1>1. ASSUME NEW h \in Deliveries,
             \/ \E r \in Receipts : Deliver(h, r)
             \/ \E s \in Severities, k \in Numbers : Incident(h, s, k)
             \/ IncidentFails(h) \/ InvestigatorHangs(h) \/ Notify(h) \/ NotifyFails(h) \/ WaitOver(h)
      PROVE  Acknowledges
  BY <1>1 DEF Deliver, Incident, IncidentFails, InvestigatorHangs, Notify, NotifyFails, WaitOver,
              Answer, auditVars, Acknowledges
<1>2. ASSUME NEW n \in Incidents, IsolateStored(n)
      PROVE  Acknowledges
  BY <1>2 DEF IsolateStored, auditVars, Acknowledges
<1>3. ASSUME NEW c \in Callers,
             \/ \E plan \in SUBSET Agents : Analyse(c, plan)
             \/ AnalysisFails(c) \/ IsolatorHangs(c) \/ Record(c)
             \/ \E a \in Agents : Revoke(c, a)
      PROVE  Acknowledges
  BY <1>3 DEF Analyse, AnalysisFails, IsolatorHangs, Record, Revoke, auditVars, Acknowledges
<1>4. CASE InvestigatorCrash \/ IsolatorCrash \/ \E a \in Agents : Restore(a)
  BY <1>4 DEF InvestigatorCrash, IsolatorCrash, Restore, auditVars, NoneAcknowledged, Acknowledges
<1>5. CASE UNCHANGED vars
  BY <1>5 DEF vars, auditVars, Acknowledges
<1>6. QED BY <1>1, <1>2, <1>3, <1>4, <1>5 DEF ContainNext

LEMMA AuditorTyped ==
  ASSUME TypeInv, [ContainNext]_vars
  PROVE  TypeInv'
<1>1. CASE AuditNext
  BY <1>1, TypeStep
<1>2. CASE Acknowledges
  <2>1. UNCHANGED <<seq, checkpoint, tick, reports, irregular, failed, told>>
    BY <1>2 DEF Acknowledges, auditorVars
  <2>2. topic' \in SUBSET Receipts
    BY <1>2 DEF Acknowledges, TypeInv, AuditTypeOK
  <2>3. mishaps' \in 0 .. MaxMishaps
    BY <1>2, AuditingAssumption DEF Acknowledges, Mishap, TypeInv, AuditTypeOK
  <2>4. \A t \in Ticks : Working(t)' <=> Working(t)
    BY <2>1 DEF Working
  <2>5. QED BY <2>1, <2>2, <2>3, <2>4 DEF TypeInv, AuditTypeOK
<1>3. QED BY <1>1, <1>2, AuditorCases

\* Receipts stay stored, and reports are never taken back.
LEMMA EvidenceGrows ==
  ASSUME TypeInv, [ContainNext]_vars
  PROVE  Stored \subseteq Stored' /\ reports \subseteq reports'
<1>1. CASE AuditNext
  <2>1. ASSUME NEW r \in Receipts, NEW s \in Positions[r], Store(r, s)
        PROVE  Stored \subseteq Stored' /\ reports \subseteq reports'
    <3>1. seq' = [seq EXCEPT ![r] = s] /\ reports' = reports
      BY <2>1 DEF Store
    <3>2. s > 0
      BY PositionsTyped, AuditingAssumption
    <3>3. QED BY <3>1, <3>2 DEF Stored, TypeInv, AuditTypeOK
  <2>2. ASSUME NEW t \in Ticks, TickStep(t)
        PROVE  seq' = seq /\ reports \subseteq reports'
    BY <2>2 DEF TickStep, ReadCheckpoint, Fetch, Report, AnswerUnusable, Hang, ReportFails,
                SetCheckpoint, CheckpointFails, Publish
  <2>3. ASSUME NEW r \in Receipts, NEW v \in Verdicts, AuditOnDemand(r, v)
        PROVE  seq' = seq /\ reports \subseteq reports'
    BY <2>3 DEF AuditOnDemand
  <2>4. CASE AuditorCrash
    BY <2>4 DEF AuditorCrash, Stored
  <2>5. seq' = seq => Stored' = Stored
    BY DEF Stored
  <2>6. QED BY <1>1, <2>1, <2>2, <2>3, <2>4, <2>5 DEF AuditNext
<1>2. CASE Acknowledges
  BY <1>2 DEF Acknowledges, auditorVars, Stored
<1>3. QED BY <1>1, <1>2, AuditorCases

LEMMA SoundTickKept ==
  ASSUME NEW x, NEW S, NEW T, NEW R, NEW Q, S \subseteq T, R \subseteq Q, SoundTick(x, S, R)
  PROVE  SoundTick(x, T, Q)
BY DEF SoundTick

\* A batch without its first receipt.
LEMMA NextReceiptSound ==
  ASSUME TypeInv, NEW t \in Ticks, Working(t), SoundTick(tick[t], Stored, reports), NextReceipt(t)
  PROVE  /\ \A x \in Ticks \ {t} : tick'[x] = tick[x]
         /\ SoundTick(tick'[t], Stored, reports)
<1>1. DEFINE b == tick[t].batch
             rest == Tail(b)
<1>2. tick \in [Ticks -> TickRecord] /\ b \in Seq(Receipts) /\ b # <<>>
  BY DEF TypeInv, AuditTypeOK, TickRecord
<1>3. \A i \in DOMAIN b : b[i] \in Stored
  BY DEF SoundTick, Working
<1>4. \A i \in DOMAIN rest : rest[i] \in Stored
  BY <1>2, <1>3
<1> HIDE DEF rest
<1>5. tick' = [tick EXCEPT ![t] = IF rest = <<>> THEN NoTick
                                  ELSE [NoTick EXCEPT !.pc = "audit", !.batch = rest]]
  BY DEF NextReceipt, rest
<1>6. /\ \A x \in Ticks \ {t} : tick'[x] = tick[x]
      /\ tick'[t] = NoTick \/ tick'[t] = [NoTick EXCEPT !.pc = "audit", !.batch = rest]
  BY <1>2, <1>5
<1>7. SoundTick(NoTick, Stored, reports)
  BY DEF SoundTick, NoTick
<1>8. SoundTick([NoTick EXCEPT !.pc = "audit", !.batch = rest], Stored, reports)
  BY <1>4 DEF SoundTick, NoTick
<1>9. QED BY <1>6, <1>7, <1>8

\* It is enough to look at the ticks that move and at new announcements.
LEMMA AuditorKept ==
  ASSUME AuditorSound, Stored \subseteq Stored', reports \subseteq reports',
         \A t \in Ticks : tick'[t] = tick[t] \/ SoundTick(tick'[t], Stored', reports'),
         \A r \in topic' : r \in topic \/ Evidence(r, Stored', reports')
  PROVE  AuditorSound'
<1>1. ASSUME NEW t \in Ticks
      PROVE  SoundTick(tick'[t], Stored', reports')
  <2>1. SoundTick(tick[t], Stored, reports)
    BY DEF AuditorSound
  <2>2. SoundTick(tick[t], Stored', reports')
    BY <2>1, SoundTickKept
  <2>3. QED BY <2>2
<1>2. \A r \in topic' : Evidence(r, Stored', reports')
  BY DEF AuditorSound, Evidence
<1>3. QED BY <1>1, <1>2 DEF AuditorSound

LEMMA AuditorStep ==
  ASSUME TypeInv, AuditorSound, [ContainNext]_vars
  PROVE  AuditorSound'
<1>1. Stored \subseteq Stored' /\ reports \subseteq reports'
  BY EvidenceGrows
<1>2. tick \in [Ticks -> TickRecord]
  BY DEF TypeInv, AuditTypeOK, TickRecord
<1>3. \A t \in Ticks : SoundTick(tick[t], Stored, reports)
  BY DEF AuditorSound
<1>4. ASSUME NEW t \in Ticks, Working(t)
      PROVE  /\ Head(tick[t].batch) \in Stored
             /\ tick[t].batch \in Seq(Receipts) /\ tick[t].batch # <<>>
  <2>1. tick[t].batch \in Seq(Receipts) /\ tick[t].batch # <<>>
    BY <1>2, <1>4 DEF TypeInv, TickRecord
  <2>2. 1 \in DOMAIN tick[t].batch /\ Head(tick[t].batch) = tick[t].batch[1]
    BY <2>1
  <2>3. QED BY <1>3, <1>4, <2>1, <2>2 DEF SoundTick, Working
\* Ticks that take the next receipt announce what they have reported.
<1>5. ASSUME NEW t \in Ticks, Working(t), NextReceipt(t), topic' \subseteq topic
      PROVE  AuditorSound'
  <2>1. /\ \A x \in Ticks \ {t} : tick'[x] = tick[x]
        /\ SoundTick(tick'[t], Stored, reports)
    BY <1>3, <1>5, NextReceiptSound
  <2>2. SoundTick(tick'[t], Stored', reports')
    BY <1>1, <2>1, SoundTickKept
  <2>3. QED BY <1>1, <1>5, <2>1, <2>2, AuditorKept
<1>6. ASSUME NEW t \in Ticks, ReadCheckpoint(t)
      PROVE  AuditorSound'
  <2>1. /\ \A x \in Ticks \ {t} : tick'[x] = tick[x]
        /\ tick'[t].pc = "fetch"
        /\ topic' = topic
    BY <1>2, <1>6 DEF ReadCheckpoint, NoTick
  <2>2. SoundTick(tick'[t], Stored', reports')
    BY <2>1 DEF SoundTick
  <2>3. QED BY <1>1, <2>1, <2>2, AuditorKept
<1>7. ASSUME NEW t \in Ticks, Fetch(t)
      PROVE  AuditorSound'
  <2>1. PICK b \in Batches(tick[t].since) :
          tick' = [tick EXCEPT ![t] = IF b = <<>> THEN NoTick
                                      ELSE [NoTick EXCEPT !.pc = "audit", !.batch = b]]
    BY <1>7 DEF Fetch
  <2>2. \A i \in DOMAIN b : b[i] \in Above(tick[t].since)
    BY <1>2, BatchFacts DEF TickRecord
  <2>3. Above(tick[t].since) \subseteq Stored
    BY <1>2, AuditingAssumption DEF Above, Stored, TickRecord, TypeInv, AuditTypeOK
  <2>4. SoundTick(NoTick, Stored', reports')
    BY DEF SoundTick, NoTick
  <2>5. SoundTick([NoTick EXCEPT !.pc = "audit", !.batch = b], Stored', reports')
    BY <1>1, <2>2, <2>3 DEF SoundTick, NoTick
  <2>6. /\ \A x \in Ticks \ {t} : tick'[x] = tick[x]
        /\ tick'[t] = NoTick \/ tick'[t] = [NoTick EXCEPT !.pc = "audit", !.batch = b]
    BY <1>2, <2>1
  <2>7. topic' = topic
    BY <1>7 DEF Fetch
  <2>8. QED BY <1>1, <2>4, <2>5, <2>6, <2>7, AuditorKept
<1>8. ASSUME NEW t \in Ticks, NEW v \in Verdicts, Report(t, v)
      PROVE  AuditorSound'
  <2>1. /\ Working(t) /\ topic' = topic
        /\ \A x \in Ticks \ {t} : tick'[x] = tick[x]
        /\ tick'[t].pc = "checkpoint" /\ tick'[t].verdict = v
        /\ tick'[t].batch = tick[t].batch
    BY <1>8, <1>2 DEF Report, TickRecord, Working
  <2>2. v = "CONFLICT" => ConflictOn(Head(tick[t].batch)) \in reports'
    BY <1>8 DEF Report, ConflictOn
  <2>3. \A i \in DOMAIN tick[t].batch : tick[t].batch[i] \in Stored'
    BY <1>1, <1>3, <2>1 DEF SoundTick, Working
  <2>4. SoundTick(tick'[t], Stored', reports')
    BY <2>1, <2>2, <2>3 DEF SoundTick
  <2>5. QED BY <1>1, <2>1, <2>4, AuditorKept
<1>9. ASSUME NEW t \in Ticks, AnswerUnusable(t) \/ ReportFails(t) \/ CheckpointFails(t)
      PROVE  AuditorSound'
  BY <1>5, <1>9 DEF AnswerUnusable, ReportFails, CheckpointFails, Working
<1>10. ASSUME NEW t \in Ticks, SetCheckpoint(t)
       PROVE  AuditorSound'
  <2>1. CASE tick[t].verdict = "CONFLICT"
    <3>1. /\ tick[t].pc = "checkpoint" /\ topic' = topic
          /\ \A x \in Ticks \ {t} : tick'[x] = tick[x]
          /\ tick'[t].pc = "publish" /\ tick'[t].batch = tick[t].batch
      BY <1>10, <1>2, <2>1 DEF SetCheckpoint, TickRecord
    <3>2. SoundTick(tick'[t], Stored, reports)
      BY <1>3, <2>1, <3>1 DEF SoundTick
    <3>3. SoundTick(tick'[t], Stored', reports')
      BY <1>1, <3>2, SoundTickKept
    <3>4. QED BY <1>1, <3>1, <3>3, AuditorKept
  <2>2. CASE tick[t].verdict # "CONFLICT"
    BY <1>5, <1>10, <2>2 DEF SetCheckpoint, Working
  <2>3. QED BY <2>1, <2>2
<1>11. ASSUME NEW t \in Ticks, Publish(t)
       PROVE  AuditorSound'
  <2>1. /\ Working(t) /\ NextReceipt(t) /\ tick[t].pc = "publish"
        /\ topic' \subseteq topic \union {Head(tick[t].batch)}
    BY <1>11 DEF Publish, Working
  <2>2. Evidence(Head(tick[t].batch), Stored', reports')
    BY <1>1, <1>3, <1>4, <2>1 DEF SoundTick, Evidence
  <2>3. /\ \A x \in Ticks \ {t} : tick'[x] = tick[x]
        /\ SoundTick(tick'[t], Stored, reports)
    BY <1>3, <2>1, NextReceiptSound
  <2>4. SoundTick(tick'[t], Stored', reports')
    BY <1>1, <2>3, SoundTickKept
  <2>5. QED BY <1>1, <2>1, <2>2, <2>3, <2>4, AuditorKept
<1>12. CASE AuditorCrash
  <2>1. \A t \in Ticks : tick'[t] = NoTick
    BY <1>12 DEF AuditorCrash
  <2>2. SoundTick(NoTick, Stored', reports')
    BY DEF SoundTick, NoTick
  <2>3. QED BY <1>1, <1>12, <2>1, <2>2, AuditorKept DEF AuditorCrash
<1>13. CASE tick' = tick /\ topic' \subseteq topic
  BY <1>1, <1>13, AuditorKept
<1>h. ASSUME NEW t \in Ticks, Hang(t)
      PROVE  AuditorSound'
  <2>1. /\ \A x \in Ticks \ {t} : tick'[x] = tick[x]
        /\ tick'[t].pc = "hung"
        /\ topic' = topic
    BY <1>2, <1>h DEF Hang, TickRecord
  <2>2. SoundTick(tick'[t], Stored', reports')
    BY <2>1 DEF SoundTick
  <2>3. QED BY <1>1, <2>1, <2>2, AuditorKept
<1>14. CASE AuditNext
  BY <1>6, <1>7, <1>8, <1>9, <1>10, <1>11, <1>12, <1>13, <1>14, <1>h
     DEF AuditNext, TickStep, Store, AuditOnDemand
<1>15. CASE Acknowledges
  BY <1>13, <1>15 DEF Acknowledges, auditorVars
<1>16. QED BY <1>14, <1>15, AuditorCases

-----------------------------------------------------------------------------
(* What keeps the invariant of the handlers.                               *)

Investigation == [pc : {"idle", "investigate", "hung", "notify", "waiting"},
                  incident : AnyIncident]

Isolation == [pc : {"idle", "analyse", "hung", "contain"}, incident : AnyIncident,
              plan : SUBSET Agents, executed : SUBSET Agents, unsure : SUBSET Agents]

\* The revocation x is in one of the records P, in the hand of a handler of J,
\* or of an incident among D.
Accounts(x, P, J, D) ==
  \/ \E p \in P : p.incident = x.incident /\ x.agent \in p.executed \union p.unsure
  \/ \E c \in Callers : /\ J[c].pc = "contain"
                        /\ J[c].incident = x.incident
                        /\ x.agent \in J[c].executed \union J[c].unsure
  \/ x.incident \in D

\* A handler in state x hands what it accounts for to its next state y, to the
\* records P, or gives up.
Passes(x, y, P, D) ==
  \/ x.pc # "contain"
  \/ x.incident \in D
  \/ /\ y.pc = "contain" /\ y.incident = x.incident
     /\ x.executed \subseteq y.executed /\ x.unsure \subseteq y.unsure
  \/ \E p \in P : /\ p.incident = x.incident
                  /\ x.executed \subseteq p.executed /\ x.unsure \subseteq p.unsure

TruthfulRecord(p, V) ==
  \A a \in Agents : a \in p.executed => [agent |-> a, incident |-> p.incident] \in V

LEMMA HandlersKept ==
  ASSUME HandlersSound, Stored \subseteq Stored', reports \subseteq reports',
         incidents \subseteq incidents', revoked \subseteq revoked',
         \A h \in Deliveries :
           inv'[h] = inv[h] \/ SoundInvestigation(inv'[h], incidents', Stored', reports'),
         \A c \in Callers : iso'[c] = iso[c] \/ SoundIsolation(iso'[c], incidents', revoked'),
         \A n \in incidents' : n \in incidents \/ Evidence(n.trigger, Stored', reports'),
         \A x \in revoked' : x \in revoked \/ (x.incident \in incidents' /\ SevereEnough(x.incident))
  PROVE  HandlersSound'
<1>1. ASSUME NEW h \in Deliveries
      PROVE  SoundInvestigation(inv'[h], incidents', Stored', reports')
  <2>1. SoundInvestigation(inv[h], incidents, Stored, reports)
    BY DEF HandlersSound
  <2>2. SoundInvestigation(inv[h], incidents', Stored', reports')
    BY <2>1 DEF SoundInvestigation, Evidence
  <2>3. QED BY <2>2
<1>2. ASSUME NEW c \in Callers
      PROVE  SoundIsolation(iso'[c], incidents', revoked')
  <2>1. SoundIsolation(iso[c], incidents, revoked)
    BY DEF HandlersSound
  <2>2. SoundIsolation(iso[c], incidents', revoked')
    BY <2>1 DEF SoundIsolation
  <2>3. QED BY <2>2
<1>3. \A n \in incidents' : Evidence(n.trigger, Stored', reports')
  BY DEF HandlersSound, Evidence
<1>4. \A x \in revoked' : x.incident \in incidents' /\ SevereEnough(x.incident)
  BY DEF HandlersSound
<1>5. QED BY <1>1, <1>2, <1>3, <1>4 DEF HandlersSound

LEMMA StoriesKept ==
  ASSUME RecordsTruthful, RevocationsRecorded,
         records \subseteq records', revoked \subseteq revoked', dropped \subseteq dropped',
         \A c \in Callers : Passes(iso[c], iso'[c], records', dropped'),
         \A p \in records' : p \in records \/ TruthfulRecord(p, revoked'),
         \A x \in revoked' : x \in revoked \/ Accounts(x, records', iso', dropped')
  PROVE  RecordsTruthful' /\ RevocationsRecorded'
<1>1. \A p \in records : TruthfulRecord(p, revoked')
  BY DEF RecordsTruthful, TruthfulRecord
<1>2. RecordsTruthful'
  BY <1>1 DEF RecordsTruthful, TruthfulRecord
<1>3. ASSUME NEW x \in revoked
      PROVE  Accounts(x, records', iso', dropped')
  <2>1. CASE \E p \in records : p.incident = x.incident /\ x.agent \in p.executed \union p.unsure
    BY <2>1 DEF Accounts
  <2>2. ASSUME NEW c \in Callers, iso[c].pc = "contain", iso[c].incident = x.incident,
               x.agent \in iso[c].executed \union iso[c].unsure
        PROVE  Accounts(x, records', iso', dropped')
    <3>1. Passes(iso[c], iso'[c], records', dropped')
      OBVIOUS
    <3>2. QED BY <2>2, <3>1 DEF Passes, Accounts
  <2>3. CASE x.incident \in dropped
    BY <2>3 DEF Accounts
  <2>4. QED BY <2>1, <2>2, <2>3 DEF RevocationsRecorded
<1>4. RevocationsRecorded'
  BY <1>3 DEF RevocationsRecorded, Accounts
<1>5. QED BY <1>2, <1>4

\* What a step establishes, the Auditor's part set aside.
ContainKept == ContainTypeOK' /\ HandlersSound' /\ RecordsTruthful' /\ RevocationsRecorded'

ContainFacts ==
  /\ ContainInv
  /\ TypeInv'
  /\ Stored \subseteq Stored' /\ reports \subseteq reports'

\* A step that touches neither the Isolator nor the registry.
LEMMA InvestigatorStep ==
  ASSUME ContainFacts, UNCHANGED <<iso, registered, records, revoked>>,
         inv' \in [Deliveries -> Investigation],
         incidents \subseteq incidents', incidents' \subseteq Incidents,
         swallowed' \subseteq Receipts, dropped \subseteq dropped', dropped' \subseteq Incidents,
         \A h \in Deliveries :
           inv'[h] = inv[h] \/ SoundInvestigation(inv'[h], incidents', Stored, reports),
         \A n \in incidents' : n \in incidents \/ Evidence(n.trigger, Stored, reports)
  PROVE  ContainKept
<1>1. \A h \in Deliveries :
        inv'[h] = inv[h] \/ SoundInvestigation(inv'[h], incidents', Stored', reports')
  BY DEF SoundInvestigation, Evidence, ContainFacts
<1>2. \A n \in incidents' : n \in incidents \/ Evidence(n.trigger, Stored', reports')
  BY DEF Evidence, ContainFacts
<1>3. HandlersSound'
  BY <1>1, <1>2, HandlersKept DEF ContainFacts, ContainInv
<1>4. \A c \in Callers : Passes(iso[c], iso'[c], records', dropped')
  BY DEF Passes
<1>5. RecordsTruthful' /\ RevocationsRecorded'
  BY <1>4, StoriesKept DEF ContainFacts, ContainInv
<1>6. ContainTypeOK'
  BY DEF ContainFacts, ContainInv, ContainTypeOK, TypeInv, Investigation
<1>7. QED BY <1>3, <1>5, <1>6 DEF ContainKept

\* A step that moves one handler of the Isolator.
LEMMA IsolatorStep ==
  ASSUME ContainFacts, UNCHANGED <<incidents, swallowed>>,
         inv' \in [Deliveries -> Investigation],
         \A h \in Deliveries :
           inv'[h] = inv[h] \/ SoundInvestigation(inv'[h], incidents, Stored, reports),
         registered' \subseteq Agents, NEW c \in Callers, NEW y \in Isolation,
         iso' = [iso EXCEPT ![c] = y],
         SoundIsolation(y, incidents, revoked'),
         Passes(iso[c], y, records', dropped'),
         records \subseteq records',
         records' \subseteq [incident : Incidents, executed : SUBSET Agents, unsure : SUBSET Agents],
         \A p \in records' : p \in records \/ TruthfulRecord(p, revoked'),
         revoked \subseteq revoked', revoked' \subseteq [agent : Agents, incident : Incidents],
         \A x \in revoked' :
           \/ x \in revoked
           \/ /\ x.incident \in incidents /\ SevereEnough(x.incident)
              /\ Accounts(x, records', iso', dropped'),
         dropped \subseteq dropped', dropped' \subseteq Incidents
  PROVE  ContainKept
<1>1. iso \in [Callers -> Isolation]
  BY DEF ContainFacts, ContainInv, ContainTypeOK, Isolation
<1>2. iso' \in [Callers -> Isolation] /\ iso'[c] = y /\ \A d \in Callers \ {c} : iso'[d] = iso[d]
  BY <1>1
<1>3. HandlersSound'
  <2>1. \A h \in Deliveries :
          inv'[h] = inv[h] \/ SoundInvestigation(inv'[h], incidents', Stored', reports')
    BY DEF SoundInvestigation, Evidence, ContainFacts
  <2>2. QED BY <1>2, <2>1, HandlersKept DEF ContainFacts, ContainInv
<1>4. \A d \in Callers : Passes(iso[d], iso'[d], records', dropped')
  BY <1>2 DEF Passes
<1>5. RecordsTruthful' /\ RevocationsRecorded'
  BY <1>4, StoriesKept DEF ContainFacts, ContainInv
<1>6. ContainTypeOK'
  BY <1>2 DEF ContainFacts, ContainInv, ContainTypeOK, TypeInv, Investigation, Isolation
<1>7. QED BY <1>3, <1>5, <1>6 DEF ContainKept

-----------------------------------------------------------------------------
(* The steps of the Investigator.                                          *)

LEMMA HandlersTyped ==
  ASSUME ContainFacts
  PROVE  /\ inv \in [Deliveries -> Investigation]
         /\ iso \in [Callers -> Isolation]
         /\ incidents \subseteq Incidents /\ registered \subseteq Agents
         /\ records \subseteq [incident : Incidents, executed : SUBSET Agents, unsure : SUBSET Agents]
         /\ revoked \subseteq [agent : Agents, incident : Incidents]
         /\ swallowed \subseteq Receipts /\ dropped \subseteq Incidents
         /\ \A h \in Deliveries : SoundInvestigation(inv[h], incidents, Stored, reports)
         /\ \A c \in Callers : SoundIsolation(iso[c], incidents, revoked)
         /\ Quiet \in Investigation /\ NoIsolation \in Isolation
BY DEF ContainFacts, ContainInv, ContainTypeOK, HandlersSound, Investigation, Isolation, Quiet,
       NoIsolation, AnyIncident

LEMMA QuietSound ==
  ASSUME NEW I, NEW S, NEW R, NEW V
  PROVE  SoundInvestigation(Quiet, I, S, R) /\ SoundIsolation(NoIsolation, I, V)
BY DEF SoundInvestigation, SoundIsolation, Quiet, NoIsolation

\* One handler of the Investigator moves, to a sound state.
LEMMA InvestigationMoves ==
  ASSUME ContainFacts, NEW h \in Deliveries, NEW x \in Investigation, NEW I,
         inv' = [inv EXCEPT ![h] = x], SoundInvestigation(x, I, Stored, reports)
  PROVE  /\ inv' \in [Deliveries -> Investigation]
         /\ \A k \in Deliveries : inv'[k] = inv[k] \/ SoundInvestigation(inv'[k], I, Stored, reports)
BY HandlersTyped

LEMMA DeliverKeeps ==
  ASSUME ContainFacts, NEW h \in Deliveries, NEW r \in Receipts, Deliver(h, r)
  PROVE  ContainKept
<1>1. DEFINE n == [trigger |-> r, severity |-> "LOW", number |-> 0]
             x == [pc |-> "investigate", incident |-> n]
<1>2. r \in topic /\ inv' = [inv EXCEPT ![h] = x]
      /\ UNCHANGED <<iso, incidents, registered, records, revoked, swallowed, dropped>>
  BY DEF Deliver, historyVars
<1>3. Evidence(r, Stored, reports)
  BY <1>2 DEF ContainFacts, ContainInv, AuditorSound
<1>4. n \in Incidents /\ n.trigger = r
  BY DEF Incidents, Severities
<1>5. x \in Investigation
  BY <1>4 DEF Investigation, AnyIncident
<1>6. SoundInvestigation(x, incidents', Stored, reports)
  BY <1>3, <1>4 DEF SoundInvestigation
<1>7. /\ inv' \in [Deliveries -> Investigation]
      /\ \A k \in Deliveries :
           inv'[k] = inv[k] \/ SoundInvestigation(inv'[k], incidents', Stored, reports)
  BY <1>2, <1>5, <1>6, InvestigationMoves
<1>8. QED BY <1>2, <1>7, HandlersTyped, InvestigatorStep

\* The incident a handler may store: any severity, the announced trigger.
LEMMA IncidentFacts ==
  ASSUME ContainFacts, NEW h \in Deliveries, inv[h].pc # "idle", NEW s \in Severities,
         NEW k \in Numbers
  PROVE  LET n == Written(h, s, k) IN
           /\ n \in Incidents /\ n.severity = s
           /\ Evidence(n.trigger, Stored, reports)
           /\ n.trigger = inv[h].incident.trigger /\ n.trigger \in Receipts
BY HandlersTyped DEF Written, SoundInvestigation, Incidents

LEMMA IncidentKeeps ==
  ASSUME ContainFacts, NEW h \in Deliveries, NEW s \in Severities, NEW k \in Numbers,
         Incident(h, s, k)
  PROVE  ContainKept
<1>1. DEFINE n == Written(h, s, k)
             x == [pc |-> "notify", incident |-> n]
<1>2. /\ inv[h].pc = "investigate"
      /\ incidents' = incidents \union {n}
      /\ UNCHANGED <<iso, registered, records, revoked, swallowed, dropped>>
  BY DEF Incident, historyVars
<1>3. n \in Incidents /\ n.severity = s /\ Evidence(n.trigger, Stored, reports)
  BY <1>2, IncidentFacts
<1>4. CASE s = "HIGH"
  <2>1. inv' = [inv EXCEPT ![h] = x]
    BY <1>4 DEF Incident
  <2>2. x \in Investigation /\ x.pc = "notify" /\ x.incident = n
    BY <1>3 DEF Investigation, AnyIncident
  <2>3. SoundInvestigation(x, incidents', Stored, reports)
    <3>1. n \in incidents' /\ SevereEnough(n)
      BY <1>2, <1>3, <1>4 DEF SevereEnough
    <3> HIDE DEF x, n
    <3>2. QED BY <1>3, <2>2, <3>1 DEF SoundInvestigation
  <2>4. /\ inv' \in [Deliveries -> Investigation]
        /\ \A g \in Deliveries :
             inv'[g] = inv[g] \/ SoundInvestigation(inv'[g], incidents', Stored, reports)
    BY <2>1, <2>2, <2>3, InvestigationMoves
  <2>5. QED BY <1>2, <1>3, <2>4, HandlersTyped, InvestigatorStep
<1>5. CASE s # "HIGH"
  <2>1. inv' = [inv EXCEPT ![h] = Quiet]
    BY <1>5 DEF Incident, Answer
  <2>2. /\ inv' \in [Deliveries -> Investigation]
        /\ \A g \in Deliveries :
             inv'[g] = inv[g] \/ SoundInvestigation(inv'[g], incidents', Stored, reports)
    BY <2>1, HandlersTyped, QuietSound, InvestigationMoves
  <2>3. QED BY <1>2, <1>3, <2>2, HandlersTyped, InvestigatorStep
<1>6. QED BY <1>4, <1>5

LEMMA IncidentFailsKeeps ==
  ASSUME ContainFacts, NEW h \in Deliveries, IncidentFails(h)
  PROVE  ContainKept
<1>1. /\ inv[h].pc = "investigate"
      /\ swallowed' = swallowed \union {inv[h].incident.trigger}
      /\ inv' = [inv EXCEPT ![h] = Quiet]
      /\ UNCHANGED <<iso, registered, records, revoked>>
  BY DEF IncidentFails, Answer
<1>2. \/ UNCHANGED <<incidents, dropped>>
      \/ \E s \in Severities, k \in Numbers :
           /\ incidents' = incidents \union {Written(h, s, k)}
           /\ dropped' = dropped \union {Written(h, s, k)}
  BY DEF IncidentFails
<1>3. /\ incidents \subseteq incidents' /\ incidents' \subseteq Incidents
      /\ dropped \subseteq dropped' /\ dropped' \subseteq Incidents
      /\ \A n \in incidents' : n \in incidents \/ Evidence(n.trigger, Stored, reports)
  <2>1. CASE UNCHANGED <<incidents, dropped>>
    BY <2>1, HandlersTyped
  <2>2. ASSUME NEW s \in Severities, NEW k \in Numbers, NEW n, n = Written(h, s, k),
               incidents' = incidents \union {n}, dropped' = dropped \union {n}
        PROVE  <1>3
    <3>1. n \in Incidents /\ Evidence(n.trigger, Stored, reports)
      BY <1>1, <2>2, IncidentFacts
    <3>2. QED BY <2>2, <3>1, HandlersTyped
  <2>3. QED BY <1>2, <2>1, <2>2
<1>4. inv[h].incident.trigger \in Receipts
  BY <1>1, HandlersTyped DEF SoundInvestigation, Incidents
<1>5. /\ inv' \in [Deliveries -> Investigation]
      /\ \A g \in Deliveries :
           inv'[g] = inv[g] \/ SoundInvestigation(inv'[g], incidents', Stored, reports)
  BY <1>1, HandlersTyped, QuietSound, InvestigationMoves
<1>6. QED BY <1>1, <1>3, <1>4, <1>5, HandlersTyped, InvestigatorStep

LEMMA InvestigatorHangsKeeps ==
  ASSUME ContainFacts, NEW h \in Deliveries, InvestigatorHangs(h)
  PROVE  ContainKept
<1>1. DEFINE x == [inv[h] EXCEPT !.pc = "hung"]
<1>2. /\ inv[h].pc = "investigate" /\ inv' = [inv EXCEPT ![h] = x]
      /\ UNCHANGED <<iso, incidents, registered, records, revoked, swallowed, dropped>>
  BY HandlersTyped DEF InvestigatorHangs, historyVars
<1>3. x \in Investigation /\ x.pc = "hung" /\ x.incident = inv[h].incident
  BY HandlersTyped DEF Investigation
<1>4. SoundInvestigation(inv[h], incidents, Stored, reports)
  BY HandlersTyped
<1> HIDE DEF x
<1>5. SoundInvestigation(x, incidents', Stored, reports)
  BY <1>2, <1>3, <1>4 DEF SoundInvestigation
<1>6. /\ inv' \in [Deliveries -> Investigation]
      /\ \A k \in Deliveries :
           inv'[k] = inv[k] \/ SoundInvestigation(inv'[k], incidents', Stored, reports)
  BY <1>2, <1>3, <1>5, InvestigationMoves
<1>7. QED BY <1>2, <1>6, HandlersTyped, InvestigatorStep

\* The Isolator does not answer, or is not reached.
LEMMA GivesUpKeeps ==
  ASSUME ContainFacts, NEW h \in Deliveries, NotifyFails(h) \/ WaitOver(h)
  PROVE  ContainKept
<1>1. /\ inv[h].pc # "idle"
      /\ inv' = [inv EXCEPT ![h] = Quiet]
      /\ dropped' = dropped \union {inv[h].incident} \/ dropped' = dropped
      /\ UNCHANGED <<iso, incidents, registered, records, revoked, swallowed>>
  BY DEF NotifyFails, WaitOver, Answer, historyVars
<1>2. inv[h].incident \in Incidents
  BY <1>1, HandlersTyped DEF SoundInvestigation
<1>3. /\ inv' \in [Deliveries -> Investigation]
      /\ \A k \in Deliveries :
           inv'[k] = inv[k] \/ SoundInvestigation(inv'[k], incidents', Stored, reports)
  BY <1>1, HandlersTyped, QuietSound, InvestigationMoves
<1>4. QED BY <1>1, <1>2, <1>3, HandlersTyped, InvestigatorStep

LEMMA InvestigatorCrashKeeps ==
  ASSUME ContainFacts, InvestigatorCrash
  PROVE  ContainKept
<1>1. /\ inv' = [h \in Deliveries |-> Quiet]
      /\ dropped' = dropped \union
           {inv[h].incident : h \in {x \in Busy : inv[x].pc = "notify"}}
      /\ UNCHANGED <<iso, incidents, registered, records, revoked, swallowed>>
  BY DEF InvestigatorCrash
<1>2. \A h \in Busy : inv[h].incident \in Incidents
  BY HandlersTyped DEF Busy, SoundInvestigation
<1>3. /\ inv' \in [Deliveries -> Investigation]
      /\ \A k \in Deliveries : SoundInvestigation(inv'[k], incidents', Stored, reports)
  BY <1>1, HandlersTyped, QuietSound
<1>4. QED BY <1>1, <1>2, <1>3, HandlersTyped, InvestigatorStep

-----------------------------------------------------------------------------
(* The steps of the Isolator.                                              *)

\* A caller hands a stored incident above the gate to an idle Isolator.
LEMMA CallAccepted ==
  ASSUME ContainFacts, NEW c \in Callers, NEW n \in incidents, SevereEnough(n), iso[c].pc = "idle",
         iso' = [iso EXCEPT ![c] = [NoIsolation EXCEPT !.pc = "analyse", !.incident = n]],
         inv' \in [Deliveries -> Investigation],
         \A h \in Deliveries :
           inv'[h] = inv[h] \/ SoundInvestigation(inv'[h], incidents, Stored, reports),
         UNCHANGED <<incidents, registered, records, historyVars>>
  PROVE  ContainKept
<1>1. DEFINE y == [NoIsolation EXCEPT !.pc = "analyse", !.incident = n]
<1>2. y \in Isolation
  BY HandlersTyped DEF NoIsolation, Isolation, AnyIncident
<1>3. SoundIsolation(y, incidents, revoked)
  BY DEF SoundIsolation, NoIsolation
<1>4. Passes(iso[c], y, records', dropped')
  BY DEF Passes
<1>5. UNCHANGED <<registered, records, revoked, swallowed, dropped>>
  BY DEF historyVars
<1>6. QED BY <1>2, <1>3, <1>4, <1>5, HandlersTyped, IsolatorStep

LEMMA NotifyKeeps ==
  ASSUME ContainFacts, NEW h \in Deliveries, Notify(h)
  PROVE  ContainKept
<1>1. DEFINE x == [inv[h] EXCEPT !.pc = "waiting"]
<1>2. /\ inv[h].pc = "notify" /\ iso[h].pc = "idle"
      /\ inv' = [inv EXCEPT ![h].pc = "waiting"]
      /\ iso' = [iso EXCEPT ![h] = [NoIsolation EXCEPT !.pc = "analyse", !.incident = inv[h].incident]]
      /\ UNCHANGED <<incidents, registered, records, historyVars>>
  BY DEF Notify
<1>3. /\ inv[h].incident \in incidents /\ inv[h].incident \in Incidents
      /\ SevereEnough(inv[h].incident)
      /\ Evidence(inv[h].incident.trigger, Stored, reports)
  BY <1>2, HandlersTyped DEF SoundInvestigation
<1>4. x \in Investigation /\ x.pc = "waiting" /\ x.incident = inv[h].incident
  BY HandlersTyped DEF Investigation
<1>5. inv' = [inv EXCEPT ![h] = x]
  BY <1>2, HandlersTyped
<1>6. SoundInvestigation(x, incidents, Stored, reports)
  BY <1>3, <1>4 DEF SoundInvestigation
<1>7. /\ inv' \in [Deliveries -> Investigation]
      /\ \A k \in Deliveries :
           inv'[k] = inv[k] \/ SoundInvestigation(inv'[k], incidents, Stored, reports)
  BY <1>4, <1>5, <1>6, InvestigationMoves
<1>8. h \in Callers
  BY DEF Callers
<1>9. QED BY <1>2, <1>3, <1>7, <1>8, CallAccepted

LEMMA IsolateStoredKeeps ==
  ASSUME ContainFacts, NEW n \in Incidents, IsolateStored(n)
  PROVE  ContainKept
<1>1. /\ iso[Operator].pc = "idle" /\ n \in incidents /\ SevereEnough(n)
      /\ iso' = [iso EXCEPT ![Operator] = [NoIsolation EXCEPT !.pc = "analyse", !.incident = n]]
      /\ UNCHANGED <<inv, incidents, registered, records, historyVars>>
  BY DEF IsolateStored
<1>2. Operator \in Callers
  BY DEF Callers
<1>3. QED BY <1>1, <1>2, HandlersTyped, CallAccepted

LEMMA AnalyseKeeps ==
  ASSUME ContainFacts, NEW c \in Callers, NEW plan \in SUBSET Agents, Analyse(c, plan)
  PROVE  ContainKept
<1>1. DEFINE y == [iso[c] EXCEPT !.pc = "contain", !.plan = plan]
<1>2. /\ iso[c].pc = "analyse"
      /\ iso' = [iso EXCEPT ![c].pc = "contain", ![c].plan = plan]
      /\ UNCHANGED <<inv, incidents, registered, records, revoked, swallowed, dropped>>
  BY DEF Analyse, historyVars
<1>3. /\ y \in Isolation /\ y.pc = "contain"
      /\ y.incident = iso[c].incident /\ y.executed = iso[c].executed
  BY HandlersTyped DEF Isolation
<1>4. iso' = [iso EXCEPT ![c] = y]
  BY <1>2, HandlersTyped
<1>5. SoundIsolation(iso[c], incidents, revoked)
  BY HandlersTyped
<1> HIDE DEF y
<1>6. SoundIsolation(y, incidents, revoked)
  BY <1>2, <1>3, <1>5 DEF SoundIsolation
<1>7. Passes(iso[c], y, records', dropped')
  BY <1>2 DEF Passes
<1>8. QED BY <1>2, <1>3, <1>4, <1>6, <1>7, HandlersTyped, IsolatorStep

LEMMA AnalysisFailsKeeps ==
  ASSUME ContainFacts, NEW c \in Callers, AnalysisFails(c)
  PROVE  ContainKept
<1>1. /\ iso[c].pc \in {"analyse", "contain"}
      /\ iso' = [iso EXCEPT ![c] = NoIsolation]
      /\ dropped' = dropped \union {iso[c].incident}
      /\ UNCHANGED <<inv, incidents, registered, records, revoked, swallowed>>
  BY DEF AnalysisFails
<1>2. iso[c].incident \in Incidents
  BY <1>1, HandlersTyped DEF SoundIsolation
<1>3. Passes(iso[c], NoIsolation, records', dropped')
  BY <1>1 DEF Passes
<1>4. QED BY <1>1, <1>2, <1>3, HandlersTyped, QuietSound, IsolatorStep

LEMMA IsolatorHangsKeeps ==
  ASSUME ContainFacts, NEW c \in Callers, IsolatorHangs(c)
  PROVE  ContainKept
<1>1. DEFINE y == [iso[c] EXCEPT !.pc = "hung"]
<1>2. /\ iso[c].pc = "analyse" /\ iso' = [iso EXCEPT ![c] = y]
      /\ UNCHANGED <<inv, incidents, registered, records, revoked, swallowed, dropped>>
  BY HandlersTyped DEF IsolatorHangs, historyVars
<1>3. /\ y \in Isolation /\ y.pc = "hung"
      /\ y.incident = iso[c].incident /\ y.executed = iso[c].executed
  BY HandlersTyped DEF Isolation
<1>4. SoundIsolation(iso[c], incidents, revoked)
  BY HandlersTyped
<1> HIDE DEF y
<1>5. SoundIsolation(y, incidents, revoked)
  BY <1>2, <1>3, <1>4 DEF SoundIsolation
<1>6. Passes(iso[c], y, records', dropped')
  BY <1>2 DEF Passes
<1>7. QED BY <1>2, <1>3, <1>5, <1>6, HandlersTyped, IsolatorStep

\* What is newly revoked is in the handler's hand, as executed or as unsure.
LEMMA RevokeKeeps ==
  ASSUME ContainFacts, NEW c \in Callers, NEW a \in Agents, Revoke(c, a)
  PROVE  ContainKept
<1>1. DEFINE new == {[agent |-> x, incident |-> iso[c].incident] : x \in registered \intersect {a}}
<1>2. iso[c] \in Isolation /\ SoundIsolation(iso[c], incidents, revoked)
  BY HandlersTyped
<1>3. /\ iso[c].pc = "contain" /\ UNCHANGED <<inv, incidents, records, swallowed, dropped>>
  BY DEF Revoke
<1>4. /\ iso[c].incident \in incidents /\ iso[c].incident \in Incidents
      /\ SevereEnough(iso[c].incident)
  BY <1>2, <1>3, HandlersTyped DEF SoundIsolation
<1>5. new \subseteq [agent : Agents, incident : Incidents]
  BY <1>4
\* Both outcomes of the call: y is the handler's next state.
<1>6. ASSUME NEW y \in Isolation, iso' = [iso EXCEPT ![c] = y],
             y.pc = "contain", y.incident = iso[c].incident,
             iso[c].executed \subseteq y.executed, iso[c].unsure \subseteq y.unsure,
             \/ /\ registered' = registered \ {a} /\ revoked' = revoked \union new
                /\ registered \intersect {a} \subseteq y.executed \union y.unsure
                /\ y.executed \subseteq iso[c].executed \union (registered \intersect {a})
             \/ UNCHANGED <<registered, revoked>> /\ y.executed = iso[c].executed
      PROVE  ContainKept
  <2>1. /\ registered' \subseteq Agents
        /\ revoked \subseteq revoked' /\ revoked' \subseteq [agent : Agents, incident : Incidents]
        /\ revoked' \subseteq revoked \union new
    BY <1>5, <1>6, HandlersTyped
  <2>2. \A x \in y.executed : [agent |-> x, incident |-> y.incident] \in revoked'
    <3>1. \A x \in iso[c].executed : [agent |-> x, incident |-> iso[c].incident] \in revoked'
      BY <1>2, <1>3, <2>1 DEF SoundIsolation
    <3>2. QED BY <1>6, <3>1
  <2>3. SoundIsolation(y, incidents, revoked')
    BY <1>4, <1>6, <2>2 DEF SoundIsolation
  <2>4. Passes(iso[c], y, records', dropped')
    BY <1>6 DEF Passes
  <2>5. ASSUME NEW x \in revoked', x \notin revoked
        PROVE  /\ x.incident \in incidents /\ SevereEnough(x.incident)
               /\ Accounts(x, records', iso', dropped')
    <3>1. /\ x.incident = iso[c].incident
          /\ x.agent \in y.executed \union y.unsure
      BY <1>6, <2>1, <2>5
    <3>2. iso'[c] = y
      BY <1>6, HandlersTyped
    <3>3. Accounts(x, records', iso', dropped')
      BY <1>6, <3>1, <3>2 DEF Accounts
    <3>4. QED BY <1>4, <3>1, <3>3
  <2>6. QED BY <1>3, <1>6, <2>1, <2>3, <2>4, <2>5, HandlersTyped, IsolatorStep
<1>7. CASE /\ iso' = [iso EXCEPT ![c].plan = @ \ {a}, ![c].executed = @ \union Executed(a)]
           /\ Unregister(c, a)
  <2>1. DEFINE y == [iso[c] EXCEPT !.plan = @ \ {a}, !.executed = @ \union (registered \intersect {a})]
  <2>2. iso' = [iso EXCEPT ![c] = y]
    BY <1>7, HandlersTyped DEF Executed
  <2>3. /\ y \in Isolation /\ y.pc = iso[c].pc /\ y.incident = iso[c].incident
        /\ y.executed = iso[c].executed \union (registered \intersect {a})
        /\ y.unsure = iso[c].unsure
    BY <1>2 DEF Isolation
  <2>4. registered' = registered \ {a} /\ revoked' = revoked \union new
    BY <1>7 DEF Unregister
  <2> HIDE DEF y, new
  <2>5. QED BY <1>3, <1>6, <2>2, <2>3, <2>4
<1>8. CASE /\ iso' = [iso EXCEPT ![c].plan = @ \ {a}, ![c].unsure = @ \union {a}]
           /\ Unregister(c, a) \/ UNCHANGED <<registered, revoked>>
  <2>1. DEFINE y == [iso[c] EXCEPT !.plan = @ \ {a}, !.unsure = @ \union {a}]
  <2>2. iso' = [iso EXCEPT ![c] = y]
    BY <1>8, HandlersTyped
  <2>3. /\ y \in Isolation /\ y.pc = iso[c].pc /\ y.incident = iso[c].incident
        /\ y.executed = iso[c].executed /\ y.unsure = iso[c].unsure \union {a}
    BY <1>2 DEF Isolation
  <2>4. \/ registered' = registered \ {a} /\ revoked' = revoked \union new
        \/ UNCHANGED <<registered, revoked>>
    BY <1>8 DEF Unregister
  <2> HIDE DEF y, new
  <2>5. QED BY <1>3, <1>6, <2>2, <2>3, <2>4
<1>9. QED BY <1>7, <1>8 DEF Revoke

LEMMA RecordKeeps ==
  ASSUME ContainFacts, NEW c \in Callers, Record(c)
  PROVE  ContainKept
<1>1. DEFINE p == [incident |-> iso[c].incident, executed |-> iso[c].executed,
                   unsure |-> iso[c].unsure]
<1>2. /\ iso[c].pc = "contain"
      /\ iso' = [iso EXCEPT ![c] = NoIsolation]
      /\ UNCHANGED <<inv, incidents, registered, revoked, swallowed>>
      /\ \/ records' = records \union {p} /\ dropped' = dropped
         \/ /\ records' \in {records, records \union {p}}
            /\ dropped' = dropped \union {iso[c].incident}
  BY DEF Record, IsolationRecord
<1>3. iso[c] \in Isolation /\ SoundIsolation(iso[c], incidents, revoked)
  BY HandlersTyped
<1>4. iso[c].incident \in Incidents
  BY <1>2, <1>3, HandlersTyped DEF SoundIsolation
<1>5. p \in [incident : Incidents, executed : SUBSET Agents, unsure : SUBSET Agents]
  BY <1>3, <1>4 DEF Isolation
<1>6. TruthfulRecord(p, revoked')
  BY <1>2, <1>3 DEF SoundIsolation, TruthfulRecord
<1>7. p.incident = iso[c].incident /\ p.executed = iso[c].executed /\ p.unsure = iso[c].unsure
  OBVIOUS
<1> HIDE DEF p
<1>8. Passes(iso[c], NoIsolation, records', dropped')
  BY <1>2, <1>7 DEF Passes
<1>9. QED BY <1>2, <1>4, <1>5, <1>6, <1>8, HandlersTyped, QuietSound, IsolatorStep

LEMMA IsolatorCrashKeeps ==
  ASSUME ContainFacts, IsolatorCrash
  PROVE  ContainKept
<1>1. /\ iso' = [c \in Callers |-> NoIsolation]
      /\ dropped' = dropped \union {iso[c].incident : c \in {x \in Callers : iso[x].pc # "idle"}}
      /\ UNCHANGED <<inv, incidents, registered, records, revoked, swallowed>>
  BY DEF IsolatorCrash
<1>2. \A c \in Callers : iso[c].pc # "idle" => iso[c].incident \in Incidents /\ iso[c].incident \in dropped'
  BY <1>1, HandlersTyped DEF SoundIsolation
<1>3. dropped \subseteq dropped' /\ dropped' \subseteq Incidents
  BY <1>1, <1>2, HandlersTyped
<1>4. \A c \in Callers : SoundIsolation(iso'[c], incidents', revoked')
  BY <1>1, QuietSound
<1>5. HandlersSound'
  BY <1>1, <1>4, HandlersKept DEF ContainFacts, ContainInv
<1>6. \A c \in Callers : Passes(iso[c], iso'[c], records', dropped')
  BY <1>2 DEF Passes
<1>7. RecordsTruthful' /\ RevocationsRecorded'
  BY <1>1, <1>3, <1>6, StoriesKept DEF ContainFacts, ContainInv
<1>8. iso' \in [Callers -> Isolation]
  BY <1>1, HandlersTyped
<1>9. ContainTypeOK'
  BY <1>1, <1>3, <1>8 DEF ContainFacts, ContainInv, ContainTypeOK, TypeInv, Isolation
<1>10. QED BY <1>5, <1>7, <1>9 DEF ContainKept

\* Steps of the Auditor, restored registrations and stuttering.
LEMMA OthersKeep ==
  ASSUME ContainFacts, UNCHANGED <<inv, iso, incidents, records, historyVars>>,
         registered' \subseteq Agents
  PROVE  ContainKept
<1>1. UNCHANGED <<revoked, swallowed, dropped>>
  BY DEF historyVars
<1>2. HandlersSound'
  BY <1>1, HandlersKept DEF ContainFacts, ContainInv
<1>3. \A c \in Callers : Passes(iso[c], iso'[c], records', dropped')
  BY DEF Passes
<1>4. RecordsTruthful' /\ RevocationsRecorded'
  BY <1>1, <1>3, StoriesKept DEF ContainFacts, ContainInv
<1>5. ContainTypeOK'
  BY <1>1 DEF ContainFacts, ContainInv, ContainTypeOK, TypeInv
<1>6. QED BY <1>2, <1>4, <1>5 DEF ContainKept

LEMMA ContainStep ==
  ASSUME ContainInv, [ContainNext]_vars
  PROVE  ContainInv'
<1>1. TypeInv' /\ AuditorSound'
  BY AuditorTyped, AuditorStep DEF ContainInv
<1>2. ContainFacts
  BY <1>1, EvidenceGrows DEF ContainFacts, ContainInv
<1>3. SUFFICES ContainKept
  BY <1>1 DEF ContainKept, ContainInv
<1>4. CASE \/ AuditNext /\ UNCHANGED <<inv, iso, incidents, registered, records, historyVars>>
           \/ \E a \in Agents : Restore(a)
           \/ UNCHANGED vars
  <2>1. UNCHANGED <<inv, iso, incidents, records, historyVars>> /\ registered' \subseteq Agents
    BY <1>2, <1>4, HandlersTyped DEF Restore, vars
  <2>2. QED BY <1>2, <2>1, OthersKeep
<1>5. ASSUME NEW h \in Deliveries,
             \/ \E r \in Receipts : Deliver(h, r)
             \/ \E s \in Severities, k \in Numbers : Incident(h, s, k)
             \/ IncidentFails(h) \/ InvestigatorHangs(h) \/ Notify(h) \/ NotifyFails(h) \/ WaitOver(h)
      PROVE  ContainKept
  BY <1>2, <1>5, DeliverKeeps, IncidentKeeps, IncidentFailsKeeps, InvestigatorHangsKeeps,
     NotifyKeeps, GivesUpKeeps
<1>6. ASSUME NEW n \in Incidents, IsolateStored(n)
      PROVE  ContainKept
  BY <1>2, <1>6, IsolateStoredKeeps
<1>7. ASSUME NEW c \in Callers,
             \/ \E plan \in SUBSET Agents : Analyse(c, plan)
             \/ AnalysisFails(c) \/ IsolatorHangs(c) \/ Record(c)
             \/ \E a \in Agents : Revoke(c, a)
      PROVE  ContainKept
  BY <1>2, <1>7, AnalyseKeeps, AnalysisFailsKeeps, IsolatorHangsKeeps, RecordKeeps, RevokeKeeps
<1>8. CASE InvestigatorCrash \/ IsolatorCrash
  BY <1>2, <1>8, InvestigatorCrashKeeps, IsolatorCrashKeeps
<1>9. QED BY <1>4, <1>5, <1>6, <1>7, <1>8 DEF ContainNext

LEMMA ContainStart == ContainInit => ContainInv
<1>1. SUFFICES ASSUME ContainInit
               PROVE  ContainInv
  OBVIOUS
<1>2. TypeInv
  BY <1>1, AuditingAssumption
     DEF ContainInit, AuditInit, TypeInv, AuditTypeOK, NoTick, Verdicts, Working
<1>3. ContainTypeOK
  BY <1>1, <1>2
     DEF ContainInit, ContainTypeOK, TypeInv, Quiet, NoIsolation, AnyIncident
<1>4. AuditorSound
  BY <1>1 DEF ContainInit, AuditInit, AuditorSound, SoundTick, NoTick
<1>5. HandlersSound
  BY <1>1, QuietSound DEF ContainInit, HandlersSound
<1>6. RecordsTruthful /\ RevocationsRecorded
  BY <1>1 DEF ContainInit, RecordsTruthful, RevocationsRecorded
<1>7. QED BY <1>2, <1>3, <1>4, <1>5, <1>6 DEF ContainInv

LEMMA ContainInvariant == ContainSpec => []ContainInv
<1>1. ContainInv /\ [ContainNext]_vars => ContainInv'
  BY ContainStep
<1>2. QED BY <1>1, ContainStart, PTL DEF ContainSpec

\* Revocations, isolation records, incidents and audit reports agree and rest on
\* evidence, whatever times out, is delivered again or dies (gateway/isolator,
\* gateway/investigator, gateway/auditor).
THEOREM ContainmentIsJustified == ContainSpec => []RevocationsJustified
<1>1. ContainInv => RevocationsJustified
  <2>1. SUFFICES ASSUME ContainInv
                 PROVE  RevocationsTraceable
    BY DEF ContainInv, RevocationsJustified
  <2>2. ASSUME NEW x \in revoked
        PROVE  /\ x.incident \in incidents /\ x.incident.severity = "HIGH"
               /\ Evidence(x.incident.trigger, Stored, reports)
    BY <2>1 DEF ContainInv, HandlersSound, SevereEnough
  <2>3. QED BY <2>2 DEF RevocationsTraceable, Evidence, ConflictOn
<1>2. QED BY <1>1, ContainInvariant, PTL
=============================================================================
