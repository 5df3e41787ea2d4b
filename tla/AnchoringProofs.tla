--------------------------- MODULE AnchoringProofs ---------------------------
(***************************************************************************)
(* Proofs about ArtifactLog.tla and Anchoring.tla: for every set of        *)
(* artifacts and instances, threshold and limit, every bound on starts and *)
(* transactions and all faults.  The code counts positions per process and *)
(* claims the range up to the head whatever the batch holds; the theorems  *)
(* say that nothing else breaks the log and the claims: a position is      *)
(* rewritten by an outdated instance alone, and what is claimed and not on *)
(* chain was left out at the limit or put there by an outdated instance.   *)
(***************************************************************************)
EXTENDS Anchoring, FiniteSetTheorems, TLAPS

-----------------------------------------------------------------------------
(* The inductive invariant of the log.                                     *)

\* An instance that opened the log and is not outdated counts at least up to the
\* highest stored position.
LogInv ==
  /\ LogTypeOK
  /\ IsFiniteSet(DOMAIN log)
  /\ \A i \in Instances :
       head[i] # Unopened /\ i \notin outdated => \A q \in DOMAIN log : q <= head[i]

\* A step keeps every position, and what it puts above or into the log is above
\* all entries or put there by an outdated instance.
LogExtended ==
  /\ DOMAIN log \subseteq DOMAIN log'
  /\ \A q \in DOMAIN log' :
       \/ q \in DOMAIN log /\ log'[q] = log[q]
       \/ q > 0 /\ \A p \in DOMAIN log : p < q
       \/ log'[q] \in misplaced'

-----------------------------------------------------------------------------
(* The inductive invariant of the anchoring.                               *)

\* Positions that a record, a scheduler or a batch may claim: none is above the
\* entries that the log f holds already.
Claims(f) == DOMAIN f \union {0}

\* The artifacts that may stand below a claim.
Justified == OnChain \union cut \union misplaced

\* The claim that f is anchored up to n is justified by S.
Sound(f, n, S) == n \in Claims(f) /\ \A q \in DOMAIN f : q <= n => f[q] \in S

\* A batch that is sent will justify its claim; one that is mined has, in a block.
SoundJob(f, x, S) ==
  /\ x.to \in Claims(f)
  /\ x.state = "sent" => Sound(f, x.to, S \union x.leaves)
  /\ x.state = "recording" => x.block # 0 /\ Sound(f, x.to, S)

\* Every record, not the newest alone, every scheduler and every batch.
CoveredInv ==
  /\ \A i \in Instances :
       sched[i].head \in Claims(log) /\ Sound(log, sched[i].last, Justified)
  /\ \A r \in records : Sound(log, r.to, Justified)
  /\ \A j \in Jobs : SoundJob(log, job[j], Justified)

AnchorInv == TypeOK /\ LogInv /\ CoveredInv

-----------------------------------------------------------------------------
(* The log.                                                                *)

LEMMA ResumedFacts ==
  ASSUME LogTypeOK, NEW n \in ResumedSeqs
  PROVE  n \in Claims(log) /\ n \in Nat
BY DEF LogTypeOK, ResumedSeqs, StoredHeads, Claims

\* Once it opened the log, an instance counts up to its end or is outdated.
LEMMA OpenedFacts ==
  ASSUME LogInv, NEW i \in Instances, NEW n \in OpenedHeads(i)
  PROVE  /\ n \in Nat /\ Opened(i, n) \in SUBSET Instances /\ outdated \subseteq Opened(i, n)
         /\ i \notin Opened(i, n) => \A q \in DOMAIN log : q <= n
<1>1. outdated \in SUBSET Instances /\ Opened(i, n) \in SUBSET Instances
      /\ outdated \subseteq Opened(i, n)
  BY DEF LogInv, LogTypeOK, Opened
<1>2. CASE head[i] = Unopened
  <2>1. n \in ResumedSeqs
    BY <1>2 DEF OpenedHeads
  <2>2. n \in Nat
    BY <2>1, ResumedFacts DEF LogInv
  <2>3. i \notin Opened(i, n) => n \in StoredHeads
    BY <1>2 DEF Opened
  <2>4. n \in StoredHeads => \A q \in DOMAIN log : q <= n
    BY DEF StoredHeads
  <2>5. QED BY <1>1, <2>2, <2>3, <2>4
<1>3. CASE head[i] # Unopened
  <2>1. n = head[i] /\ n \in Nat
    BY <1>3 DEF OpenedHeads, LogInv, LogTypeOK
  <2>2. i \notin outdated => \A q \in DOMAIN log : q <= n
    BY <1>3, <2>1 DEF LogInv
  <2>3. QED BY <1>1, <2>1, <2>2
<1>4. QED BY <1>2, <1>3

LEMMA PutFacts ==
  ASSUME LogInv, NEW a \in Artifacts, NEW m \in Nat \ {0}, NEW f, f = Put(log, m, a)
  PROVE  /\ DOMAIN f = DOMAIN log \union {m} /\ f[m] = a
         /\ \A p \in DOMAIN log : p # m => f[p] = log[p]
         /\ DOMAIN f \subseteq Nat \ {0} /\ \A q \in DOMAIN f : f[q] \in Artifacts
         /\ IsFiniteSet(DOMAIN f)
<1>1. /\ DOMAIN f = DOMAIN log \union {m} /\ f[m] = a
      /\ \A p \in DOMAIN log : p # m => f[p] = log[p]
  BY DEF Put
<1>2. DOMAIN f \subseteq Nat \ {0} /\ \A q \in DOMAIN f : f[q] \in Artifacts
  BY <1>1 DEF LogInv, LogTypeOK
<1>3. IsFiniteSet(DOMAIN f)
  BY <1>1, FS_AddElement DEF LogInv
<1>4. QED BY <1>1, <1>2, <1>3

\* An append takes the next free position, if its instance is not outdated, or
\* leaves the log as it is.
LEMMA AppendStep ==
  ASSUME LogInv, NEW i \in Instances, NEW a \in Artifacts, AppendEntry(i, a)
  PROVE  /\ LogInv'
         /\ head'[i] # head[i]
         /\ log' = log \/ \E m \in Nat \ {0} : /\ log' = Put(log, m, a)
                                               /\ i \notin outdated' => \A q \in DOMAIN log : q < m
         /\ \A b \in accepted' \ accepted : \E q \in DOMAIN log' : log'[q] = b
<1>1. PICK n \in OpenedHeads(i) :
        /\ outdated' = Opened(i, n) \union Overtaken(i)
        /\ head' = [head EXCEPT ![i] = n + 1]
        /\ \/ /\ log' = Put(log, n + 1, a)
              /\ accepted' = accepted \union {a}
           \/ /\ log' \in {log, Put(log, n + 1, a)}
              /\ UNCHANGED accepted
  BY DEF AppendEntry
<1>2. a \notin offered /\ offered' = offered \union {a} /\ UNCHANGED up
  BY DEF AppendEntry
<1>3. /\ n \in Nat /\ Opened(i, n) \in SUBSET Instances /\ outdated \subseteq Opened(i, n)
      /\ i \notin Opened(i, n) => \A q \in DOMAIN log : q <= n
  BY OpenedFacts
<1>4. PICK m \in Nat \ {0} : m = n + 1
  BY <1>3
<1>5. /\ head \in [Instances -> Nat \union {Unopened}]
      /\ DOMAIN log \subseteq Nat \ {0}
      /\ \A q \in DOMAIN log : log[q] \in Artifacts
      /\ IsFiniteSet(DOMAIN log)
  BY DEF LogInv, LogTypeOK
<1>6. /\ head' \in [Instances -> Nat \union {Unopened}] /\ head'[i] = m
      /\ \A j \in Instances : j # i => head'[j] = head[j]
  BY <1>1, <1>4, <1>5
<1>7. head'[i] # head[i]
  BY <1>3, <1>4, <1>5, <1>6 DEF OpenedHeads, Unopened
<1>8. i \notin outdated' => \A q \in DOMAIN log : q < m
  BY <1>1, <1>3, <1>4, <1>5
<1>9. \A j \in Instances : j # i /\ head'[j] # Unopened => j \in outdated'
  BY <1>1, <1>6 DEF Overtaken
<1>10. log' = log \/ log' = Put(log, m, a)
  BY <1>1, <1>4
<1>11. accepted' = accepted \/ (accepted' = accepted \union {a} /\ log' = Put(log, m, a))
  BY <1>1, <1>4
<1>12. /\ DOMAIN log' \subseteq Nat \ {0} /\ \A q \in DOMAIN log' : log'[q] \in Artifacts
       /\ IsFiniteSet(DOMAIN log')
       /\ \A q \in DOMAIN log' : q \in DOMAIN log \/ q = m
  <2>1. CASE log' = log
    BY <1>5, <2>1
  <2>2. CASE log' = Put(log, m, a)
    <3>1. PICK f : f = log'
      OBVIOUS
    <3>2. f = Put(log, m, a)
      BY <2>2, <3>1
    <3>3. /\ DOMAIN f = DOMAIN log \union {m}
          /\ DOMAIN f \subseteq Nat \ {0} /\ \A q \in DOMAIN f : f[q] \in Artifacts
          /\ IsFiniteSet(DOMAIN f)
      BY <3>2, PutFacts
    <3>4. QED BY <3>1, <3>3
  <2>3. QED BY <1>10, <2>1, <2>2
<1>13. LogTypeOK'
  <2>1. up' \in SUBSET Instances /\ offered' \in SUBSET Artifacts /\ accepted' \in SUBSET offered'
    BY <1>2, <1>11 DEF LogInv, LogTypeOK
  <2>2. outdated' \in SUBSET Instances
    BY <1>1, <1>3 DEF Overtaken
  <2>3. QED BY <1>6, <1>12, <2>1, <2>2 DEF LogTypeOK
<1>14. ASSUME NEW j \in Instances, head'[j] # Unopened, j \notin outdated', NEW q \in DOMAIN log'
       PROVE  q <= head'[j]
  <2>1. j = i /\ head'[j] = m
    BY <1>6, <1>9, <1>14
  <2>2. CASE q \in DOMAIN log
    BY <1>5, <1>8, <1>14, <2>1, <2>2
  <2>3. CASE q = m
    BY <2>1, <2>3
  <2>4. QED BY <1>12, <2>2, <2>3
<1>15. LogInv'
  BY <1>12, <1>13, <1>14 DEF LogInv
<1>16. \A b \in accepted' \ accepted : \E q \in DOMAIN log' : log'[q] = b
  <2>1. SUFFICES ASSUME accepted' = accepted \union {a}, log' = Put(log, m, a)
                 PROVE  \E q \in DOMAIN log' : log'[q] = a
    BY <1>11
  <2>2. m \in DOMAIN log' /\ log'[m] = a
    BY <2>1 DEF Put
  <2>3. QED BY <2>2
<1>17. QED BY <1>7, <1>8, <1>10, <1>15, <1>16

\* The steps that touch the log.
LEMMA LogCases ==
  ASSUME [Next]_vars
  PROVE  \/ \E i \in Instances, a \in Artifacts :
              /\ AppendEntry(i, a)
              /\ misplaced' = misplaced \union {b \in {a} : i \in outdated'}
         \/ \E i \in Instances : OpenLog(i) /\ UNCHANGED misplaced
         \/ \E i \in Instances : Start(i)
         \/ \E i \in Instances : Stop(i)
         \/ UNCHANGED <<logVars, misplaced>>
BY DEF Next, LogStep, Resume, HourPasses, Poll, Trigger, TriggerListed, Confirm, AnchorFails,
       RecordSaved, RecordFails, Finish, vars, logVars, history

LEMMA LogUnchanged ==
  ASSUME LogInv, UNCHANGED <<log, offered, accepted>>, up' \subseteq Instances,
         outdated' \subseteq Instances,
         head' \in [Instances -> Nat \union {Unopened}],
         \A i \in Instances : head'[i] # Unopened /\ i \notin outdated' =>
                                \A q \in DOMAIN log : q <= head'[i]
  PROVE  LogInv' /\ LogExtended
BY DEF LogInv, LogTypeOK, LogExtended

\* Every step keeps the invariant; it extends the log, and unless an outdated
\* instance appends, it does so above what is stored and keeps what is accepted.
LEMMA LogKept ==
  ASSUME LogInv, [Next]_vars
  PROVE  /\ LogInv' /\ LogExtended
         /\ \/ \E i \in outdated' : head'[i] # head[i]
            \/ /\ \A q \in DOMAIN log : q \in DOMAIN log' /\ log'[q] = log[q]
               /\ accepted' \ accepted \subseteq {log'[q] : q \in DOMAIN log'}
<1>1. ASSUME NEW i \in Instances, NEW a \in Artifacts, AppendEntry(i, a),
             misplaced' = misplaced \union {b \in {a} : i \in outdated'}
      PROVE  /\ LogInv' /\ LogExtended
             /\ \/ \E j \in outdated' : head'[j] # head[j]
                \/ /\ \A q \in DOMAIN log : q \in DOMAIN log' /\ log'[q] = log[q]
                   /\ accepted' \ accepted \subseteq {log'[q] : q \in DOMAIN log'}
  <2>1. /\ LogInv' /\ head'[i] # head[i]
        /\ log' = log \/ \E m \in Nat \ {0} : /\ log' = Put(log, m, a)
                                              /\ i \notin outdated' => \A q \in DOMAIN log : q < m
        /\ \A b \in accepted' \ accepted : \E q \in DOMAIN log' : log'[q] = b
    BY <1>1, AppendStep
  <2>2. i \in outdated' => a \in misplaced'
    BY <1>1
  <2>3. CASE log' = log
    BY <2>1, <2>3 DEF LogExtended
  <2>4. ASSUME NEW m \in Nat \ {0}, log' = Put(log, m, a),
               i \notin outdated' => \A q \in DOMAIN log : q < m
        PROVE  /\ LogExtended
               /\ i \notin outdated' => \A q \in DOMAIN log : q \in DOMAIN log' /\ log'[q] = log[q]
    <3>1. /\ DOMAIN log' = DOMAIN log \union {m} /\ log'[m] = a
          /\ \A p \in DOMAIN log : p # m => log'[p] = log[p]
      BY <2>4, PutFacts
    <3>2. i \notin outdated' => m \notin DOMAIN log /\ m > 0 /\ \A q \in DOMAIN log : q < m
      BY <2>4 DEF LogInv, LogTypeOK
    <3>3. DOMAIN log \subseteq DOMAIN log'
      BY <3>1
    <3>4. ASSUME NEW q \in DOMAIN log'
          PROVE  \/ q \in DOMAIN log /\ log'[q] = log[q]
                 \/ q > 0 /\ \A p \in DOMAIN log : p < q
                 \/ log'[q] \in misplaced'
      <4>1. CASE q # m
        BY <3>1, <4>1
      <4>2. CASE q = m
        BY <2>2, <3>1, <3>2, <4>2
      <4>3. QED BY <4>1, <4>2
    <3>5. QED BY <3>1, <3>2, <3>3, <3>4 DEF LogExtended
  <2>5. QED BY <2>1, <2>3, <2>4
<1>2. ASSUME NEW i \in Instances, OpenLog(i)
      PROVE  LogInv' /\ LogExtended /\ UNCHANGED <<log, accepted>>
  <2>1. PICK n \in OpenedHeads(i) : head' = [head EXCEPT ![i] = n] /\ outdated' = Opened(i, n)
    BY <1>2 DEF OpenLog
  <2>2. UNCHANGED <<up, log, offered, accepted>>
    BY <1>2 DEF OpenLog
  <2>3. /\ n \in Nat /\ outdated' \in SUBSET Instances /\ outdated \subseteq outdated'
        /\ i \notin outdated' => \A q \in DOMAIN log : q <= n
    BY <2>1, OpenedFacts
  <2>4. head \in [Instances -> Nat \union {Unopened}] /\ up' \subseteq Instances
    BY <2>2 DEF LogInv, LogTypeOK
  <2>5. /\ head' \in [Instances -> Nat \union {Unopened}] /\ head'[i] = n
        /\ \A j \in Instances : j # i => head'[j] = head[j]
    BY <2>1, <2>3, <2>4
  <2>6. ASSUME NEW j \in Instances, head'[j] # Unopened, j \notin outdated'
        PROVE  \A q \in DOMAIN log : q <= head'[j]
    <3>1. CASE j = i
      BY <2>3, <2>5, <2>6, <3>1
    <3>2. CASE j # i
      BY <2>3, <2>5, <2>6, <3>2 DEF LogInv
    <3>3. QED BY <3>1, <3>2
  <2>7. QED BY <2>2, <2>3, <2>4, <2>5, <2>6, LogUnchanged
<1>3. ASSUME NEW i \in Instances, Start(i)
      PROVE  LogInv' /\ LogExtended /\ UNCHANGED <<log, accepted>>
  <2>1. UNCHANGED <<log, offered, accepted, head, outdated>> /\ up' \subseteq Instances
    BY <1>3 DEF Start, StartInstance, LogInv, LogTypeOK
  <2>2. QED BY <2>1, LogUnchanged DEF LogInv, LogTypeOK
<1>4. ASSUME NEW i \in Instances, Stop(i)
      PROVE  LogInv' /\ LogExtended /\ UNCHANGED <<log, accepted>>
  <2>1. /\ UNCHANGED <<log, offered, accepted>> /\ up' \subseteq Instances
        /\ head' = [head EXCEPT ![i] = Unopened] /\ outdated' = outdated \ {i}
    BY <1>4 DEF Stop, StopInstance, LogInv, LogTypeOK
  <2>2. /\ head \in [Instances -> Nat \union {Unopened}] /\ outdated' \subseteq Instances
    BY <2>1 DEF LogInv, LogTypeOK
  <2>3. /\ head' \in [Instances -> Nat \union {Unopened}] /\ head'[i] = Unopened
        /\ \A j \in Instances : j # i => head'[j] = head[j]
    BY <2>1, <2>2
  <2>4. \A j \in Instances : head'[j] # Unopened /\ j \notin outdated' =>
                               \A q \in DOMAIN log : q <= head'[j]
    BY <2>1, <2>3 DEF LogInv
  <2>5. QED BY <2>1, <2>2, <2>3, <2>4, LogUnchanged
<1>5. CASE UNCHANGED <<logVars, misplaced>>
  <2>1. UNCHANGED <<up, head, log, offered, accepted, outdated>>
    BY <1>5 DEF logVars
  <2>2. LogInv' /\ LogExtended
    BY <2>1, LogUnchanged DEF LogInv, LogTypeOK
  <2>3. QED BY <2>1, <2>2
<1>6. QED
  <2>1. CASE \E i \in Instances, a \in Artifacts :
               /\ AppendEntry(i, a)
               /\ misplaced' = misplaced \union {b \in {a} : i \in outdated'}
    BY <1>1, <2>1
  <2>2. CASE \/ \E i \in Instances : OpenLog(i) \/ Start(i) \/ Stop(i)
             \/ UNCHANGED <<logVars, misplaced>>
    <3>1. LogInv' /\ LogExtended /\ UNCHANGED <<log, accepted>>
      BY <1>2, <1>3, <1>4, <1>5, <2>2 DEF logVars
    <3>2. QED BY <3>1
  <2>3. QED BY <2>1, <2>2, LogCases

LEMMA InitLog == Init => LogInv
BY FS_EmptySet DEF Init, LogInit, LogInv, LogTypeOK

LEMMA LogInvariant == Spec => []LogInv
<1>1. LogInv /\ [Next]_vars => LogInv'
  BY LogKept
<1>2. QED BY <1>1, InitLog, PTL DEF Spec

\* No position is rewritten but by an outdated instance, over failed and
\* half-done appends, restarts and any number of instances, and what another
\* instance accepts is in the log (ArtifactLog.append, _resume_seq).
THEOREM LogOnlyGrows == Spec => AppendOnly
<1>1. LogInv /\ [Next]_vars =>
        [\/ \E i \in outdated' : head'[i] # head[i]
         \/ /\ \A q \in DOMAIN log : q \in DOMAIN log' /\ log'[q] = log[q]
            /\ accepted' \ accepted \subseteq {log'[q] : q \in DOMAIN log'}]_logVars
  BY LogKept
<1>2. QED BY <1>1, LogInvariant, PTL DEF Spec, AppendOnly

-----------------------------------------------------------------------------
(* Batches.                                                                *)

LEMMA HashesTyped ==
  ASSUME LogTypeOK, NEW n, NEW m
  PROVE  HashesSince(n) \subseteq Artifacts /\ LeftOut(n, m) \subseteq Artifacts
BY DEF HashesSince, LeftOut, LogTypeOK

\* Above its lower end, a batch holds what it claims, but for what it leaves out.
LEMMA BatchComplete ==
  ASSUME LogInv, NEW n \in Nat, NEW m \in Nat, NEW p \in DOMAIN log, p > n, p <= m
  PROVE  log[p] \in HashesSince(n) \union LeftOut(n, m)
<1>1. DEFINE B == {x \in DOMAIN log : n < x /\ x < p}
<1>2. IsFiniteSet(B)
  BY FS_Subset DEF LogInv
<1>3. Cardinality(B) \in Nat
  BY <1>2, FS_CardinalityType
<1>4. Before(n, p) \in Nat
  BY <1>3 DEF Before
<1>5. Before(n, p) < Limit \/ Before(n, p) >= Limit
  BY <1>4, AnchorAssumption
<1>6. p \in Nat
  BY DEF LogInv, LogTypeOK
<1>7. QED BY <1>5, <1>6 DEF HashesSince, LeftOut

\* What was anchored up to a lower end n and the batch above it make a claim.
LEMMA BatchSound ==
  ASSUME LogInv, NEW S, NEW T, NEW n, Sound(log, n, S), NEW m \in Claims(log),
         S \subseteq T, LeftOut(n, m) \subseteq T
  PROVE  Sound(log, m, T \union HashesSince(n))
<1>1. n \in Nat /\ m \in Nat /\ DOMAIN log \subseteq Nat
  BY DEF Sound, Claims, LogInv, LogTypeOK
<1>2. ASSUME NEW q \in DOMAIN log, q <= m
      PROVE  log[q] \in T \union HashesSince(n)
  <2>1. CASE q <= n
    BY <2>1 DEF Sound
  <2>2. CASE q > n
    BY <1>1, <1>2, <2>2, BatchComplete
  <2>3. QED BY <1>1, <2>1, <2>2
<1>3. QED BY <1>2 DEF Sound

LEMMA SoundZero ==
  ASSUME LogInv, NEW S
  PROVE  Sound(log, 0, S)
BY DEF Sound, Claims, LogInv, LogTypeOK

\* A claim stays justified when the log and what justifies grow.
LEMMA SoundKept ==
  ASSUME LogInv, LogInv', LogExtended, NEW n, NEW S, NEW T, S \subseteq T, misplaced' \subseteq T,
         Sound(log, n, S)
  PROVE  Sound(log', n, T)
<1>1. n \in Claims(log')
  BY DEF Sound, Claims, LogExtended
<1>2. DOMAIN log \subseteq Nat \ {0} /\ DOMAIN log' \subseteq Nat \ {0}
  BY DEF LogInv, LogTypeOK
<1>3. ASSUME NEW q \in DOMAIN log', q <= n
      PROVE  log'[q] \in T
  <2>1. CASE q \in DOMAIN log /\ log'[q] = log[q]
    BY <1>3, <2>1 DEF Sound
  <2>2. CASE q > 0 /\ \A p \in DOMAIN log : p < q
    BY <1>2, <1>3, <2>2 DEF Sound, Claims
  <2>3. CASE log'[q] \in misplaced'
    BY <2>3
  <2>4. QED BY <2>1, <2>2, <2>3 DEF LogExtended
<1>4. QED BY <1>1, <1>3 DEF Sound

LEMMA SoundJobKept ==
  ASSUME LogInv, LogInv', LogExtended, NEW x, NEW S, NEW T, S \subseteq T, misplaced' \subseteq T,
         SoundJob(log, x, S)
  PROVE  SoundJob(log', x, T)
<1>1. x.to \in Claims(log')
  BY DEF SoundJob, Claims, LogExtended
<1>2. x.state = "sent" => Sound(log', x.to, T \union x.leaves)
  <2>1. S \union x.leaves \subseteq T \union x.leaves /\ misplaced' \subseteq T \union x.leaves
    OBVIOUS
  <2>2. QED BY <2>1, SoundKept DEF SoundJob
<1>3. x.state = "recording" => x.block # 0 /\ Sound(log', x.to, T)
  BY SoundKept DEF SoundJob
<1>4. QED BY <1>1, <1>2, <1>3 DEF SoundJob

LEMMA NewBlock ==
  ASSUME txs \in Seq(SUBSET Artifacts), NEW S \in SUBSET Artifacts, txs' = Append(txs, S)
  PROVE  /\ txs' \in Seq(SUBSET Artifacts) /\ Len(txs) + 1 \in Nat \ {0}
         /\ OnChain' = OnChain \union S
<1>1. /\ txs' \in Seq(SUBSET Artifacts) /\ Len(txs) \in Nat /\ Len(txs') = Len(txs) + 1
      /\ DOMAIN txs = 1 .. Len(txs) /\ DOMAIN txs' = 1 .. Len(txs')
      /\ \A b \in 1 .. Len(txs) : txs'[b] = txs[b]
      /\ txs'[Len(txs) + 1] = S
  OBVIOUS
<1>2. DOMAIN txs' = DOMAIN txs \union {Len(txs) + 1}
  BY <1>1
<1>3. OnChain' = OnChain \union S
  BY <1>1, <1>2 DEF OnChain
<1>4. QED BY <1>1, <1>3

\* What the records say was claimed by one of them.
LEMMA ListedSound ==
  ASSUME AnchorInv, NEW m \in LastAnchored
  PROVE  Sound(log, m, Justified) /\ m \in Nat
<1>1. Sound(log, m, Justified)
  BY SoundZero DEF LastAnchored, AnchorInv, CoveredInv
<1>2. QED BY <1>1 DEF Sound, Claims, AnchorInv, LogInv, LogTypeOK

-----------------------------------------------------------------------------
(* The steps of the anchoring.                                             *)

\* It is enough to justify the claims that a step makes.
LEMMA ClaimsKept ==
  ASSUME AnchorInv, LogInv', LogExtended, Justified \subseteq Justified',
         \A i \in Instances :
           \/ sched'[i] = sched[i]
           \/ sched'[i].head \in Claims(log') /\ Sound(log', sched'[i].last, Justified'),
         \A r \in records' : r \in records \/ Sound(log', r.to, Justified'),
         \A j \in Jobs : job'[j] = job[j] \/ SoundJob(log', job'[j], Justified')
  PROVE  CoveredInv'
<1>1. PICK S, T : S = Justified /\ T = Justified'
  OBVIOUS
<1>2. S \subseteq T /\ misplaced' \subseteq T /\ LogInv
  BY <1>1 DEF Justified, AnchorInv
<1>3. ASSUME NEW i \in Instances
      PROVE  sched'[i].head \in Claims(log') /\ Sound(log', sched'[i].last, T)
  <2>1. SUFFICES ASSUME sched'[i] = sched[i]
                 PROVE  sched[i].head \in Claims(log') /\ Sound(log', sched[i].last, T)
    BY <1>1
  <2>2. sched[i].head \in Claims(log) /\ Sound(log, sched[i].last, S)
    BY <1>1 DEF AnchorInv, CoveredInv
  <2>3. sched[i].head \in Claims(log')
    BY <2>2 DEF Claims, LogExtended
  <2>4. QED BY <1>2, <2>2, <2>3, SoundKept
<1>4. ASSUME NEW r \in records'
      PROVE  Sound(log', r.to, T)
  <2>1. CASE r \in records
    <3>1. Sound(log, r.to, S)
      BY <1>1, <2>1 DEF AnchorInv, CoveredInv
    <3>2. QED BY <1>2, <3>1, SoundKept
  <2>2. QED BY <1>1, <2>1
<1>5. ASSUME NEW j \in Jobs
      PROVE  SoundJob(log', job'[j], T)
  <2>1. SUFFICES ASSUME job'[j] = job[j]
                 PROVE  SoundJob(log', job[j], T)
    BY <1>1
  <2>2. SoundJob(log, job[j], S)
    BY <1>1 DEF AnchorInv, CoveredInv
  <2>3. QED BY <1>2, <2>2, SoundJobKept
<1>6. QED BY <1>1, <1>3, <1>4, <1>5 DEF CoveredInv

LEMMA NoJobSound ==
  ASSUME NEW f, NEW S, NEW s \in {"none", "listing"}, NEW n \in Nat, n \in Claims(f)
  PROVE  /\ [NoJob EXCEPT !.state = s, !.to = n] \in Job
         /\ SoundJob(f, [NoJob EXCEPT !.state = s, !.to = n], S)
         /\ NoJob \in Job /\ SoundJob(f, NoJob, S)
         /\ [NoJob EXCEPT !.state = s] \in Job /\ SoundJob(f, [NoJob EXCEPT !.state = s], S)
BY DEF NoJob, Job, SoundJob, Claims

LEMMA StartKeeps ==
  ASSUME AnchorInv, LogInv', LogExtended, NEW i \in Instances, Start(i)
  PROVE  TypeOK' /\ CoveredInv'
<1>1. PICK n \in ResumedSeqs : sched' = [sched EXCEPT ![i] = [head |-> n, last |-> 0]]
  BY DEF Start
<1>2. /\ job' = [job EXCEPT ![<<i, "scheduler">>] = [NoJob EXCEPT !.state = "listing"]]
      /\ due' = [due EXCEPT ![i] = TRUE] /\ starts' = starts + 1
      /\ UNCHANGED <<log, txs, records, cut, misplaced>>
  BY DEF Start, StartInstance, history
<1>3. n \in Claims(log) /\ n \in Nat
  BY ResumedFacts DEF AnchorInv, LogInv
<1>4. Justified' = Justified
  BY <1>2 DEF Justified, OnChain
<1>5. Sound(log', 0, Justified')
  BY <1>2, SoundZero DEF AnchorInv
<1>6. /\ [NoJob EXCEPT !.state = "listing"] \in Job
      /\ SoundJob(log', [NoJob EXCEPT !.state = "listing"], Justified')
  BY NoJobSound DEF Claims
<1>7. sched' \in [Instances -> [head : Nat, last : Nat]]
  BY <1>1, <1>3 DEF AnchorInv, TypeOK
<1>8. job' \in [Jobs -> Job]
  BY <1>2, <1>6 DEF AnchorInv, TypeOK
<1>9. TypeOK'
  <2>1. due' \in [Instances -> BOOLEAN] /\ starts' \in Nat
    BY <1>2 DEF AnchorInv, TypeOK
  <2>2. txs' \in Seq(SUBSET Artifacts) /\ records' \in SUBSET Record
    BY <1>2 DEF AnchorInv, TypeOK
  <2>3. LogTypeOK' /\ cut' \in SUBSET Artifacts /\ misplaced' \in SUBSET Artifacts
    BY <1>2 DEF AnchorInv, TypeOK, LogInv
  <2>4. QED BY <1>7, <1>8, <2>1, <2>2, <2>3 DEF TypeOK
<1>10. \A k \in Instances :
         \/ sched'[k] = sched[k]
         \/ sched'[k].head \in Claims(log') /\ Sound(log', sched'[k].last, Justified')
  BY <1>1, <1>2, <1>3, <1>5 DEF AnchorInv, TypeOK
<1>11. \A j \in Jobs : job'[j] = job[j] \/ SoundJob(log', job'[j], Justified')
  BY <1>2, <1>6 DEF AnchorInv, TypeOK
<1>12. QED BY <1>2, <1>4, <1>9, <1>10, <1>11, ClaimsKept

LEMMA ResumeKeeps ==
  ASSUME AnchorInv, LogInv', LogExtended, NEW i \in Instances, Resume(i)
  PROVE  TypeOK' /\ CoveredInv'
<1>1. PICK m \in LastAnchored : sched' = [sched EXCEPT ![i].last = m]
  BY DEF Resume
<1>2. /\ job' = [job EXCEPT ![<<i, "scheduler">>] = NoJob]
      /\ UNCHANGED <<log, due, txs, records, starts, cut, misplaced>>
  BY DEF Resume, logVars, history
<1>3. Sound(log, m, Justified) /\ m \in Nat
  BY ListedSound
<1>4. Justified' = Justified
  BY <1>2 DEF Justified, OnChain
<1>5. NoJob \in Job /\ SoundJob(log', NoJob, Justified')
  BY NoJobSound DEF Claims
<1>6. TypeOK'
  BY <1>1, <1>2, <1>3, <1>5 DEF AnchorInv, TypeOK, LogInv
<1>7. \A k \in Instances :
         \/ sched'[k] = sched[k]
         \/ sched'[k].head \in Claims(log') /\ Sound(log', sched'[k].last, Justified')
  BY <1>1, <1>2, <1>3, <1>4 DEF AnchorInv, TypeOK, CoveredInv
<1>8. \A j \in Jobs : job'[j] = job[j] \/ SoundJob(log', job'[j], Justified')
  BY <1>2, <1>5 DEF AnchorInv, TypeOK
<1>9. QED BY <1>2, <1>4, <1>6, <1>7, <1>8, ClaimsKept

LEMMA StopKeeps ==
  ASSUME AnchorInv, LogInv', LogExtended, NEW i \in Instances, Stop(i)
  PROVE  TypeOK' /\ CoveredInv'
<1>1. /\ job' = [j \in Jobs |-> IF j[1] = i THEN NoJob ELSE job[j]]
      /\ UNCHANGED <<log, sched, due, txs, records, starts, cut, misplaced>>
  BY DEF Stop, StopInstance, history
<1>2. Justified' = Justified
  BY <1>1 DEF Justified, OnChain
<1>3. NoJob \in Job /\ SoundJob(log', NoJob, Justified')
  BY NoJobSound DEF Claims
<1>4. TypeOK'
  BY <1>1, <1>3 DEF AnchorInv, TypeOK, LogInv
<1>5. \A j \in Jobs : job'[j] = job[j] \/ SoundJob(log', job'[j], Justified')
  BY <1>1, <1>3
<1>6. QED BY <1>1, <1>2, <1>4, <1>5, ClaimsKept

\* A step that only moves one batch, and may leave something out of it.
LEMMA JobStep ==
  ASSUME AnchorInv, LogInv', LogExtended, NEW j \in Jobs, NEW x \in Job,
         job' = [job EXCEPT ![j] = x], SoundJob(log, x, Justified'),
         cut \subseteq cut', cut' \subseteq Artifacts,
         UNCHANGED <<log, sched, due, txs, records, starts, misplaced>>
  PROVE  TypeOK' /\ CoveredInv'
<1>1. Justified \subseteq Justified'
  BY DEF Justified, OnChain
<1>2. TypeOK'
  BY DEF AnchorInv, TypeOK, LogInv
<1>3. \A k \in Jobs : job'[k] = job[k] \/ SoundJob(log', job'[k], Justified')
  BY DEF AnchorInv, TypeOK
<1>4. QED BY <1>1, <1>2, <1>3, ClaimsKept

\* A batch formed above n, up to m, with what the limit keeps out of it.
LEMMA BatchFormed ==
  ASSUME AnchorInv, NEW n, Sound(log, n, Justified), NEW m \in Claims(log), NEW x \in Job,
         x.state = "sent", x.to = m, x.leaves = HashesSince(n),
         cut' = cut \union LeftOut(n, m), UNCHANGED <<txs, misplaced>>
  PROVE  /\ SoundJob(log, x, Justified')
         /\ cut \subseteq cut' /\ cut' \subseteq Artifacts
<1>1. Justified \subseteq Justified' /\ LeftOut(n, m) \subseteq Justified'
  BY DEF Justified, OnChain
<1>2. PICK T : T = Justified'
  OBVIOUS
<1>3. Sound(log, m, T \union HashesSince(n))
  BY <1>1, <1>2, BatchSound DEF AnchorInv
<1>4. SoundJob(log, x, T)
  BY <1>3 DEF SoundJob
<1>5. cut \subseteq cut' /\ cut' \subseteq Artifacts
  BY HashesTyped DEF AnchorInv, LogInv, TypeOK
<1>6. QED BY <1>2, <1>4, <1>5

LEMMA PollKeeps ==
  ASSUME AnchorInv, LogInv', LogExtended, NEW i \in Instances, Poll(i)
  PROVE  TypeOK' /\ CoveredInv'
<1>1. DEFINE n == sched[i].last
             h == sched[i].head
             x == [state |-> "sent", last |-> n, to |-> h, leaves |-> HashesSince(n),
                   block |-> 0]
<1>2. /\ job' = [job EXCEPT ![<<i, "scheduler">>] = x]
      /\ cut' = cut \union LeftOut(n, h)
      /\ UNCHANGED <<log, sched, due, txs, records, starts, misplaced>>
  BY DEF Poll, logVars
<1>3. n \in Nat /\ h \in Nat /\ h \in Claims(log) /\ Sound(log, n, Justified)
  BY DEF AnchorInv, TypeOK, CoveredInv
<1>4. HashesSince(n) \subseteq Artifacts
  BY HashesTyped DEF AnchorInv, LogInv
<1>5. x \in Job /\ x.state = "sent" /\ x.to = h /\ x.leaves = HashesSince(n)
  BY <1>3, <1>4 DEF Job
<1>6. PICK y \in Job : y = x
  BY <1>5
<1>7. SoundJob(log, y, Justified') /\ cut \subseteq cut' /\ cut' \subseteq Artifacts
  BY <1>2, <1>3, <1>5, <1>6, BatchFormed
<1>8. <<i, "scheduler">> \in Jobs
  BY DEF Jobs, JobKinds
<1>9. QED BY <1>2, <1>6, <1>7, <1>8, JobStep

\* A batch that says "none" or "listing" claims nothing yet.
LEMMA QuietJob ==
  ASSUME AnchorInv, LogInv', LogExtended, NEW j \in Jobs, NEW x \in Job,
         x.to \in Claims(log), x.state \notin {"sent", "recording"},
         job' = [job EXCEPT ![j] = x],
         UNCHANGED <<log, sched, due, txs, records, starts, cut, misplaced>>
  PROVE  TypeOK' /\ CoveredInv'
<1>1. SoundJob(log, x, Justified')
  BY DEF SoundJob
<1>2. cut \subseteq cut' /\ cut' \subseteq Artifacts
  BY DEF AnchorInv, TypeOK
<1>3. QED BY <1>1, <1>2, JobStep

LEMMA TriggerKeeps ==
  ASSUME AnchorInv, LogInv', LogExtended, NEW i \in Instances, Trigger(i)
  PROVE  TypeOK' /\ CoveredInv'
<1>1. PICK n \in ResumedSeqs :
        job' = [job EXCEPT ![<<i, "trigger">>] = [NoJob EXCEPT !.state = "listing", !.to = n]]
  BY DEF Trigger
<1>2. UNCHANGED <<log, sched, due, txs, records, starts, cut, misplaced>>
  BY DEF Trigger, logVars, history
<1>3. n \in Claims(log) /\ n \in Nat
  BY ResumedFacts DEF AnchorInv, LogInv
<1>4. PICK x \in Job : x = [NoJob EXCEPT !.state = "listing", !.to = n]
  BY <1>3, NoJobSound
<1>5. x.to = n /\ x.state = "listing"
  BY <1>4 DEF NoJob
<1>6. <<i, "trigger">> \in Jobs
  BY DEF Jobs, JobKinds
<1>7. QED BY <1>1, <1>2, <1>3, <1>4, <1>5, <1>6, QuietJob

LEMMA TriggerListedKeeps ==
  ASSUME AnchorInv, LogInv', LogExtended, NEW i \in Instances, TriggerListed(i)
  PROVE  TypeOK' /\ CoveredInv'
<1>1. DEFINE j == <<i, "trigger">>
             t == job[j]
<1>2. PICK m \in LastAnchored :
        IF t.to <= m \/ HashesSince(m) = {}
          THEN /\ job' = [job EXCEPT ![j] = NoJob]
               /\ UNCHANGED cut
          ELSE /\ job' = [job EXCEPT ![j] =
                    [t EXCEPT !.state = "sent", !.last = m, !.leaves = HashesSince(m)]]
               /\ cut' = cut \union LeftOut(m, t.to)
  BY DEF TriggerListed
<1>3. UNCHANGED <<log, sched, due, txs, records, starts, misplaced>>
  BY DEF TriggerListed, logVars
<1>4. j \in Jobs
  BY DEF Jobs, JobKinds
<1>5. Sound(log, m, Justified) /\ m \in Nat
  BY ListedSound
<1>6. t \in Job /\ t.to \in Claims(log)
  BY <1>4 DEF AnchorInv, TypeOK, CoveredInv, SoundJob
<1>7. HashesSince(m) \subseteq Artifacts
  BY HashesTyped DEF AnchorInv, LogInv
<1>8. PICK x \in Job :
        /\ x = [t EXCEPT !.state = "sent", !.last = m, !.leaves = HashesSince(m)]
        /\ x.state = "sent" /\ x.to = t.to /\ x.leaves = HashesSince(m)
  <2>1. DEFINE y == [t EXCEPT !.state = "sent", !.last = m, !.leaves = HashesSince(m)]
  <2>2. y \in Job /\ y.state = "sent" /\ y.to = t.to /\ y.leaves = HashesSince(m)
    BY <1>5, <1>6, <1>7 DEF Job
  <2>3. QED BY <2>2
<1>9. CASE t.to <= m \/ HashesSince(m) = {}
  <2>1. job' = [job EXCEPT ![j] = NoJob] /\ UNCHANGED cut
    BY <1>2, <1>9
  <2>2. NoJob \in Job /\ NoJob.to \in Claims(log) /\ NoJob.state = "none"
    BY DEF NoJob, Job, Claims
  <2>3. QED BY <1>3, <1>4, <2>1, <2>2, QuietJob
<1>10. CASE ~(t.to <= m \/ HashesSince(m) = {})
  <2>1. job' = [job EXCEPT ![j] = x] /\ cut' = cut \union LeftOut(m, t.to)
    BY <1>2, <1>8, <1>10
  <2>2. SoundJob(log, x, Justified') /\ cut \subseteq cut' /\ cut' \subseteq Artifacts
    BY <1>3, <1>5, <1>6, <1>8, <2>1, BatchFormed
  <2>3. QED BY <1>3, <1>4, <2>1, <2>2, JobStep
<1>11. QED BY <1>9, <1>10

LEMMA ConfirmKeeps ==
  ASSUME AnchorInv, LogInv', LogExtended, NEW j \in Jobs, Confirm(j)
  PROVE  TypeOK' /\ CoveredInv'
<1>1. DEFINE t == job[j]
             x == [t EXCEPT !.state = "recording", !.block = Len(txs) + 1]
<1>2. /\ t.state = "sent"
      /\ txs' = Append(txs, t.leaves)
      /\ job' = [job EXCEPT ![j].state = "recording", ![j].block = Len(txs) + 1]
      /\ UNCHANGED <<log, sched, due, records, starts, cut, misplaced>>
  BY DEF Confirm, logVars, history
<1>3. t \in Job /\ txs \in Seq(SUBSET Artifacts) /\ SoundJob(log, t, Justified)
  BY DEF AnchorInv, TypeOK, CoveredInv
<1>4. /\ txs' \in Seq(SUBSET Artifacts) /\ Len(txs) + 1 \in Nat \ {0}
      /\ Justified' = Justified \union t.leaves
  BY <1>2, <1>3, NewBlock DEF Job, Justified
<1>5. x \in Job /\ x.state = "recording" /\ x.to = t.to /\ x.block # 0
  BY <1>3, <1>4 DEF Job
<1>6. SoundJob(log', x, Justified')
  BY <1>2, <1>3, <1>4, <1>5 DEF SoundJob
<1>7. job' = [job EXCEPT ![j] = x]
  BY <1>2 DEF AnchorInv, TypeOK
<1>8. TypeOK'
  BY <1>2, <1>4, <1>5, <1>7 DEF AnchorInv, TypeOK, LogInv
<1>9. \A k \in Jobs : job'[k] = job[k] \/ SoundJob(log', job'[k], Justified')
  BY <1>6, <1>7 DEF AnchorInv, TypeOK
<1>10. QED BY <1>2, <1>4, <1>8, <1>9, ClaimsKept

LEMMA AnchorFailsKeeps ==
  ASSUME AnchorInv, LogInv', LogExtended, NEW j \in Jobs, AnchorFails(j)
  PROVE  TypeOK' /\ CoveredInv'
<1>1. /\ job' = [job EXCEPT ![j] = NoJob]
      /\ txs' = txs \/ txs' = Append(txs, job[j].leaves)
      /\ UNCHANGED <<log, sched, due, records, starts, cut, misplaced>>
  BY DEF AnchorFails, logVars, history
<1>2. job[j].leaves \in SUBSET Artifacts /\ txs \in Seq(SUBSET Artifacts)
  BY DEF AnchorInv, TypeOK, Job
<1>3. txs' \in Seq(SUBSET Artifacts) /\ Justified \subseteq Justified'
  <2>1. CASE txs' = txs
    BY <1>1, <1>2, <2>1 DEF Justified, OnChain
  <2>2. CASE txs' = Append(txs, job[j].leaves)
    BY <1>1, <1>2, <2>2, NewBlock DEF Justified
  <2>3. QED BY <1>1, <2>1, <2>2
<1>4. NoJob \in Job /\ SoundJob(log', NoJob, Justified')
  BY NoJobSound DEF Claims
<1>5. TypeOK'
  BY <1>1, <1>3, <1>4 DEF AnchorInv, TypeOK, LogInv
<1>6. \A k \in Jobs : job'[k] = job[k] \/ SoundJob(log', job'[k], Justified')
  BY <1>1, <1>4 DEF AnchorInv, TypeOK
<1>7. QED BY <1>1, <1>3, <1>5, <1>6, ClaimsKept

\* A finished batch is on chain up to its upper end, recorded or not.
LEMMA FinishKeeps ==
  ASSUME AnchorInv, LogInv', LogExtended, NEW j \in Jobs, RecordSaved(j) \/ RecordFails(j)
  PROVE  TypeOK' /\ CoveredInv'
<1>1. DEFINE t == job[j]
             r == [block |-> t.block, from |-> t.last + 1, to |-> t.to]
<1>2. /\ t.state = "recording" /\ Finish(j)
      /\ records' = records \union {r} \/ records' = records
  BY DEF RecordSaved, RecordFails
<1>3. /\ job' = [job EXCEPT ![j] = NoJob]
      /\ UNCHANGED <<log, txs, starts, cut, misplaced>>
      /\ \/ /\ sched' = [sched EXCEPT ![j[1]].last = t.to]
            /\ due' = [due EXCEPT ![j[1]] = FALSE]
         \/ UNCHANGED <<sched, due>>
  BY <1>2 DEF Finish, logVars, history
<1>4. /\ t \in Job /\ t.to \in Nat /\ t.block # 0 /\ Sound(log, t.to, Justified)
      /\ j[1] \in Instances
  BY <1>2 DEF AnchorInv, TypeOK, CoveredInv, SoundJob, Job, Jobs
<1>5. Justified' = Justified
  BY <1>3 DEF Justified, OnChain
<1>6. NoJob \in Job /\ SoundJob(log', NoJob, Justified')
  BY NoJobSound DEF Claims
<1>7. r \in Record
  BY <1>4 DEF Job, Record
<1>8. TypeOK'
  <2>1. /\ sched' \in [Instances -> [head : Nat, last : Nat]]
        /\ due' \in [Instances -> BOOLEAN]
    BY <1>3, <1>4 DEF AnchorInv, TypeOK
  <2>2. job' \in [Jobs -> Job]
    BY <1>3, <1>6 DEF AnchorInv, TypeOK
  <2>3. records' \in SUBSET Record
    BY <1>2, <1>7 DEF AnchorInv, TypeOK
  <2>4. txs' \in Seq(SUBSET Artifacts) /\ starts' \in Nat
    BY <1>3 DEF AnchorInv, TypeOK
  <2>5. LogTypeOK' /\ cut' \in SUBSET Artifacts /\ misplaced' \in SUBSET Artifacts
    BY <1>3 DEF AnchorInv, TypeOK, LogInv
  <2>6. QED BY <2>1, <2>2, <2>3, <2>4, <2>5 DEF TypeOK
<1>9. \A i \in Instances :
        \/ sched'[i] = sched[i]
        \/ sched'[i].head \in Claims(log') /\ Sound(log', sched'[i].last, Justified')
  <2>1. ASSUME sched' = [sched EXCEPT ![j[1]].last = t.to], NEW i \in Instances
        PROVE  \/ sched'[i] = sched[i]
               \/ sched'[i].head = sched[i].head /\ sched'[i].last = t.to
    BY <2>1 DEF AnchorInv, TypeOK
  <2>2. \A i \in Instances : sched[i].head \in Claims(log')
    BY <1>3 DEF AnchorInv, CoveredInv
  <2>3. Sound(log', t.to, Justified')
    BY <1>3, <1>4, <1>5
  <2>4. QED BY <1>3, <2>1, <2>2, <2>3
<1>10. \A x \in records' : x \in records \/ Sound(log', x.to, Justified')
  BY <1>2, <1>3, <1>4, <1>5
<1>11. \A k \in Jobs : job'[k] = job[k] \/ SoundJob(log', job'[k], Justified')
  BY <1>3, <1>6 DEF AnchorInv, TypeOK
<1>12. QED BY <1>5, <1>8, <1>9, <1>10, <1>11, ClaimsKept

\* Appends, opened logs, passing hours and stuttering claim nothing.
LEMMA OtherKeeps ==
  ASSUME AnchorInv, LogInv', LogExtended, UNCHANGED <<sched, job, txs, records, starts, cut>>,
         due' \in [Instances -> BOOLEAN], misplaced \subseteq misplaced',
         misplaced' \subseteq Artifacts
  PROVE  TypeOK' /\ CoveredInv'
<1>1. Justified \subseteq Justified'
  BY DEF Justified, OnChain
<1>2. LogTypeOK'
  BY DEF LogInv
<1>3. TypeOK'
  BY <1>2 DEF AnchorInv, TypeOK
<1>4. QED BY <1>1, <1>3, ClaimsKept

LEMMA AnchorStep ==
  ASSUME AnchorInv, [Next]_vars
  PROVE  AnchorInv'
<1>1. LogInv' /\ LogExtended
  BY LogKept DEF AnchorInv
<1>2. SUFFICES TypeOK' /\ CoveredInv'
  BY <1>1 DEF AnchorInv
<1>3. CASE LogStep \/ UNCHANGED vars
  <2>1. UNCHANGED <<sched, job, txs, records, starts, cut>> /\ due' = due
    BY <1>3 DEF LogStep, anchorVars, vars, history
  <2>2. due' \in [Instances -> BOOLEAN] /\ misplaced \subseteq Artifacts
    BY <2>1 DEF AnchorInv, TypeOK
  <2>3. misplaced \subseteq misplaced' /\ misplaced' \subseteq Artifacts
    BY <1>3, <2>2 DEF LogStep, vars, history
  <2>4. QED BY <1>1, <2>1, <2>2, <2>3, OtherKeeps
<1>4. ASSUME NEW i \in Instances, HourPasses(i)
      PROVE  TypeOK' /\ CoveredInv'
  <2>1. /\ UNCHANGED <<sched, job, txs, records, starts, cut, misplaced>>
        /\ due' = [due EXCEPT ![i] = TRUE]
    BY <1>4 DEF HourPasses, history
  <2>2. due' \in [Instances -> BOOLEAN] /\ misplaced' \subseteq Artifacts
    BY <2>1 DEF AnchorInv, TypeOK
  <2>3. QED BY <1>1, <2>1, <2>2, OtherKeeps
<1>5. ASSUME NEW i \in Instances,
             \/ Start(i) \/ Resume(i) \/ Stop(i) \/ Poll(i) \/ Trigger(i) \/ TriggerListed(i)
      PROVE  TypeOK' /\ CoveredInv'
  BY <1>1, <1>5, StartKeeps, ResumeKeeps, StopKeeps, PollKeeps, TriggerKeeps, TriggerListedKeeps
<1>6. ASSUME NEW j \in Jobs,
             Confirm(j) \/ AnchorFails(j) \/ RecordSaved(j) \/ RecordFails(j)
      PROVE  TypeOK' /\ CoveredInv'
  BY <1>1, <1>6, ConfirmKeeps, AnchorFailsKeeps, FinishKeeps
<1>7. QED BY <1>3, <1>4, <1>5, <1>6 DEF Next

LEMMA AnchorInit == Init => AnchorInv
<1>1. SUFFICES ASSUME Init
               PROVE  AnchorInv
  OBVIOUS
<1>2. LogInv
  BY <1>1, InitLog
<1>3. NoJob \in Job /\ SoundJob(log, NoJob, Justified)
  BY NoJobSound DEF Claims
<1>4. Sound(log, 0, Justified)
  BY <1>2, SoundZero
<1>5. TypeOK
  <2>1. /\ sched \in [Instances -> [head : Nat, last : Nat]]
        /\ due \in [Instances -> BOOLEAN]
        /\ job \in [Jobs -> Job]
    BY <1>1, <1>3 DEF Init
  <2>2. /\ txs \in Seq(SUBSET Artifacts) /\ records \in SUBSET Record /\ starts \in Nat
        /\ cut \in SUBSET Artifacts /\ misplaced \in SUBSET Artifacts
    BY <1>1 DEF Init
  <2>3. QED BY <1>2, <2>1, <2>2 DEF LogInv, TypeOK
<1>6. CoveredInv
  BY <1>1, <1>3, <1>4 DEF Init, CoveredInv, Claims
<1>7. QED BY <1>2, <1>5, <1>6 DEF AnchorInv

\* What a record or a scheduler claims to be anchored is on chain, over any
\* number of instances, lost records, late transactions, manual triggers and
\* restarts, or was left out at the limit or put there by an outdated instance
\* (anchor_scheduler.py, POST /anchors/trigger).
THEOREM ClaimsAreOnChain == Spec => []AnchoredIsOnChain
<1>1. AnchorInv /\ [Next]_vars => AnchorInv'
  BY AnchorStep
<1>2. AnchorInv => AnchoredIsOnChain
  <2>1. SUFFICES ASSUME AnchorInv
                 PROVE  NoArtifactSkipped /\ SchedulerSkipsNothing
    BY DEF AnchorInv, AnchoredIsOnChain
  <2>2. NoArtifactSkipped
    BY <2>1 DEF AnchorInv, CoveredInv, Sound, Justified, NoArtifactSkipped
  <2>3. SchedulerSkipsNothing
    BY <2>1 DEF AnchorInv, CoveredInv, Sound, Justified, SchedulerSkipsNothing, LogInv, LogTypeOK
  <2>4. QED BY <2>2, <2>3
<1>3. QED BY <1>1, <1>2, AnchorInit, PTL DEF Spec
=============================================================================
