----------------------------- MODULE AgentsProofs -----------------------------
(***************************************************************************)
(* Proofs about Agents.tla for every set of registration requests, nonces  *)
(* and keys, and any faults.                                               *)
(***************************************************************************)
EXTENDS Agents, TLAPS

-----------------------------------------------------------------------------
(* Challenges.  Whoever can still be accepted has not been.                *)

ChallengeStatus == {"unissued", "active", "expired", "gone"}

ChallengeInv ==
  /\ challenge \in [Nonces -> ChallengeStatus]
  /\ spent \in [Nonces -> Nat]
  /\ ChallengeSpentOnce
  /\ \A n \in Nonces : challenge[n] # "gone" => spent[n] = 0

LEMMA ChallengeStep == ChallengeInv /\ [Next]_vars => ChallengeInv'
<1> SUFFICES ASSUME ChallengeInv, [Next]_vars PROVE ChallengeInv'
  OBVIOUS
<1> USE DEF ChallengeInv, ChallengeSpentOnce, ChallengeStatus
<1>1. CASE UNCHANGED <<challenge, spent>>
  BY <1>1
<1>2. CASE Stop
  BY <1>2 DEF Stop
<1>3. ASSUME NEW n \in Nonces, IssueChallenge(n) PROVE ChallengeInv'
  BY <1>3 DEF IssueChallenge, Collected
<1>4. ASSUME NEW n \in Nonces, Expire(n) PROVE ChallengeInv'
  BY <1>4 DEF Expire
<1>5. ASSUME NEW r \in Registrations, NEW key \in Keys, NEW n \in Nonces,
             NEW url \in BOOLEAN, BeginRegistration(r, n, key, url)
      PROVE  ChallengeInv'
  <2>1. \A m \in Nonces : challenge'[m] =
          IF challenge[m] = "expired" \/ (m = n /\ challenge[m] = "active")
            THEN "gone" ELSE challenge[m]
    BY <1>5 DEF BeginRegistration, Consumed, Collected
  <2>2. challenge' \in [Nonces -> ChallengeStatus]
    BY <1>5 DEF BeginRegistration, Consumed, Collected
  <2>3. CASE challenge[n] = "active" /\ spent' = [spent EXCEPT ![n] = @ + 1]
    BY <2>1, <2>2, <2>3
  <2>4. CASE UNCHANGED spent
    BY <2>1, <2>2, <2>4
  <2>5. QED BY <1>5, <2>3, <2>4 DEF BeginRegistration
<1>6. QED
  BY <1>1, <1>2, <1>3, <1>4, <1>5
     DEF Next, vars, Start, Delete, GrowOld, SweepPick, SweepAsk, SweepCut, ManualAsk,
         BeginByUrl, ByUrlRefused, RegistrationRaises, CompleteRegistration, CheckAnswered,
         CheckRaises

LEMMA ChallengeInvariant == Spec => []ChallengeInv
<1>1. Init => ChallengeInv
  BY DEF Init, ChallengeInv, ChallengeStatus, ChallengeSpentOnce
<1>2. QED BY <1>1, ChallengeStep, PTL DEF Spec

\* A registration challenge leads to at most one registration, however the
\* handlers that hold its proof overlap.
THEOREM ChallengesAreSpentOnce == Spec => []ChallengeSpentOnce
<1>1. ChallengeInv => ChallengeSpentOnce
  BY DEF ChallengeInv
<1>2. QED BY <1>1, ChallengeInvariant, PTL

-----------------------------------------------------------------------------
(* The registry.  A restart reads the document, so the document has to     *)
(* follow the answered operations even while the registry does not.        *)

RegType == [Registrations -> [pc : {"idle", "verifying", "done"}, key : AnyKey,
                              url : BOOLEAN, byUrl : BOOLEAN]]

RegistryInv ==
  /\ reg \in RegType
  /\ agent \in AnyKey
  /\ latest \in AnyKey
  /\ \A r \in Registrations : reg[r].pc = "verifying" => reg[r].key \in Keys
  /\ doc.status = "none" => doc.key = NoKey
  /\ doc \in [status : {"none", "active", "revoked"}, key : AnyKey, url : BOOLEAN]
  /\ ~failedWrite => Hydrated = latest
  /\ RegistryIsLatest

\* A completed registration leaves its key registered and documented.
LEMMA CompletionKeepsRegistry ==
  ASSUME RegistryInv, NEW r \in Registrations, NEW verified \in BOOLEAN,
         CompleteRegistration(r, verified)
  PROVE  RegistryInv'
<1> USE DEF RegistryInv, RegType, AnyKey
<1>1. reg[r].key \in Keys /\ reg[r].url \in BOOLEAN
  BY DEF CompleteRegistration
<1>2. /\ reg' = [reg EXCEPT ![r].pc = "done"]
      /\ agent' = reg[r].key
      /\ latest' = reg[r].key
      /\ Persist(reg[r].key, reg[r].url)
  BY DEF CompleteRegistration
<1>3. /\ reg' \in RegType
      /\ \A x \in Registrations : reg'[x].pc = "verifying" => reg'[x].key \in Keys
  BY <1>2
<1>4. CASE doc' = [status |-> "active", key |-> reg[r].key, url |-> reg[r].url]
  BY <1>1, <1>2, <1>3, <1>4 DEF Hydrated, RegistryIsLatest
<1>5. CASE failedWrite' /\ UNCHANGED doc
  BY <1>2, <1>3, <1>5 DEF RegistryIsLatest
<1>6. QED BY <1>2, <1>4, <1>5 DEF Persist

LEMMA DeletionKeepsRegistry ==
  ASSUME RegistryInv, Delete PROVE RegistryInv'
<1> USE DEF RegistryInv, RegType, AnyKey
<1>1. agent' = NoKey /\ latest' = NoKey /\ UNCHANGED reg
  BY DEF Delete
<1>2. CASE doc' = RevokedDoc
  BY <1>1, <1>2 DEF RevokedDoc, Hydrated, RegistryIsLatest
<1>3. CASE failedWrite' /\ UNCHANGED doc
  BY <1>1, <1>3 DEF RegistryIsLatest
<1>4. QED BY <1>2, <1>3 DEF Delete

LEMMA RegistryStep == RegistryInv /\ [Next]_vars => RegistryInv'
<1> SUFFICES ASSUME RegistryInv, [Next]_vars PROVE RegistryInv'
  OBVIOUS
<1> USE DEF RegistryInv, RegistryIsLatest, Hydrated, RegType, AnyKey
<1>1. CASE UNCHANGED <<up, reg, agent, doc, latest, failedWrite, hydrated>>
  BY <1>1
<1>2. CASE Start
  BY <1>2 DEF Start
<1>3. CASE Stop
  BY <1>3 DEF Stop
<1>4. CASE Delete
  BY <1>4, DeletionKeepsRegistry
<1>5. ASSUME NEW r \in Registrations, NEW key \in Keys, NEW n \in Nonces,
             NEW url \in BOOLEAN, BeginRegistration(r, n, key, url)
      PROVE  RegistryInv'
  <2>1. UNCHANGED <<up, agent, doc, latest, failedWrite, hydrated>>
    BY <1>5 DEF BeginRegistration
  <2>2. \/ reg' = [reg EXCEPT ![r] = [pc |-> "verifying", key |-> key, url |-> url, byUrl |-> FALSE]]
        \/ reg' = [reg EXCEPT ![r].pc = "done"]
    BY <1>5 DEF BeginRegistration
  <2>3. /\ reg' \in RegType
        /\ \A x \in Registrations : reg'[x].pc = "verifying" => reg'[x].key \in Keys
    <3>1. CASE reg' = [reg EXCEPT ![r] = [pc |-> "verifying", key |-> key, url |-> url, byUrl |-> FALSE]]
      BY <3>1
    <3>2. CASE reg' = [reg EXCEPT ![r].pc = "done"]
      BY <3>2
    <3>3. QED BY <2>2, <3>1, <3>2
  <2>4. QED BY <2>1, <2>3
<1>6. ASSUME NEW r \in Registrations, NEW key \in Keys, BeginByUrl(r, key)
      PROVE  RegistryInv'
  BY <1>6 DEF BeginByUrl
<1>7. ASSUME NEW r \in Registrations, ByUrlRefused(r) \/ RegistrationRaises(r)
      PROVE  RegistryInv'
  BY <1>7 DEF ByUrlRefused, RegistrationRaises
<1>8. ASSUME NEW r \in Registrations, NEW verified \in BOOLEAN,
             CompleteRegistration(r, verified)
      PROVE  RegistryInv'
  BY <1>8, CompletionKeepsRegistry
<1>9. CASE GrowOld \/ SweepPick \/ SweepAsk \/ SweepCut \/ ManualAsk
  BY <1>1, <1>9 DEF GrowOld, SweepPick, SweepAsk, SweepCut, ManualAsk
<1>10. CASE \E n \in Nonces : IssueChallenge(n) \/ Expire(n)
  BY <1>1, <1>10 DEF IssueChallenge, Expire
<1>11. CASE \E c \in Checkers : CheckRaises(c) \/ \E verified \in BOOLEAN : CheckAnswered(c, verified)
  BY <1>1, <1>11 DEF CheckAnswered, CheckRaises
<1>12. CASE UNCHANGED vars
  BY <1>1, <1>12 DEF vars
<1> HIDE DEF RegistryInv
<1>13. QED
  BY <1>2, <1>3, <1>4, <1>5, <1>6, <1>7, <1>8, <1>9, <1>10, <1>11, <1>12 DEF Next

LEMMA RegistryInvariant == Spec => []RegistryInv
<1>1. Init => RegistryInv
  BY DEF Init, RegistryInv, RegistryIsLatest, Hydrated, RegType, AnyKey, NewRequest
<1>2. QED BY <1>1, RegistryStep, PTL DEF Spec

\* Until a registry write fails, no replaced or deleted key authorizes again,
\* over any restarts, failed start-up reads and overlapping registrations.
THEOREM RegistryFollowsOperations == Spec => []RegistryIsLatest
<1>1. RegistryInv => RegistryIsLatest
  BY DEF RegistryInv
<1>2. QED BY <1>1, RegistryInvariant, PTL

-----------------------------------------------------------------------------
(* The liveness gate.  A check whose record is in use has a record to      *)
(* write to: deleting the agent takes the record out of its hands.         *)

CheckType ==
  [Checkers -> [pc : {"idle", "picked", "asking"}, key : AnyKey, current : BOOLEAN]]

RecordInv ==
  /\ record \in Record \union {NoRecord}
  /\ check \in CheckType
  /\ \A c \in Checkers : check[c].pc = "asking" /\ check[c].current => record # NoRecord

\* What the operations on a record return.
LEMMA RecordOperations ==
  ASSUME NEW rec \in Record
  PROVE  /\ Succeed(rec) \in Record
         /\ Succeed(rec).verified = "fresh"
         /\ Fail(rec) \in Record
         /\ rec.fails >= 2 => Fail(rec).fails >= 2
<1>1. rec.fails \in 0 .. 3 /\ rec.url \in BOOLEAN /\ rec.verified \in {"never", "fresh", "old"}
  BY DEF Record
<1>2. Succeed(rec) \in Record /\ Succeed(rec).verified = "fresh"
  BY <1>1 DEF Succeed, Record
<1>3. (IF rec.fails = 3 THEN 3 ELSE rec.fails + 1) \in 0 .. 3
  BY <1>1
<1>4. Fail(rec) \in Record
  BY <1>3 DEF Fail, Record
<1>5. Fail(rec).fails = IF rec.fails = 3 THEN 3 ELSE rec.fails + 1
  BY DEF Fail, Record
<1>6. rec.fails >= 2 => Fail(rec).fails >= 2
  BY <1>1, <1>5
<1>7. QED BY <1>2, <1>4, <1>6

LEMMA NoRecordIsNone == NoRecord \notin Record
BY DEF NoRecord, Record

LEMMA SeedsARecord ==
  ASSUME record \in Record \union {NoRecord}, NEW url \in BOOLEAN
  PROVE  /\ Seed(url) \in Record
         /\ record.fails >= 2 => Seed(url).fails >= 2
<1>1. CASE record = NoRecord
  BY <1>1 DEF Seed, NewRecord, Record, NoRecord
<1>2. CASE record \in Record /\ record # NoRecord
  BY <1>2 DEF Seed, Record
<1>3. QED BY <1>1, <1>2

LEMMA CompletionKeepsGate ==
  ASSUME RecordInv, RegistryInv, NEW r \in Registrations, NEW verified \in BOOLEAN,
         CompleteRegistration(r, verified)
  PROVE  /\ record' \in Record
         /\ Gated => Gated' \/ record'.verified = "fresh"
<1> DEFINE s == Seed(reg[r].url)
<1>1. reg[r].url \in BOOLEAN
  BY DEF RegistryInv, RegType
<1>2. s \in Record /\ (record.fails >= 2 => s.fails >= 2)
  BY <1>1, SeedsARecord DEF RecordInv
<1>3. record' = Succeed(s) \/ record' = Fail(s) \/ record' = s
  BY DEF CompleteRegistration
<1> HIDE DEF s
<1>4. QED BY <1>2, <1>3, RecordOperations DEF Gated

LEMMA AnswerKeepsGate ==
  ASSUME RecordInv, NEW c \in Checkers, NEW verified \in BOOLEAN, CheckAnswered(c, verified)
  PROVE  /\ record' \in Record \/ (record' = NoRecord /\ record = NoRecord)
         /\ Gated => Gated' \/ record'.verified = "fresh"
<1>1. \/ record' = record
      \/ record # NoRecord /\ record' = Succeed(record)
      \/ record # NoRecord /\ record' = Fail(record)
  BY DEF CheckAnswered, RecordInv
<1>2. record \in Record \/ record = NoRecord
  BY DEF RecordInv
<1>3. QED BY <1>1, <1>2, RecordOperations DEF Gated

LEMMA RecordStep == RegistryInv /\ RecordInv /\ [Next]_vars => RecordInv'
<1> SUFFICES ASSUME RegistryInv, RecordInv, [Next]_vars PROVE RecordInv'
  OBVIOUS
<1> USE DEF RecordInv, CheckType, AnyKey
<1>1. CASE UNCHANGED <<record, check>>
  BY <1>1
<1>2. CASE Stop
  <2>1. check' = [c \in Checkers |-> NoCheck] /\ record' = NoRecord
    BY <1>2 DEF Stop
  <2>2. QED BY <2>1 DEF NoCheck
<1>3. CASE Delete
  <2>1. /\ check' = [c \in Checkers |-> [check[c] EXCEPT !.current = FALSE]]
        /\ record' = NoRecord
    BY <1>3 DEF Delete
  <2>2. QED BY <2>1
<1>4. CASE GrowOld
  <2>1. record \in Record /\ record' = [record EXCEPT !.verified = "old"]
    BY <1>4 DEF GrowOld, NoRecord
  <2>2. record' \in Record
    BY <2>1 DEF Record
  <2>3. QED BY <1>4, <2>2, NoRecordIsNone DEF GrowOld
<1>5. CASE SweepPick
  <2>1. check' = [check EXCEPT !["sweep"].pc = "picked"] /\ UNCHANGED record
    BY <1>5 DEF SweepPick
  <2>2. QED BY <2>1
<1>6. CASE SweepAsk
  <2>1. CASE check' = [check EXCEPT !["sweep"] = NoCheck]
    <3>1. UNCHANGED record /\ NoCheck.pc = "idle" /\
          NoCheck \in [pc : {"idle", "picked", "asking"}, key : AnyKey, current : BOOLEAN]
      BY <1>6 DEF SweepAsk, NoCheck
    <3>2. QED BY <2>1, <3>1
  <2>2. CASE record.url /\ check' = [check EXCEPT !["sweep"] =
                                        [pc |-> "asking", key |-> agent, current |-> TRUE]]
    <3>1. record # NoRecord
      BY <2>2 DEF NoRecord
    <3>2. agent \in AnyKey
      BY DEF RegistryInv
    <3>3. UNCHANGED record
      BY <1>6 DEF SweepAsk
    <3>4. QED BY <2>2, <3>1, <3>2, <3>3
  <2>3. QED BY <1>6, <2>1, <2>2 DEF SweepAsk
<1>7. CASE ManualAsk
  <2>1. agent \in AnyKey
    BY DEF RegistryInv
  <2>2. check' \in CheckType
    BY <1>7, <2>1 DEF ManualAsk
  <2>3. NewRecord(TRUE) \in Record
    BY DEF NewRecord, Record
  <2>4. record' \in Record
    <3>1. CASE record.url /\ UNCHANGED record
      BY <3>1 DEF NoRecord
    <3>2. CASE record' = NewRecord(TRUE)
      BY <2>3, <3>2
    <3>3. QED BY <1>7, <3>1, <3>2 DEF ManualAsk
  <2>5. QED BY <2>2, <2>4, NoRecordIsNone
<1>8. ASSUME NEW r \in Registrations, NEW verified \in BOOLEAN,
             CompleteRegistration(r, verified)
      PROVE  RecordInv'
  <2>1. record' \in Record
    BY <1>8, CompletionKeepsGate
  <2>2. UNCHANGED check
    BY <1>8 DEF CompleteRegistration
  <2>3. QED BY <2>1, <2>2, NoRecordIsNone
<1>9. ASSUME NEW c \in Checkers, NEW verified \in BOOLEAN, CheckAnswered(c, verified)
      PROVE  RecordInv'
  <2>1. check' = [check EXCEPT ![c] = NoCheck]
    BY <1>9 DEF CheckAnswered
  <2>2. record' \in Record \/ (record' = NoRecord /\ record = NoRecord)
    BY <1>9, AnswerKeepsGate
  <2>3. QED BY <2>1, <2>2, NoRecordIsNone DEF NoCheck
<1>10. ASSUME NEW c \in Checkers,
              check' = [check EXCEPT ![c] = NoCheck] /\ UNCHANGED record
       PROVE  RecordInv'
  BY <1>10, NoRecordIsNone DEF NoCheck
<1>11. CASE SweepCut \/ \E c \in Checkers : CheckRaises(c)
  BY <1>10, <1>11 DEF SweepCut, CheckRaises, Checkers
<1> HIDE DEF RecordInv
<1>12. CASE Start \/ \E n \in Nonces : IssueChallenge(n) \/ Expire(n)
  BY <1>1, <1>12 DEF Start, IssueChallenge, Expire
<1>13. CASE \E r \in Registrations :
              \/ ByUrlRefused(r) \/ RegistrationRaises(r)
              \/ \E key \in Keys :
                   \/ BeginByUrl(r, key)
                   \/ \E n \in Nonces, url \in BOOLEAN : BeginRegistration(r, n, key, url)
  BY <1>1, <1>13 DEF ByUrlRefused, RegistrationRaises, BeginByUrl, BeginRegistration
<1>14. CASE UNCHANGED vars
  BY <1>1, <1>14 DEF vars
<1>15. QED
  BY <1>2, <1>3, <1>4, <1>5, <1>6, <1>7, <1>8, <1>9, <1>11, <1>12, <1>13, <1>14 DEF Next

LEMMA RecordInvariant == Spec => []RecordInv
<1>1. Init => RecordInv
  BY DEF Init, RecordInv, CheckType, NoCheck, AnyKey
<1>2. QED BY <1>1, RecordStep, RegistryInvariant, PTL DEF Spec

\* A step that keeps the record of a gated agent keeps the gate, unless a
\* challenge was answered correctly.
LEMMA GateStep ==
  RegistryInv /\ RecordInv /\ [Next]_vars =>
    [Gated => Gated' \/ record' = NoRecord \/ record'.verified = "fresh"]_vars
<1> SUFFICES ASSUME RegistryInv, RecordInv, Next, Gated, record' # NoRecord,
                    record'.verified # "fresh"
             PROVE  Gated'
  OBVIOUS
<1>1. CASE UNCHANGED record
  BY <1>1 DEF Gated
<1>2. CASE Stop \/ Delete
  BY <1>2 DEF Stop, Delete
<1>3. CASE GrowOld
  <2>1. record \in Record
    BY <1>3 DEF GrowOld, RecordInv, NoRecord
  <2>2. record' = [record EXCEPT !.verified = "old"]
    BY <1>3 DEF GrowOld
  <2>3. record'.fails = record.fails
    BY <2>1, <2>2 DEF Record
  <2>4. QED BY <2>3 DEF Gated
<1>4. CASE ManualAsk
  <2>1. record # NoRecord
    BY DEF Gated, NoRecord
  <2>2. UNCHANGED record
    BY <1>4, <2>1 DEF ManualAsk
  <2>3. QED BY <2>2, <1>1
<1>5. ASSUME NEW r \in Registrations, NEW verified \in BOOLEAN,
             CompleteRegistration(r, verified)
      PROVE  Gated'
  BY <1>5, CompletionKeepsGate
<1>6. ASSUME NEW c \in Checkers, NEW verified \in BOOLEAN, CheckAnswered(c, verified)
      PROVE  Gated'
  BY <1>6, AnswerKeepsGate
<1>7. CASE \/ Start \/ SweepPick \/ SweepAsk \/ SweepCut
           \/ \E c \in Checkers : CheckRaises(c)
           \/ \E n \in Nonces : IssueChallenge(n) \/ Expire(n)
  BY <1>1, <1>7 DEF Start, SweepPick, SweepAsk, SweepCut, CheckRaises, IssueChallenge, Expire
<1>8. CASE \E r \in Registrations :
             \/ ByUrlRefused(r) \/ RegistrationRaises(r)
             \/ \E key \in Keys :
                  \/ BeginByUrl(r, key)
                  \/ \E n \in Nonces, url \in BOOLEAN : BeginRegistration(r, n, key, url)
  BY <1>1, <1>8 DEF ByUrlRefused, RegistrationRaises, BeginByUrl, BeginRegistration
<1>9. QED
  BY <1>2, <1>3, <1>4, <1>5, <1>6, <1>7, <1>8 DEF Next

\* For as long as its record exists, an agent that authorize refuses for its
\* liveness is let in again only after a challenge was answered correctly.
THEOREM GateHolds == Spec => GateHoldsUntilVerified
BY GateStep, RegistryInvariant, RecordInvariant, PTL DEF Spec, GateHoldsUntilVerified

-----------------------------------------------------------------------------
(* Types.                                                                  *)

FlagsTyped == up \in BOOLEAN /\ failedWrite \in BOOLEAN /\ hydrated \in BOOLEAN

LEMMA FlagsStep == FlagsTyped /\ [Next]_vars => FlagsTyped'
<1> SUFFICES ASSUME FlagsTyped, [Next]_vars PROVE FlagsTyped'
  OBVIOUS
<1> USE DEF FlagsTyped
<1>1. CASE UNCHANGED <<up, failedWrite, hydrated>>
  BY <1>1
<1>2. CASE Start \/ Stop \/ Delete
  BY <1>2 DEF Start, Stop, Delete
<1>3. ASSUME NEW r \in Registrations, NEW verified \in BOOLEAN,
             CompleteRegistration(r, verified)
      PROVE  FlagsTyped'
  BY <1>3 DEF CompleteRegistration, Persist
<1> HIDE DEF FlagsTyped
<1>4. CASE GrowOld \/ SweepPick \/ SweepAsk \/ SweepCut \/ ManualAsk
  BY <1>1, <1>4 DEF GrowOld, SweepPick, SweepAsk, SweepCut, ManualAsk
<1>5. CASE \E n \in Nonces : IssueChallenge(n) \/ Expire(n)
  BY <1>1, <1>5 DEF IssueChallenge, Expire
<1>6. CASE \E r \in Registrations :
             \/ ByUrlRefused(r) \/ RegistrationRaises(r)
             \/ \E key \in Keys :
                  \/ BeginByUrl(r, key)
                  \/ \E n \in Nonces, url \in BOOLEAN : BeginRegistration(r, n, key, url)
  BY <1>1, <1>6 DEF ByUrlRefused, RegistrationRaises, BeginByUrl, BeginRegistration
<1>7. CASE \E c \in Checkers : CheckRaises(c) \/ \E verified \in BOOLEAN : CheckAnswered(c, verified)
  BY <1>1, <1>7 DEF CheckAnswered, CheckRaises
<1>8. CASE UNCHANGED vars
  BY <1>1, <1>8 DEF vars
<1>9. QED BY <1>2, <1>3, <1>4, <1>5, <1>6, <1>7, <1>8 DEF Next

\* Every variable keeps its type under every operation.
THEOREM TypeCorrect == Spec => []TypeOK
<1>1. Init => FlagsTyped
  BY DEF Init, FlagsTyped
<1>2. ChallengeInv /\ RegistryInv /\ RecordInv /\ FlagsTyped => TypeOK
  <2> SUFFICES ASSUME ChallengeInv, RegistryInv, RecordInv, FlagsTyped PROVE TypeOK
    OBVIOUS
  <2>1. up \in BOOLEAN /\ failedWrite \in BOOLEAN /\ hydrated \in BOOLEAN
    BY DEF FlagsTyped
  <2>2. QED BY <2>1, Zenon
            DEF TypeOK, ChallengeInv, ChallengeStatus, RegistryInv, RegType, RecordInv, CheckType
<1>3. QED
  BY <1>1, <1>2, FlagsStep, ChallengeInvariant, RegistryInvariant, RecordInvariant, PTL DEF Spec
=============================================================================
