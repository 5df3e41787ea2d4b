----------------------------- MODULE LimitsProofs -----------------------------
(***************************************************************************)
(* Proofs about what may happen once, or so many times: a proof and a      *)
(* token are used once (SingleUse.tla), a rate limit holds                 *)
(* (RateLimit.tla), a pattern is proposed once (Recommending.tla).  They   *)
(* hold for all lifetimes, limits, windows and numbers of requests.        *)
(***************************************************************************)
EXTENDS MCStores, FiniteSetTheorems, SequenceTheorems, TLAPS

-----------------------------------------------------------------------------
(* Proofs of possession and tokens (SingleUse).                            *)

Typed == TypeOK /\ now > 0

LEMMA TypedStep == Typed /\ [Next]_vars => Typed'
<1> SUFFICES ASSUME Typed, [Next]_vars PROVE Typed'
  OBVIOUS
<1> USE SingleUseAssumption DEF Typed, TypeOK, Token
<1>1. CASE Tick
  BY <1>1 DEF Tick
<1>2. CASE Register
  BY <1>2 DEF Register
<1>3. CASE Revoke
  BY <1>3 DEF Revoke
<1>4. ASSUME NEW p \in Proofs, Authorize(p) PROVE Typed'
  <2>1. proofCache' \in [Proofs -> Nat] /\ authorized' \in [Proofs -> Nat]
    BY <1>4 DEF Authorize, Forget
  <2>2. tokens' \in SUBSET Token /\ tokens \subseteq tokens'
    BY <1>4 DEF Authorize
  <2>3. QED BY <1>4, <2>1, <2>2 DEF Authorize
<1>5. ASSUME NEW p \in Proofs, Deny(p) PROVE Typed'
  <2>1. proofCache' \in [Proofs -> Nat] /\ authorized' \in [Proofs -> Nat]
    BY <1>5 DEF Deny, Forget
  <2>2. QED BY <1>5, <2>1 DEF Deny
<1>6. ASSUME NEW t \in tokens, Present(t) PROVE Typed'
  <2>1. t \in Token /\ t.proof \in Proofs /\ t.exp + Skew \in Nat
    OBVIOUS
  <2>2. jtiCache' \in SUBSET [token : tokens, until : Nat]
    BY <1>6, <2>1 DEF Present, Remembered, Entry
  <2>3. admitted' \in [Proofs -> Nat]
    BY <1>6, <2>1 DEF Present
  <2>4. QED BY <1>6, <2>2, <2>3 DEF Present
<1>7. CASE UNCHANGED vars
  BY <1>7 DEF vars
<1>8. QED BY <1>1, <1>2, <1>3, <1>4, <1>5, <1>6, <1>7 DEF Next

LEMMA TypedInvariant == Spec => []Typed
<1>1. Init => Typed
  BY SingleUseAssumption DEF Init, Typed, TypeOK
<1>2. QED BY <1>1, TypedStep, PTL DEF Spec

\* Every variable keeps its type under every operation.
THEOREM TypeCorrect == Spec => []TypeOK
BY TypedInvariant, PTL DEF Typed

-----------------------------------------------------------------------------
(* Proofs.  A proof that was accepted is in the cache until it is stale.   *)

Spent(p) ==
  \/ proofCache[p] # 0 /\ proofCache[p] >= iat[p] + MaxAge
  \/ now > iat[p] + MaxAge

ProofInv ==
  \A p \in Proofs : authorized[p] = 0 \/ (authorized[p] = 1 /\ Spent(p))

\* Accepting p spends it and unspends no other proof.
LEMMA AcceptSpends ==
  ASSUME Typed, ProofInv, NEW p \in Proofs,
         Fresh(p), proofCache[p] = 0, now' = now, iat' = iat,
         proofCache' = Forget([proofCache EXCEPT ![p] = now + MaxAge]),
         authorized' = [authorized EXCEPT ![p] = @ + 1]
  PROVE  ProofInv'
<1> USE SingleUseAssumption DEF Typed, TypeOK
<1>1. authorized[p] = 0
  BY DEF ProofInv, Spent, Fresh
<1>2. proofCache'[p] = now + MaxAge /\ iat[p] <= now /\ authorized'[p] = 1
  BY <1>1 DEF Forget, Fresh
<1>3. ASSUME NEW q \in Proofs, q # p PROVE authorized'[q] = 0 \/ (authorized'[q] = 1 /\ Spent(q)')
  <2>1. proofCache'[q] = IF proofCache[q] < now THEN 0 ELSE proofCache[q]
    BY <1>3 DEF Forget
  <2>2. authorized'[q] = authorized[q]
    BY <1>3
  <2>3. QED BY <2>1, <2>2 DEF ProofInv, Spent
<1>4. authorized'[p] = 1 /\ Spent(p)'
  BY <1>2 DEF Spent
<1>5. QED BY <1>3, <1>4 DEF ProofInv

LEMMA ProofStep == Typed /\ ProofInv /\ [Next]_vars => ProofInv'
<1> SUFFICES ASSUME Typed, ProofInv, [Next]_vars PROVE ProofInv'
  OBVIOUS
<1> USE SingleUseAssumption DEF Typed, TypeOK, ProofInv, Spent
<1>1. CASE Tick
  BY <1>1 DEF Tick
<1>2. CASE Register
  BY <1>2 DEF Register
<1>3. CASE Revoke
  BY <1>3 DEF Revoke
<1>4. ASSUME NEW p \in Proofs, Authorize(p) PROVE ProofInv'
  BY <1>4, AcceptSpends DEF Authorize
<1>5. ASSUME NEW p \in Proofs, Deny(p) PROVE ProofInv'
  BY <1>5, AcceptSpends DEF Deny
<1>6. ASSUME NEW t \in tokens, Present(t) PROVE ProofInv'
  BY <1>6 DEF Present
<1>7. CASE UNCHANGED vars
  BY <1>7 DEF vars
<1>8. QED BY <1>1, <1>2, <1>3, <1>4, <1>5, <1>6, <1>7 DEF Next

LEMMA ProofInvariant == Spec => []ProofInv
<1>1. Init => ProofInv
  BY DEF Init, ProofInv
<1>2. QED BY <1>1, ProofStep, TypedInvariant, PTL DEF Spec

\* No proof is accepted twice, whatever the freshness window and however the
\* clean-up of the replay cache falls between two presentations.
THEOREM ProofsAreUsedOnce == Spec => []ProofUsedOnce
<1>1. ProofInv => \A p \in Proofs : authorized[p] = 0 \/ authorized[p] = 1
  BY DEF ProofInv
<1>2. Typed /\ (\A p \in Proofs : authorized[p] = 0 \/ authorized[p] = 1) => ProofUsedOnce
  <2> SUFFICES ASSUME Typed, NEW p \in Proofs, authorized[p] = 0 \/ authorized[p] = 1
               PROVE  authorized[p] <= 1
    BY DEF ProofUsedOnce
  <2>1. authorized[p] \in Nat
    BY DEF Typed, TypeOK
  <2>2. QED BY <2>1
<1>3. QED BY <1>1, <1>2, ProofInvariant, TypedInvariant, PTL

-----------------------------------------------------------------------------
(* Tokens.  A proof has at most one token, which expires soon after it.    *)

TokenInv ==
  /\ \A t \in tokens : authorized[t.proof] = 1
  /\ \A t, u \in tokens : t.proof = u.proof => t = u
  /\ \A t \in tokens :
       /\ t.exp <= now + TTL
       /\ t.exp <= iat[t.proof] + MaxAge + TTL
       /\ registered \/ t.exp <= revokedAt + TTL

LEMMA TokenStep == Typed /\ ProofInv /\ TokenInv /\ [Next]_vars => TokenInv'
<1> SUFFICES ASSUME Typed, ProofInv, TokenInv, [Next]_vars PROVE TokenInv'
  OBVIOUS
<1> USE SingleUseAssumption DEF Typed, TypeOK, TokenInv, Token
<1>1. CASE Tick
  BY <1>1 DEF Tick
<1>2. CASE Register
  BY <1>2 DEF Register
<1>3. CASE Revoke
  BY <1>3 DEF Revoke
<1>4. ASSUME NEW p \in Proofs, Authorize(p) PROVE TokenInv'
  <2> DEFINE new == [proof |-> p, n |-> authorized[p] + 1, exp |-> now + TTL]
  <2>1. authorized[p] = 0
    BY <1>4 DEF Authorize, ProofInv, Spent, Fresh
  <2>2. \A t \in tokens : t.proof # p /\ authorized'[t.proof] = authorized[t.proof]
    BY <1>4, <2>1 DEF Authorize
  <2>3. tokens' = tokens \union {new} /\ authorized'[p] = 1
    BY <1>4, <2>1 DEF Authorize
  <2>4. /\ iat[p] \in Nat /\ now <= iat[p] + MaxAge
        /\ registered' /\ now' = now /\ iat' = iat
    BY <1>4 DEF Authorize, Fresh
  <2>5. \A t \in tokens' : t \in tokens \/ t = new
    BY <2>3
  <2>6. \A t \in tokens' :
          /\ authorized'[t.proof] = 1
          /\ t.exp <= now' + TTL /\ t.exp <= iat'[t.proof] + MaxAge + TTL
    BY <2>2, <2>3, <2>4, <2>5
  <2>7. \A t, u \in tokens' : t.proof = u.proof => t = u
    BY <2>2, <2>5
  <2>8. QED BY <2>4, <2>6, <2>7
<1>5. ASSUME NEW p \in Proofs, Deny(p) PROVE TokenInv'
  <2>1. authorized[p] = 0
    BY <1>5 DEF Deny, ProofInv, Spent, Fresh
  <2>2. QED BY <1>5, <2>1 DEF Deny
<1>6. ASSUME NEW t \in tokens, Present(t) PROVE TokenInv'
  BY <1>6 DEF Present
<1>7. CASE UNCHANGED vars
  BY <1>7 DEF vars
<1>8. QED BY <1>1, <1>2, <1>3, <1>4, <1>5, <1>6, <1>7 DEF Next

LEMMA TokenInvariant == Spec => []TokenInv
<1>1. Init => TokenInv
  BY DEF Init, TokenInv
<1>2. QED BY <1>1, TokenStep, TypedInvariant, ProofInvariant, PTL DEF Spec

\* Nothing happens on the resource later than the proof allows.
THEOREM ActionsAreTimely == Spec => ActionTimely
<1>1. Typed /\ TokenInv /\ [Next]_vars =>
        [\A p \in Proofs : admitted'[p] # admitted[p] => now < iat[p] + MaxAge + TTL + Skew]_vars
  <2> SUFFICES ASSUME Typed, TokenInv, Next, NEW p \in Proofs, admitted'[p] # admitted[p]
               PROVE  now < iat[p] + MaxAge + TTL + Skew
    BY DEF vars
  <2> USE SingleUseAssumption DEF Typed, TypeOK, TokenInv, Token
  <2>1. PICK t \in tokens : Present(t)
    BY DEF Next, Tick, Register, Revoke, Authorize, Deny
  <2>2. t.proof = p /\ now < t.exp + Skew
    BY <2>1 DEF Present
  <2>3. QED BY <2>2
<1>2. QED BY <1>1, TypedInvariant, TokenInvariant, PTL DEF Spec, ActionTimely

\* A revoked agent's remaining tokens are good for TTL + Skew and no longer.
THEOREM RevocationEndsActions == Spec => RevocationTakesEffect
<1>1. Typed /\ TokenInv /\ [Next]_vars =>
        [\A p \in Proofs :
           admitted'[p] # admitted[p] /\ ~registered => now < revokedAt + TTL + Skew]_vars
  <2> SUFFICES ASSUME Typed, TokenInv, Next, NEW p \in Proofs, admitted'[p] # admitted[p],
                      ~registered
               PROVE  now < revokedAt + TTL + Skew
    BY DEF vars
  <2> USE SingleUseAssumption DEF Typed, TypeOK, TokenInv, Token
  <2>1. PICK t \in tokens : Present(t)
    BY DEF Next, Tick, Register, Revoke, Authorize, Deny
  <2>2. now < t.exp + Skew /\ t.exp <= revokedAt + TTL
    BY <2>1 DEF Present
  <2>3. QED BY <2>2
<1>2. QED BY <1>1, TypedInvariant, TokenInvariant, PTL DEF Spec, RevocationTakesEffect

-----------------------------------------------------------------------------
(* Actions.  The token of an action that happened is remembered until it   *)
(* has expired for good.                                                   *)

Used(p) ==
  \E t \in tokens :
    /\ t.proof = p
    /\ \/ now >= t.exp + Skew
       \/ \E e \in jtiCache : e.token = t /\ e.until >= t.exp + Skew

ActionInv == \A p \in Proofs : admitted[p] = 0 \/ (admitted[p] = 1 /\ Used(p))

LEMMA ActionStep == Typed /\ TokenInv /\ ActionInv /\ [Next]_vars => ActionInv'
<1> SUFFICES ASSUME Typed, TokenInv, ActionInv, [Next]_vars PROVE ActionInv'
  OBVIOUS
<1> USE SingleUseAssumption DEF Typed, TypeOK, Token
<1>1. ASSUME admitted' = admitted, tokens \subseteq tokens', jtiCache' = jtiCache,
             now' \in {now, now + 1}
      PROVE  ActionInv'
  <2> SUFFICES ASSUME NEW p \in Proofs, admitted[p] = 1, Used(p) PROVE Used(p)'
    BY <1>1 DEF ActionInv
  <2>1. PICK t \in tokens : /\ t.proof = p
                            /\ \/ now >= t.exp + Skew
                               \/ \E e \in jtiCache : e.token = t /\ e.until >= t.exp + Skew
    BY DEF Used
  <2>2. t \in Token /\ t.exp + Skew \in Nat /\ now \in Nat
    OBVIOUS
  <2>3. t \in tokens' /\ (now >= t.exp + Skew => now' >= t.exp + Skew)
    BY <1>1, <2>2
  <2>4. QED BY <1>1, <2>1, <2>3 DEF Used
<1>2. ASSUME NEW t \in tokens, Present(t) PROVE ActionInv'
  <2>1. /\ t \in Token /\ t.exp + Skew \in Nat /\ tokens' = tokens /\ now' = now
        /\ now < t.exp + Skew
        /\ \A e \in Remembered : e.token # t
        /\ jtiCache' = Remembered \union {Entry(t)}
    BY <1>2 DEF Present
  <2>2. Used(t.proof)'
    <3>1. Entry(t) \in jtiCache' /\ Entry(t).token = t /\ Entry(t).until >= t.exp + Skew
      BY <2>1 DEF Entry
    <3>2. QED BY <2>1, <3>1 DEF Used
  <2>3. ~Used(t.proof)
    <3> SUFFICES ASSUME NEW u \in tokens, u.proof = t.proof,
                        \/ now >= u.exp + Skew
                        \/ \E e \in jtiCache : e.token = u /\ e.until >= u.exp + Skew
                 PROVE  FALSE
      BY DEF Used
    <3>1. u = t
      BY DEF TokenInv
    <3>2. PICK e \in jtiCache : e.token = t /\ e.until >= t.exp + Skew
      BY <2>1, <3>1
    <3>3. e \in Remembered
      BY <2>1, <3>2 DEF Remembered
    <3>4. QED BY <2>1, <3>2, <3>3
  <2>4. admitted[t.proof] = 0
    BY <2>1, <2>3 DEF ActionInv
  <2>5. \A p \in Proofs : Used(p) => Used(p)'
    <3> SUFFICES ASSUME NEW p \in Proofs, NEW u \in tokens, u.proof = p,
                        \/ now >= u.exp + Skew
                        \/ \E e \in jtiCache : e.token = u /\ e.until >= u.exp + Skew
                 PROVE  Used(p)'
      BY DEF Used
    <3>1. CASE now >= u.exp + Skew
      BY <2>1, <3>1 DEF Used
    <3>2. ASSUME NEW e \in jtiCache, e.token = u, e.until >= u.exp + Skew PROVE Used(p)'
      <4>1. CASE e \in Remembered
        BY <2>1, <3>2, <4>1 DEF Used
      <4>2. CASE e \notin Remembered
        <5>1. now >= u.exp + Skew
          BY <3>2, <4>2 DEF Remembered
        <5>2. QED BY <2>1, <5>1 DEF Used
      <4>3. QED BY <4>1, <4>2
    <3>3. QED BY <3>1, <3>2
  <2>6. \A p \in Proofs : admitted'[p] = admitted[p] \/ (p = t.proof /\ admitted'[p] = 1)
    BY <1>2, <2>1, <2>4 DEF Present
  <2>7. QED BY <2>2, <2>5, <2>6 DEF ActionInv
<1>3. CASE Tick
  BY <1>1, <1>3 DEF Tick
<1>4. CASE Register
  BY <1>1, <1>4 DEF Register
<1>5. CASE Revoke
  BY <1>1, <1>5 DEF Revoke
<1>6. ASSUME NEW p \in Proofs, Authorize(p) PROVE ActionInv'
  BY <1>1, <1>6 DEF Authorize
<1>7. ASSUME NEW p \in Proofs, Deny(p) PROVE ActionInv'
  BY <1>1, <1>7 DEF Deny
<1>8. CASE UNCHANGED vars
  BY <1>1, <1>8 DEF vars
<1>9. QED BY <1>2, <1>3, <1>4, <1>5, <1>6, <1>7, <1>8 DEF Next

\* A proof leads to at most one action, for every lifetime and skew: the two
\* replay caches never forget what could still be presented.
THEOREM ActionsHappenOnce == Spec => []ActionOnce
<1>1. Init => ActionInv
  BY DEF Init, ActionInv
<1>2. Spec => []ActionInv
  BY <1>1, ActionStep, TypedInvariant, TokenInvariant, PTL DEF Spec
<1>3. ActionInv => \A p \in Proofs : admitted[p] = 0 \/ admitted[p] = 1
  BY DEF ActionInv
<1>4. Typed /\ (\A p \in Proofs : admitted[p] = 0 \/ admitted[p] = 1) => ActionOnce
  <2> SUFFICES ASSUME Typed, NEW p \in Proofs, admitted[p] = 0 \/ admitted[p] = 1
               PROVE  admitted[p] <= 1
    BY DEF ActionOnce
  <2>1. admitted[p] \in Nat
    BY DEF Typed, TypeOK
  <2>2. QED BY <2>1
<1>5. QED BY <1>2, <1>3, <1>4, TypedInvariant, PTL

-----------------------------------------------------------------------------
(* The rate limit (RateLimit).                                             *)

\* A step of the whole is one of the counters, and one of the proposals.
LEMMA LimitsStep ==
  ASSUME [StoresNext]_storesVars
  PROVE  [L!Next]_rateVars /\ [P!Next]_tickVars
BY DEF StoresNext, storesVars, rateVars, tickVars

\* The running counters, the saved ones, and those on their way.
Copies == {counter, savedCounters} \union {flight[i].snapshot : i \in DOMAIN flight}

InWindow(c) == {e \in c : e.time > second - RateWindow}

\* Whatever is loaded from a copy, it admits no more than the limit, and charges
\* nothing that was not asked for.
Fits(c) ==
  /\ IsFiniteSet(c) /\ Cardinality(InWindow(c)) <= MaxActions
  /\ \A e \in c : pc[e.req] # "idle" /\ e.time = stamp[e.req]

CopiesInv == \A c \in Copies : Fits(c)

\* A request that saves has one write under way; a stopped process has no request;
\* nothing is approved that was not evaluated.
FlightInv ==
  /\ \A r \in approved : pc[r] # "idle"
  /\ \A i \in DOMAIN flight : pc[flight[i].req] = "saving"
  /\ \A i, j \in DOMAIN flight : flight[i].req = flight[j].req => i = j
  /\ ~up => flight = <<>> /\ \A r \in Requests : pc[r] \notin {"evaluated", "saving"}

\* The copy c has the stamp of r, if r was approved and is in the window.
Has(c, r) ==
  r \in approved /\ stamp[r] > second - RateWindow => [req |-> r, time |-> stamp[r]] \in c

\* The copy c has every approval whose request is past its evaluation, was answered,
\* or sent one of the first j writes under way.
Counted(c) == \A r \in Requests : pc[r] \in {"evaluated", "saving", "answered"} => Has(c, r)
Kept(c) == \A r \in Requests : pc[r] = "answered" => Has(c, r)
Carried(c, j) == \A i \in 1 .. j : Has(c, flight[i].req)

\* Undisturbed, an approval is in the running counters from its evaluation on, and
\* in the saved ones from its answer on; and a write carries every approval that
\* was answered before it is applied.
HeldInv ==
  ~disturbed =>
    /\ up => Counted(counter)
    /\ Kept(savedCounters)
    /\ \A j \in DOMAIN flight : Kept(flight[j].snapshot) /\ Carried(flight[j].snapshot, j)

RateInv == L!TypeOK /\ CopiesInv /\ FlightInv /\ HeldInv

\* Taking out the i-th element of a sequence.
LEMMA Removal ==
  ASSUME NEW S, NEW s \in Seq(S), NEW i \in DOMAIN s
  PROVE  /\ L!RemoveAt(s, i) \in Seq(S) /\ Len(L!RemoveAt(s, i)) = Len(s) - 1
         /\ \A j \in DOMAIN L!RemoveAt(s, i) :
              /\ L!RemoveAt(s, i)[j] = IF j < i THEN s[j] ELSE s[j + 1]
              /\ j \in DOMAIN s /\ j + 1 \in DOMAIN s
<1> DEFINE a == SubSeq(s, 1, i - 1)
           b == SubSeq(s, i + 1, Len(s))
<1>1. Len(s) \in Nat /\ DOMAIN s = 1 .. Len(s) /\ i \in 1 .. Len(s)
  OBVIOUS
<1>2. /\ a \in Seq(S) /\ Len(a) = i - 1
      /\ \A j \in 1 .. i - 1 : a[j] = s[j]
  BY <1>1
<1>3. /\ b \in Seq(S) /\ Len(b) = Len(s) - i
      /\ \A j \in 1 .. Len(s) - i : b[j] = s[i + j]
  BY <1>1
<1> HIDE DEF a, b
<1>4. /\ a \o b \in Seq(S) /\ Len(a \o b) = Len(s) - 1
      /\ \A j \in 1 .. Len(s) - 1 : (a \o b)[j] = IF j < i THEN a[j] ELSE b[j - (i - 1)]
  <2>1. /\ a \o b \in Seq(S) /\ Len(a \o b) = Len(a) + Len(b)
        /\ \A j \in 1 .. Len(a) + Len(b) : (a \o b)[j] = IF j <= Len(a) THEN a[j] ELSE b[j - Len(a)]
    BY <1>2, <1>3, ConcatProperties
  <2>2. QED BY <1>1, <1>2, <1>3, <2>1
<1>5. \A j \in 1 .. Len(s) - 1 : (a \o b)[j] = IF j < i THEN s[j] ELSE s[j + 1]
  <2>1. SUFFICES ASSUME NEW j \in 1 .. Len(s) - 1
                 PROVE  (a \o b)[j] = IF j < i THEN s[j] ELSE s[j + 1]
    OBVIOUS
  <2>2. CASE j < i
    <3>1. j \in 1 .. i - 1
      BY <2>2, <1>1
    <3>2. QED BY <3>1, <2>2, <1>2, <1>4
  <2>3. CASE ~(j < i)
    <3>1. j - (i - 1) \in 1 .. Len(s) - i /\ i + (j - (i - 1)) = j + 1
      BY <2>3, <1>1
    <3>2. QED BY <3>1, <2>3, <1>3, <1>4
  <2>4. QED BY <2>2, <2>3
<1>6. L!RemoveAt(s, i) = a \o b
  BY DEF L!RemoveAt, a, b
<1>7. DOMAIN (a \o b) = 1 .. Len(s) - 1
  BY <1>4, <1>1
<1>8. \A j \in 1 .. Len(s) - 1 : j \in DOMAIN s /\ j + 1 \in DOMAIN s
  BY <1>1
<1>9. QED BY <1>4, <1>5, <1>6, <1>7, <1>8

LEMMA RateFacts ==
  ASSUME L!TypeOK
  PROVE  /\ second \in Nat /\ up \in BOOLEAN /\ counter \subseteq L!Stamps /\ savedCounters \subseteq L!Stamps
         /\ flight \in Seq([req : Requests, snapshot : SUBSET L!Stamps])
         /\ Len(flight) \in Nat /\ DOMAIN flight = 1 .. Len(flight)
         /\ \A i \in DOMAIN flight : flight[i].req \in Requests /\ flight[i].snapshot \subseteq L!Stamps
         /\ DOMAIN pc = Requests /\ DOMAIN stamp = Requests /\ \A r \in Requests : stamp[r] \in Nat
<1>1. flight \in Seq([req : Requests, snapshot : SUBSET L!Stamps])
  BY DEF L!TypeOK
<1>2. Len(flight) \in Nat /\ DOMAIN flight = 1 .. Len(flight)
  BY <1>1
<1>3. ASSUME NEW i \in DOMAIN flight PROVE flight[i] \in [req : Requests, snapshot : SUBSET L!Stamps]
  BY <1>1, <1>2, ElementOfSeq
<1>4. QED BY <1>1, <1>2, <1>3 DEF L!TypeOK

\* A write ends.
LEMMA WriteGone ==
  ASSUME L!TypeOK, NEW i \in DOMAIN flight, flight' = L!RemoveAt(flight, i)
  PROVE  /\ flight' \in Seq([req : Requests, snapshot : SUBSET L!Stamps])
         /\ \A j \in DOMAIN flight' :
              /\ flight'[j] = IF j < i THEN flight[j] ELSE flight[j + 1]
              /\ j \in DOMAIN flight /\ j + 1 \in DOMAIN flight
<1>1. flight \in Seq([req : Requests, snapshot : SUBSET L!Stamps])
  BY RateFacts
<1>2. L!RemoveAt(flight, i) \in Seq([req : Requests, snapshot : SUBSET L!Stamps])
  BY <1>1, Removal
<1>3. \A j \in DOMAIN L!RemoveAt(flight, i) :
        /\ L!RemoveAt(flight, i)[j] = IF j < i THEN flight[j] ELSE flight[j + 1]
        /\ j \in DOMAIN flight /\ j + 1 \in DOMAIN flight
  BY <1>1, Removal
<1>4. QED BY <1>2, <1>3

LEMMA RateTypes ==
  ASSUME L!TypeOK, L!RateAssumption, [L!Next]_rateVars
  PROVE  L!TypeOK'
<1> USE DEF L!TypeOK
<1>1. CASE L!Tick
  BY <1>1 DEF L!Tick
<1>2. CASE L!Start
  BY <1>2 DEF L!Start
<1>3. CASE L!Crash
  <2>1. savedCounters' \subseteq L!Stamps
    BY <1>3, RateFacts DEF L!Crash
  <2>2. pc' \in [Requests -> {"idle", "evaluated", "saving", "answered", "withheld", "lost"}]
    BY <1>3 DEF L!Crash
  <2>3. flight' \in Seq([req : Requests, snapshot : SUBSET L!Stamps])
    BY <1>3 DEF L!Crash
  <2>4. UNCHANGED <<second, stamp, approved, disturbed>> /\ up' \in BOOLEAN /\ counter' \subseteq L!Stamps
    BY <1>3 DEF L!Crash
  <2>5. QED BY <2>1, <2>2, <2>3, <2>4
<1>4. CASE L!DryRun
  BY <1>4 DEF L!DryRun, L!Recent
<1>5. CASE L!ReplacePolicy
  BY <1>5 DEF L!ReplacePolicy
<1>6. ASSUME NEW r \in Requests, L!SendCounters(r) PROVE L!TypeOK'
  BY <1>6 DEF L!SendCounters
<1>7. ASSUME NEW r \in Requests, L!SaveFails(r) PROVE L!TypeOK'
  <2>1. flight' \in Seq([req : Requests, snapshot : SUBSET L!Stamps])
    BY <1>7, WriteGone DEF L!SaveFails
  <2>2. savedCounters' \subseteq L!Stamps
    BY <1>7, RateFacts DEF L!SaveFails
  <2>3. QED BY <1>7, <2>1, <2>2 DEF L!SaveFails
<1>8. ASSUME NEW r \in Requests, NEW pass \in BOOLEAN, L!Evaluate(r, pass) PROVE L!TypeOK'
  <2>1. counter' \subseteq L!Stamps
    BY <1>8 DEF L!Evaluate, L!Recent, L!Stamps
  <2>2. QED BY <1>8, <2>1 DEF L!Evaluate
<1>9. ASSUME NEW i \in DOMAIN flight, L!CountersSaved(i) PROVE L!TypeOK'
  <2>1. flight' \in Seq([req : Requests, snapshot : SUBSET L!Stamps])
    BY <1>9, WriteGone DEF L!CountersSaved
  <2>2. savedCounters' \subseteq L!Stamps
    BY <1>9, RateFacts DEF L!CountersSaved
  <2>3. disturbed' \in BOOLEAN
    BY <1>9 DEF L!CountersSaved
  <2>4. QED BY <1>9, <2>1, <2>2, <2>3 DEF L!CountersSaved
<1>10. CASE UNCHANGED rateVars
  BY <1>10 DEF rateVars
<1>11. QED BY <1>1, <1>2, <1>3, <1>4, <1>5, <1>6, <1>7, <1>8, <1>9, <1>10 DEF L!Next

\* The counting of RateLimit is that of the theorems on finite sets.
LEMMA SameCardinality ==
  ASSUME NEW S
  PROVE  L!Cardinality(S) = Cardinality(S)
BY DEF L!Cardinality, Cardinality

LEMMA FlightStep ==
  ASSUME L!TypeOK, FlightInv, [L!Next]_rateVars
  PROVE  FlightInv'
<1> USE RateFacts DEF FlightInv
<1>1. CASE L!Tick \/ L!DryRun \/ L!ReplacePolicy \/ UNCHANGED rateVars
  BY <1>1 DEF L!Tick, L!DryRun, L!ReplacePolicy, rateVars
<1>2. CASE L!Start
  BY <1>2 DEF L!Start
<1>3. CASE L!Crash
  BY <1>3 DEF L!Crash, L!TypeOK
<1>4. ASSUME NEW r \in Requests, L!SendCounters(r) PROVE FlightInv'
  <2>1. /\ flight' \in Seq([req : Requests, snapshot : SUBSET L!Stamps])
        /\ DOMAIN flight' = 1 .. Len(flight) + 1 /\ flight'[Len(flight) + 1].req = r
        /\ \A i \in DOMAIN flight : flight'[i] = flight[i]
    BY <1>4 DEF L!SendCounters
  <2>2. \A i \in DOMAIN flight : flight[i].req # r
    BY <1>4 DEF L!SendCounters
  <2>3. QED BY <1>4, <2>1, <2>2 DEF L!SendCounters
\* The request of the i-th write ends with it.
<1>5. ASSUME NEW i \in DOMAIN flight, flight' = L!RemoveAt(flight, i), UNCHANGED <<up, approved>>, up,
             NEW how \in {"answered", "withheld"}, pc' = [pc EXCEPT ![flight[i].req] = how]
      PROVE  FlightInv'
  <2>1. \A j \in DOMAIN flight' :
          /\ flight'[j] = IF j < i THEN flight[j] ELSE flight[j + 1]
          /\ j \in DOMAIN flight /\ j + 1 \in DOMAIN flight
    BY <1>5, WriteGone
  <2>2. \A j \in DOMAIN flight' : flight'[j].req # flight[i].req /\ pc[flight'[j].req] = "saving"
    BY <2>1
  <2>3. ASSUME NEW j \in DOMAIN flight', NEW k \in DOMAIN flight', flight'[j].req = flight'[k].req
        PROVE  j = k
    <3>1. j \in Nat /\ k \in Nat /\ i \in Nat
      BY <2>1
    <3>2. (IF j < i THEN j ELSE j + 1) = (IF k < i THEN k ELSE k + 1)
      BY <2>1, <2>3, SMTT(60)
    <3>3. QED BY <3>1, <3>2
  <2>4. QED BY <1>5, <2>2, <2>3
<1>6. ASSUME NEW r \in Requests, L!SaveFails(r) PROVE FlightInv'
  <2>1. CASE pc[r] = "evaluated" /\ UNCHANGED <<savedCounters, flight>>
    BY <1>6, <2>1 DEF L!SaveFails
  <2>2. ASSUME NEW i \in DOMAIN flight, flight[i].req = r, flight' = L!RemoveAt(flight, i)
        PROVE  FlightInv'
    <3>1. up /\ UNCHANGED <<up, approved>> /\ pc' = [pc EXCEPT ![flight[i].req] = "withheld"]
      BY <1>6, <2>2 DEF L!SaveFails
    <3>2. QED BY <1>5, <2>2, <3>1
  <2>3. QED BY <1>6, <2>1, <2>2 DEF L!SaveFails
<1>7. ASSUME NEW r \in Requests, NEW pass \in BOOLEAN, L!Evaluate(r, pass) PROVE FlightInv'
  <2>1. \A i \in DOMAIN flight : flight[i].req # r
    BY <1>7 DEF L!Evaluate
  <2>2. QED BY <1>7, <2>1 DEF L!Evaluate
<1>8. ASSUME NEW i \in DOMAIN flight, L!CountersSaved(i) PROVE FlightInv'
  <2>1. /\ up /\ UNCHANGED <<up, approved>> /\ pc' = [pc EXCEPT ![flight[i].req] = "answered"]
        /\ flight' = L!RemoveAt(flight, i)
    BY <1>8 DEF L!CountersSaved
  <2>2. QED BY <1>5, <2>1
<1>9. QED BY <1>1, <1>2, <1>3, <1>4, <1>6, <1>7, <1>8 DEF L!Next

\* A request that was evaluated stays so, with its time.
LEMMA StampsStay ==
  ASSUME L!TypeOK, [L!Next]_rateVars
  PROVE  /\ second' >= second
         /\ \A r \in Requests : pc[r] # "idle" => pc'[r] # "idle" /\ stamp'[r] = stamp[r]
<1> USE RateFacts
<1>1. CASE L!Tick \/ L!DryRun \/ L!ReplacePolicy \/ UNCHANGED rateVars \/ L!Start \/ L!Crash
  BY <1>1 DEF L!Tick, L!DryRun, L!ReplacePolicy, L!Start, L!Crash, rateVars
<1>2. CASE \E r \in Requests : L!SendCounters(r) \/ L!SaveFails(r) \/ \E pass \in BOOLEAN : L!Evaluate(r, pass)
  BY <1>2 DEF L!SendCounters, L!SaveFails, L!Evaluate
<1>3. CASE \E i \in DOMAIN flight : L!CountersSaved(i)
  BY <1>3 DEF L!CountersSaved
<1>4. QED BY <1>1, <1>2, <1>3 DEF L!Next

\* What fits keeps fitting, and so does a part of it.
LEMMA PartsFit ==
  ASSUME L!TypeOK, L!TypeOK', [L!Next]_rateVars, L!RateAssumption,
         NEW c, c \subseteq L!Stamps, Fits(c), NEW d, d \subseteq c
  PROVE  Fits(d)'
<1>1. InWindow(d)' \subseteq InWindow(c)
  <2>1. \A e \in d : e.time \in Nat /\ e \in c
    BY DEF L!Stamps
  <2>2. second' >= second /\ second \in Nat /\ second' \in Nat /\ RateWindow \in Nat
    BY StampsStay DEF L!TypeOK, L!RateAssumption
  <2>3. QED BY <2>1, <2>2 DEF InWindow
<1>2. IsFiniteSet(d) /\ IsFiniteSet(InWindow(c))
  <2>1. InWindow(c) \subseteq c
    BY DEF InWindow
  <2>2. QED BY <2>1, FS_Subset DEF Fits
<1>3. Cardinality(InWindow(d)') <= MaxActions
  <2>1. Cardinality(InWindow(c)) \in Nat /\ Cardinality(InWindow(d)') \in Nat /\ MaxActions \in Nat
        /\ Cardinality(InWindow(d)') <= Cardinality(InWindow(c))
    BY <1>1, <1>2, FS_Subset, FS_CardinalityType DEF L!RateAssumption
  <2>2. QED BY <2>1 DEF Fits
<1>4. \A e \in d : pc'[e.req] # "idle" /\ e.time = stamp'[e.req]
  BY StampsStay DEF Fits, L!Stamps
<1>5. QED BY <1>2, <1>3, <1>4 DEF Fits

LEMMA CopiesStep ==
  ASSUME L!TypeOK, L!TypeOK', CopiesInv, L!RateAssumption, [L!Next]_rateVars
  PROVE  CopiesInv'
<1> USE RateFacts
<1>1. \A c \in Copies : Fits(c) /\ c \subseteq L!Stamps
  BY DEF CopiesInv, Copies
\* No copy that is new, but for the counters of this process.
<1>2. ASSUME \A c \in Copies' : (\E d \in Copies : c \subseteq d) \/ Fits(c)'
      PROVE  CopiesInv'
  BY <1>1, <1>2, PartsFit DEF CopiesInv
<1>3. {counter, savedCounters} \subseteq Copies /\ \A i \in DOMAIN flight : flight[i].snapshot \in Copies
  BY DEF Copies
<1>4. ASSUME UNCHANGED <<savedCounters, flight>>, (\E d \in Copies : counter' \subseteq d) \/ Fits(counter)'
      PROVE  CopiesInv'
  <2>1. Copies' \subseteq Copies \union {counter'}
    BY <1>4 DEF Copies
  <2>2. QED BY <1>2, <1>4, <2>1
<1>5. CASE L!Tick \/ L!Start \/ L!DryRun \/ L!ReplacePolicy \/ UNCHANGED rateVars
  BY <1>3, <1>4, <1>5 DEF L!Tick, L!Start, L!DryRun, L!ReplacePolicy, L!Recent, rateVars
<1>6. CASE L!Crash
  <2>1. savedCounters' \in Copies /\ counter' \subseteq counter /\ flight' = <<>>
    BY <1>3, <1>6 DEF L!Crash
  <2>2. Copies' = {counter', savedCounters'}
    BY <2>1 DEF Copies
  <2>3. QED BY <1>2, <1>3, <2>1, <2>2
<1>7. ASSUME NEW r \in Requests, L!SendCounters(r) PROVE CopiesInv'
  <2>1. UNCHANGED <<counter, savedCounters>>
    BY <1>7 DEF L!SendCounters
  <2>2. \A i \in DOMAIN flight' : flight'[i].snapshot \in Copies
    BY <1>3, <1>7 DEF L!SendCounters
  <2>3. QED BY <1>2, <1>3, <2>1, <2>2 DEF Copies
\* A write ends, applied or not.
<1>8. ASSUME NEW i \in DOMAIN flight, savedCounters' \in Copies, flight' = L!RemoveAt(flight, i), UNCHANGED counter
      PROVE  CopiesInv'
  <2>1. \A j \in DOMAIN flight' : flight'[j].snapshot \in Copies
    <3>1. \A j \in DOMAIN flight' :
            /\ flight'[j] = IF j < i THEN flight[j] ELSE flight[j + 1]
            /\ j \in DOMAIN flight /\ j + 1 \in DOMAIN flight
      BY <1>8, WriteGone
    <3>2. QED BY <1>3, <3>1
  <2>2. Copies' \subseteq Copies
    <3>1. SUFFICES ASSUME NEW c \in Copies' PROVE c \in Copies
      OBVIOUS
    <3>2. c = counter' \/ c = savedCounters' \/ \E j \in DOMAIN flight' : c = flight'[j].snapshot
      BY <3>1 DEF Copies
    <3>3. QED BY <1>3, <1>8, <2>1, <3>2
  <2>3. QED BY <1>2, <2>2
<1>9. ASSUME NEW r \in Requests, L!SaveFails(r) PROVE CopiesInv'
  BY <1>3, <1>4, <1>8, <1>9 DEF L!SaveFails
<1>10. ASSUME NEW i \in DOMAIN flight, L!CountersSaved(i) PROVE CopiesInv'
  BY <1>3, <1>8, <1>10 DEF L!CountersSaved
<1>11. ASSUME NEW r \in Requests, NEW pass \in BOOLEAN, L!Evaluate(r, pass) PROVE CopiesInv'
  <2>1. PICK d : d = L!Recent
    OBVIOUS
  <2>2. d \subseteq counter /\ Fits(d)'
    <3>1. d \subseteq counter
      BY <2>1 DEF L!Recent
    <3>2. QED BY <1>1, <1>3, <3>1, PartsFit
  <2>3. CASE ~L!HasRoom
    BY <1>3, <1>4, <1>11, <2>1, <2>2, <2>3 DEF L!Evaluate
  <2>4. CASE L!HasRoom
    <3>1. counter' = d \union {[req |-> r, time |-> second]} /\ UNCHANGED <<savedCounters, flight>>
          /\ pc'[r] = "evaluated" /\ stamp'[r] = second
      BY <1>11, <2>1, <2>4 DEF L!Evaluate
    <3>2. IsFiniteSet(counter') /\ Cardinality(counter') \in Nat /\ Cardinality(counter') <= MaxActions
      <4>1. IsFiniteSet(d) /\ Cardinality(d) \in Nat /\ Cardinality(d) < MaxActions /\ MaxActions \in Nat
        <5>1. IsFiniteSet(d)
          BY <2>2 DEF Fits
        <5>2. Cardinality(d) < MaxActions /\ MaxActions \in Nat
          BY <2>1, <2>4, SameCardinality DEF L!HasRoom, L!RateAssumption
        <5>3. QED BY <5>1, <5>2, FS_CardinalityType
      <4>2. IsFiniteSet(counter') /\ Cardinality(counter') \in {Cardinality(d), Cardinality(d) + 1}
        BY <3>1, <4>1, FS_AddElement
      <4>3. QED BY <4>1, <4>2
    <3>3. Cardinality(InWindow(counter)') <= MaxActions
      <4>1. InWindow(counter)' \subseteq counter'
        BY DEF InWindow
      <4>2. Cardinality(InWindow(counter)') \in Nat /\ Cardinality(InWindow(counter)') <= Cardinality(counter')
        BY <3>2, <4>1, FS_Subset, FS_CardinalityType
      <4>3. QED BY <3>2, <4>2 DEF L!RateAssumption
    <3>4. ASSUME NEW f \in counter' PROVE pc'[f.req] # "idle" /\ f.time = stamp'[f.req]
      <4>1. CASE f \in d
        BY <2>2, <4>1 DEF Fits
      <4>2. CASE f = [req |-> r, time |-> second]
        BY <3>1, <4>2
      <4>3. QED BY <3>1, <3>4, <4>1, <4>2
    <3>5. Fits(counter)'
      BY <3>2, <3>3, <3>4 DEF Fits
    <3>6. QED BY <1>4, <3>1, <3>5
  <2>5. QED BY <2>3, <2>4
<1>12. QED BY <1>5, <1>6, <1>7, <1>9, <1>10, <1>11 DEF L!Next

\* A copy goes on having what it had, as long as nothing is approved.
LEMMA HasStays ==
  ASSUME L!TypeOK, L!TypeOK', L!RateAssumption, [L!Next]_rateVars, NEW c, NEW r \in Requests,
         Has(c, r), r \in approved' => r \in approved, stamp'[r] = stamp[r]
  PROVE  Has(c, r)'
<1>1. /\ second \in Nat /\ second' \in Nat /\ second' >= second /\ RateWindow \in Nat
      /\ stamp[r] \in Nat
  BY StampsStay DEF L!TypeOK, L!RateAssumption
<1>2. QED BY <1>1 DEF Has

LEMMA HeldStep ==
  ASSUME L!TypeOK, L!TypeOK', FlightInv, HeldInv, L!RateAssumption, [L!Next]_rateVars
  PROVE  HeldInv'
<1> SUFFICES ASSUME ~disturbed' PROVE HeldInv'
  BY DEF HeldInv
<1> USE RateFacts
<1>1. ~disturbed
  BY DEF L!Next, L!Tick, L!Start, L!Crash, L!DryRun, L!ReplacePolicy, L!SendCounters, L!SaveFails,
         L!Evaluate, L!CountersSaved, rateVars
<1>2. /\ up => Counted(counter)
      /\ Kept(savedCounters)
      /\ \A j \in DOMAIN flight : Kept(flight[j].snapshot) /\ Carried(flight[j].snapshot, j)
  BY <1>1 DEF HeldInv
\* Nothing is evaluated: what a copy has, it goes on having.
<1>3. ASSUME UNCHANGED <<approved, stamp>>, NEW c
      PROVE  /\ \A r \in Requests : Has(c, r) => Has(c, r)'
             /\ (\A r \in Requests : pc'[r] = "answered" => pc[r] = "answered") /\ Kept(c) => Kept(c)'
             /\ Counted(c) /\ (\A r \in Requests : pc'[r] \in {"evaluated", "saving", "answered"}
                                 => pc[r] \in {"evaluated", "saving", "answered"}) => Counted(c)'
  <2>1. \A r \in Requests : Has(c, r) => Has(c, r)'
    BY <1>3, HasStays
  <2>2. QED BY <2>1 DEF Kept, Counted
\* Writes and what was answered stay as they are.
<1>4. ASSUME UNCHANGED <<approved, stamp, savedCounters, flight, pc>>
      PROVE  /\ Kept(savedCounters)'
             /\ \A j \in DOMAIN flight' : Kept(flight[j].snapshot)' /\ Carried(flight[j].snapshot, j)'
  <2>1. Kept(savedCounters)'
    BY <1>2, <1>3, <1>4 DEF Kept
  <2>2. ASSUME NEW j \in DOMAIN flight PROVE Kept(flight[j].snapshot)' /\ Carried(flight[j].snapshot, j)'
    <3>1. PICK c : c = flight[j].snapshot
      OBVIOUS
    <3>2. Kept(c) /\ \A i \in 1 .. j : flight[i].req \in Requests /\ Has(c, flight[i].req)
      BY <1>2, <3>1 DEF Carried
    <3>3. Kept(c)' /\ \A i \in 1 .. j : Has(c, flight[i].req)'
      BY <1>3, <1>4, <3>2
    <3>4. QED BY <1>4, <3>1, <3>3 DEF Kept, Carried, Has
  <2>3. QED BY <1>4, <2>1, <2>2
<1>5. CASE L!Tick \/ UNCHANGED rateVars
  <2>1. UNCHANGED <<approved, stamp, savedCounters, flight, pc, up, counter>>
    BY <1>5 DEF L!Tick, rateVars
  <2>2. up' => Counted(counter)'
    BY <1>2, <1>3, <2>1 DEF Counted
  <2>3. QED BY <1>4, <2>1, <2>2 DEF HeldInv
<1>6. CASE L!DryRun
  <2>1. UNCHANGED <<approved, stamp, savedCounters, flight, pc, up, second>> /\ up /\ counter' = L!Recent
    BY <1>6 DEF L!DryRun
  <2>2. Counted(counter)'
    BY <1>2, <2>1 DEF Counted, Has, L!Recent
  <2>3. QED BY <1>4, <2>1, <2>2 DEF HeldInv
<1>7. CASE L!Start
  <2>1. UNCHANGED <<approved, stamp, savedCounters, flight, pc, second>> /\ counter' = savedCounters /\ ~up
    BY <1>7 DEF L!Start
  <2>2. Counted(counter)'
    BY <1>2, <2>1 DEF Counted, Kept, Has, FlightInv
  <2>3. QED BY <1>4, <2>1, <2>2 DEF HeldInv
<1>8. CASE L!ReplacePolicy
  BY <1>8 DEF L!ReplacePolicy
<1>9. CASE L!Crash
  <2>1. /\ UNCHANGED <<approved, stamp, second>> /\ up' = FALSE /\ flight' = <<>>
        /\ pc' = [r \in Requests |-> IF pc[r] \in {"evaluated", "saving"} THEN "lost" ELSE pc[r]]
        /\ savedCounters' = savedCounters \/ \E i \in DOMAIN flight : savedCounters' = flight[i].snapshot
    BY <1>9 DEF L!Crash
  <2>2. PICK c : c = savedCounters' /\ Kept(c)
    BY <1>2, <2>1
  <2>3. Kept(c)'
    BY <1>3, <2>1, <2>2
  <2>4. Kept(savedCounters)'
    BY <2>2, <2>3 DEF Kept, Has
  <2>5. QED BY <2>1, <2>4 DEF HeldInv
<1>10. ASSUME NEW r \in Requests, L!SendCounters(r)
       PROVE  HeldInv'
  <2>1. /\ UNCHANGED <<approved, stamp, second, up, counter, savedCounters>> /\ up
        /\ pc' = [pc EXCEPT ![r] = "saving"] /\ pc[r] = "evaluated"
        /\ DOMAIN flight' = 1 .. Len(flight) + 1
        /\ \A i \in DOMAIN flight : flight'[i] = flight[i]
        /\ flight'[Len(flight) + 1] = [req |-> r, snapshot |-> counter]
    BY <1>10 DEF L!SendCounters
  <2>2. Counted(counter)' /\ Kept(savedCounters)'
    BY <1>2, <2>1 DEF Counted, Kept, Has
  <2>3. ASSUME NEW j \in DOMAIN flight'
        PROVE  Kept(flight[j].snapshot)' /\ Carried(flight[j].snapshot, j)'
    <3>1. CASE j \in DOMAIN flight
      <4>1. \A i \in 1 .. j : i \in DOMAIN flight /\ flight'[i] = flight[i]
        <5>1. \A i \in 1 .. j : i \in DOMAIN flight
          BY <3>1
        <5>2. QED BY <2>1, <5>1
      <4>2. QED BY <1>2, <2>1, <3>1, <4>1 DEF Kept, Carried, Has
    <3>2. CASE j = Len(flight) + 1
      <4>1. Kept(flight[j].snapshot)'
        BY <1>2, <2>1, <3>2 DEF Counted, Kept, Has
      <4>2. ASSUME NEW i \in 1 .. j PROVE Has(flight[j].snapshot, flight[i].req)'
        <5>1. flight'[i].req \in Requests /\ pc[flight'[i].req] \in {"evaluated", "saving"}
          <6>1. i \in DOMAIN flight \/ i = Len(flight) + 1
            BY <2>1, <3>2
          <6>2. CASE i \in DOMAIN flight
            <7>1. flight'[i] = flight[i] /\ flight[i].req \in Requests
              BY <2>1, <6>2
            <7>2. QED BY <6>2, <7>1 DEF FlightInv
          <6>3. CASE i = Len(flight) + 1
            BY <2>1, <6>3
          <6>4. QED BY <6>1, <6>2, <6>3
        <5>2. QED BY <1>2, <2>1, <3>2, <5>1 DEF Counted, Has
      <4>3. QED BY <4>1, <4>2 DEF Carried
    <3>3. QED BY <2>1, <3>1, <3>2
  <2>4. QED BY <2>2, <2>3 DEF HeldInv
\* A write ends, in order if its request is answered.
<1>11. ASSUME NEW i \in DOMAIN flight, flight' = L!RemoveAt(flight, i),
              UNCHANGED <<approved, stamp, second, up, counter>>, up,
              NEW how \in {"answered", "withheld"}, pc' = [pc EXCEPT ![flight[i].req] = how],
              savedCounters' \in {savedCounters, flight[i].snapshot},
              how = "answered" => i = 1 /\ savedCounters' = flight[i].snapshot
       PROVE  HeldInv'
  <2>1. PICK q \in Requests : q = flight[i].req /\ pc[q] = "saving"
    BY DEF FlightInv
  <2>2. \A r \in Requests : pc'[r] = IF r = q THEN how ELSE pc[r]
    BY <1>11, <2>1
  <2>3. Counted(counter)'
    BY <1>2, <1>11, <2>1, <2>2 DEF Counted, Has
  <2>4. \A n \in DOMAIN flight : n >= i => Has(flight[n].snapshot, q)
    BY <1>2, <2>1 DEF Carried
  <2>5. Kept(savedCounters)'
    BY <1>2, <1>11, <2>2, <2>4 DEF Kept, Has
  <2>6. ASSUME NEW j \in DOMAIN flight'
        PROVE  Kept(flight[j].snapshot)' /\ Carried(flight[j].snapshot, j)'
    <3>1. PICK n \in DOMAIN flight : flight'[j] = flight[n] /\ n = IF j < i THEN j ELSE j + 1
      BY <1>11, WriteGone
    <3>2. j \in Nat /\ i \in Nat /\ n \in Nat /\ j >= 1 /\ i >= 1
      <4>1. j \in DOMAIN flight
        BY <1>11, WriteGone
      <4>2. QED BY <4>1
    <3>3. Kept(flight[j].snapshot)'
      <4>1. how = "answered" => n >= i
        BY <1>11, <3>1, <3>2
      <4>2. QED BY <1>2, <1>11, <2>2, <2>4, <3>1, <4>1 DEF Kept, Has
    <3>4. ASSUME NEW m \in 1 .. j PROVE Has(flight[j].snapshot, flight[m].req)'
      <4>1. m \in DOMAIN flight'
        BY <1>11, WriteGone
      <4>2. PICK l \in DOMAIN flight : flight'[m] = flight[l] /\ l = IF m < i THEN m ELSE m + 1
        BY <1>11, <4>1, WriteGone
      <4>3. l \in 1 .. n
        BY <3>1, <3>2, <4>2
      <4>4. QED BY <1>2, <1>11, <3>1, <4>2, <4>3 DEF Carried, Has
    <3>5. QED BY <3>3, <3>4 DEF Carried
  <2>7. QED BY <2>3, <2>5, <2>6 DEF HeldInv
<1>12. ASSUME NEW r \in Requests, L!SaveFails(r)
       PROVE  HeldInv'
  <2>1. CASE pc[r] = "evaluated" /\ UNCHANGED <<savedCounters, flight>>
    <3>1. UNCHANGED <<approved, stamp, second, up, counter, savedCounters, flight>>
          /\ \A q \in Requests : pc'[q] = IF q = r THEN "withheld" ELSE pc[q]
      BY <1>12, <2>1 DEF L!SaveFails
    <3>2. Counted(counter)' \/ ~up'
      BY <1>2, <3>1 DEF Counted, Has
    <3>3. Kept(savedCounters)' /\ \A j \in DOMAIN flight' : Kept(flight[j].snapshot)' /\ Carried(flight[j].snapshot, j)'
      BY <1>2, <3>1 DEF Kept, Carried, Has
    <3>4. QED BY <3>2, <3>3 DEF HeldInv
  <2>2. ASSUME NEW i \in DOMAIN flight, flight[i].req = r, flight' = L!RemoveAt(flight, i),
               savedCounters' \in {savedCounters, flight[i].snapshot}
        PROVE  HeldInv'
    <3>1. UNCHANGED <<approved, stamp, second, up, counter>> /\ up
          /\ pc' = [pc EXCEPT ![flight[i].req] = "withheld"]
      BY <1>12, <2>2 DEF L!SaveFails
    <3>2. QED BY <1>11, <2>2, <3>1
  <2>3. QED BY <1>12, <2>1, <2>2 DEF L!SaveFails
<1>13. ASSUME NEW i \in DOMAIN flight, L!CountersSaved(i)
       PROVE  HeldInv'
  <2>1. /\ UNCHANGED <<approved, stamp, second, up, counter>> /\ up /\ i = 1
        /\ flight' = L!RemoveAt(flight, i) /\ savedCounters' = flight[i].snapshot
        /\ pc' = [pc EXCEPT ![flight[i].req] = "answered"]
    BY <1>13 DEF L!CountersSaved, FlightInv
  <2>2. QED BY <1>11, <2>1
<1>14. ASSUME NEW r \in Requests, NEW pass \in BOOLEAN, L!Evaluate(r, pass)
       PROVE  HeldInv'
  <2>1. /\ UNCHANGED <<second, up, savedCounters, flight>> /\ up /\ pc[r] = "idle"
        /\ \A q \in Requests \ {r} : stamp'[q] = stamp[q] /\ pc'[q] = pc[q] /\ (q \in approved' <=> q \in approved)
        /\ pc'[r] = "evaluated" /\ stamp'[r] = second
        /\ L!Recent \subseteq counter'
        /\ r \in approved' /\ r \notin approved => [req |-> r, time |-> second] \in counter'
    BY <1>14 DEF L!Evaluate
  <2>2. r \notin approved
    BY <2>1 DEF FlightInv
  <2>3. Counted(counter)'
    BY <1>2, <2>1, <2>2 DEF Counted, Has, L!Recent
  <2>4. Kept(savedCounters)'
    BY <1>2, <2>1 DEF Kept, Has
  <2>5. ASSUME NEW j \in DOMAIN flight PROVE Kept(flight[j].snapshot)' /\ Carried(flight[j].snapshot, j)'
    <3>1. \A i \in 1 .. j : flight[i].req \in Requests \ {r}
      BY <2>1 DEF FlightInv
    <3>2. QED BY <1>2, <2>1, <3>1 DEF Kept, Carried, Has
  <2>6. QED BY <2>1, <2>3, <2>4, <2>5 DEF HeldInv
<1>15. QED BY <1>5, <1>6, <1>7, <1>8, <1>9, <1>10, <1>12, <1>13, <1>14 DEF L!Next

LEMMA RateInvariant == StoresSpec => []RateInv
<1>1. L!RateAssumption
  BY StoresAssumption
<1>2. StoresInit => RateInv
  <2>1. StoresInit => L!TypeOK /\ FlightInv /\ HeldInv
    <3>1. SUFFICES ASSUME StoresInit PROVE L!TypeOK /\ FlightInv /\ HeldInv
      OBVIOUS
    <3>2. /\ second = 0 /\ up = FALSE /\ counter = {} /\ savedCounters = {} /\ flight = <<>>
          /\ pc = [r \in Requests |-> "idle"] /\ stamp = [r \in Requests |-> 0]
          /\ approved = {} /\ disturbed = FALSE
      BY <3>1 DEF StoresInit, L!Init
    <3>3. L!TypeOK
      <4>1. flight \in Seq([req : Requests, snapshot : SUBSET L!Stamps])
        BY <3>2
      <4>2. QED BY <3>2, <4>1 DEF L!TypeOK
    <3>4. FlightInv /\ HeldInv
      BY <3>2 DEF FlightInv, HeldInv, Kept
    <3>5. QED BY <3>3, <3>4
  <2>2. StoresInit => CopiesInv
    <3>1. SUFFICES ASSUME StoresInit, NEW c \in Copies PROVE Fits(c)
      BY DEF CopiesInv
    <3>2. c = {}
      BY <3>1 DEF StoresInit, L!Init, Copies
    <3>3. InWindow(c) = {}
      BY <3>2 DEF InWindow
    <3>4. QED BY <1>1, <3>2, <3>3, FS_EmptySet DEF Fits, L!RateAssumption
  <2>3. QED BY <2>1, <2>2 DEF RateInv
<1>3. RateInv /\ [StoresNext]_storesVars => RateInv'
  BY <1>1, LimitsStep, RateTypes, FlightStep, CopiesStep, HeldStep DEF RateInv
<1>4. QED BY <1>2, <1>3, PTL DEF StoresSpec

\* Over crashes, restarts and overlapping requests, no more than MaxActions approvals
\* reach the agent within a window, unless a write overtook another, a start-up read
\* failed or the policy was replaced; and the counters hold what it was granted and
\* nothing it did not ask for.
THEOREM RateLimitHolds == StoresSpec => []RateBound
<1>1. L!RateAssumption
  BY StoresAssumption
<1>2. RateInv => L!RateBoundAcrossRestarts \/ disturbed
  <2>1. SUFFICES ASSUME RateInv, ~disturbed PROVE L!RateBoundAcrossRestarts
    OBVIOUS
  <2>2. Kept(savedCounters) /\ Fits(savedCounters)
    BY <2>1 DEF RateInv, HeldInv, CopiesInv, Copies
  <2>3. DEFINE f == [r \in L!Granted |-> [req |-> r, time |-> stamp[r]]]
  <2>4. f \in Injection(L!Granted, InWindow(savedCounters))
    <3>1. \A r \in L!Granted : [req |-> r, time |-> stamp[r]] \in InWindow(savedCounters)
      BY <2>1, <2>2 DEF Kept, Has, InWindow, L!Granted, RateInv, L!TypeOK
    <3>2. \A r, q \in L!Granted : [req |-> r, time |-> stamp[r]] = [req |-> q, time |-> stamp[q]] => r = q
      OBVIOUS
    <3>3. QED BY <3>1, <3>2 DEF Injection, IsInjective
  <2>5. IsFiniteSet(InWindow(savedCounters))
    <3>1. InWindow(savedCounters) \subseteq savedCounters
      BY DEF InWindow
    <3>2. QED BY <2>2, <3>1, FS_Subset DEF Fits
  <2>6. Cardinality(L!Granted) <= Cardinality(InWindow(savedCounters)) /\ Cardinality(L!Granted) \in Nat
    BY <2>4, <2>5, FS_Injection, FS_CardinalityType
  <2>7. Cardinality(InWindow(savedCounters)) \in Nat /\ MaxActions \in Nat
    BY <1>1, <2>5, FS_CardinalityType DEF L!RateAssumption
  <2>8. Cardinality(L!Granted) <= MaxActions
    BY <2>2, <2>6, <2>7 DEF Fits
  <2>9. QED BY <2>8, SameCardinality DEF L!RateBoundAcrossRestarts
<1>3. RateInv => L!ApprovalsAreCounted
  BY DEF RateInv, HeldInv, Counted, Has, L!ApprovalsAreCounted, L!Granted, L!TypeOK
<1>4. RateInv => L!CountersAreEarned
  BY DEF RateInv, CopiesInv, Copies, Fits, L!CountersAreEarned, L!TypeOK, L!Stamps
<1>5. RateInv => RateBound
  BY <1>2, <1>3, <1>4 DEF RateBound, L!RateBound, RateInv
<1>6. QED BY <1>5, RateInvariant, PTL

-----------------------------------------------------------------------------
(* Proposals (Recommending).                                               *)

Reports == [kind : P!Kinds, tenant : Tenants, shape : Shapes, time : Nat]
Proposals == [tenant : Tenants, shape : Shapes, time : Nat, known : Nat, troubled : BOOLEAN]
Steps == P!Kinds \union {"idle", "proposals", "model", "writing"}
TickStates ==
  [at : Steps, todo : Seq(Tenants), found : SUBSET Shapes, known : SUBSET Shapes,
   raw : SUBSET (Shapes \union {Odd}), before : Nat, stored : Nat, began : Nat, troubled : BOOLEAN]

RoundTypes == [tenants : Seq(Tenants) \ {<<>>}, ticks : Nat, failures : Nat]

TickTypes ==
  /\ hour \in Nat
  /\ evidence \in Seq(Reports)
  /\ proposals \in Seq(Proposals)
  /\ tick \in [Handlers -> TickStates]
  /\ rounds \in RoundTypes

\* The kinds of evidence that a tick has read when it comes to a step.
ReadBefore(at) ==
  CASE at = "incident" -> {"conflict"}
    [] at = "isolation" -> {"conflict", "incident"}
    [] at \in {"proposals", "model"} -> P!Kinds
    [] OTHER -> {}

\* The i-th proposal is of the shape s, for the tenant of the tick t, and was recent
\* at a time.
Names(i, t, s, time) ==
  /\ proposals[i].tenant = Head(t.todo) /\ proposals[i].shape = s
  /\ proposals[i].time + Memory >= time

\* Found when the tick began, and unproposed since before it began; proposed before
\* it began, and recent now.
Due(t) == UNION {P!Warranted(kind, Head(t.todo), t.before) : kind \in P!Kinds}
Proposed(t, s) == \E i \in DOMAIN proposals : Names(i, t, s, t.began)
Known(t, s) == \E i \in 1 .. t.stored : Names(i, t, s, hour)

\* An untroubled tick has found what was there when it began, knows what was proposed
\* by then, and lists, or has stored, what is due and not known.
Diligent(t) ==
  /\ \A kind \in ReadBefore(t.at) : P!Warranted(kind, Head(t.todo), t.before) \subseteq t.found
  /\ t.at = "model" => \A s \in Shapes : (s \in t.known => Proposed(t, s)) /\ (Known(t, s) => s \in t.known)
  /\ t.at = "writing" => \A s \in Shapes : (s \in Due(t) => s \in t.raw \/ Proposed(t, s)) /\ (Known(t, s) => s \notin t.raw)

TickInv(t) ==
  t.at # "idle" =>
    /\ t.todo # <<>> /\ t.began <= hour
    /\ t.before <= Len(evidence) /\ t.stored <= Len(proposals)
    /\ ~t.troubled => Diligent(t)

ProposalsInv ==
  \A i, j \in DOMAIN proposals :
    /\ i < j /\ proposals[i].tenant = proposals[j].tenant /\ proposals[i].shape = proposals[j].shape
    /\ proposals[j].time <= proposals[i].time + Memory
    => proposals[j].troubled \/ proposals[j].known < i

RecommendingInv ==
  TickTypes /\ (\A k \in Handlers : TickInv(tick[k])) /\ ProposalsInv /\ missed = {}

LEMMA SameCount ==
  ASSUME NEW S
  PROVE  P!Cardinality(S) = Cardinality(S)
BY DEF P!Cardinality, Cardinality

LEMMA TickFacts ==
  ASSUME TickTypes, P!RecommendingAssumption
  PROVE  /\ hour \in Nat /\ ReportWindow \in Nat /\ Memory \in Nat /\ Enough \in Nat
         /\ Len(evidence) \in Nat /\ DOMAIN evidence = 1 .. Len(evidence)
         /\ Len(proposals) \in Nat /\ DOMAIN proposals = 1 .. Len(proposals)
         /\ \A i \in DOMAIN evidence : evidence[i] \in Reports /\ evidence[i].time \in Nat
         /\ \A i \in DOMAIN proposals : proposals[i] \in Proposals
         /\ \A k \in Handlers : tick[k] \in TickStates
<1>1. ASSUME NEW i \in DOMAIN evidence PROVE evidence[i] \in Reports
  BY ElementOfSeq DEF TickTypes
<1>2. ASSUME NEW i \in DOMAIN proposals PROVE proposals[i] \in Proposals
  BY ElementOfSeq DEF TickTypes
<1>3. Len(evidence) \in Nat /\ DOMAIN evidence = 1 .. Len(evidence)
  BY DEF TickTypes
<1>4. Len(proposals) \in Nat /\ DOMAIN proposals = 1 .. Len(proposals)
  BY DEF TickTypes
<1>5. \A r \in Reports : r.time \in Nat
  BY DEF Reports
<1>6. QED BY <1>1, <1>2, <1>3, <1>4, <1>5 DEF TickTypes, P!RecommendingAssumption

\* Time goes on, and what was written stays.
Grown ==
  /\ hour' >= hour
  /\ Len(evidence') >= Len(evidence) /\ \A i \in DOMAIN evidence : evidence'[i] = evidence[i]
  /\ Len(proposals') >= Len(proposals) /\ \A i \in DOMAIN proposals : proposals'[i] = proposals[i]

\* The element x comes to the end of a sequence.
LEMMA AppendFacts ==
  ASSUME NEW S, NEW s \in Seq(S), NEW x \in S
  PROVE  /\ Append(s, x) \in Seq(S) /\ Len(Append(s, x)) = Len(s) + 1
         /\ Append(s, x)[Len(s) + 1] = x
         /\ \A i \in DOMAIN s : Append(s, x)[i] = s[i]
OBVIOUS

\* Among more reports, and at an earlier time, more is warranted.
LEMMA MoreWarranted ==
  ASSUME TickTypes, P!RecommendingAssumption, NEW kind, NEW tenant, NEW n \in Nat, NEW m \in Nat, n <= m
  PROVE  P!Warranted(kind, tenant, n) \subseteq P!Warranted(kind, tenant, m)
<1>1. ASSUME NEW s, NEW least \in Nat, P!Cardinality(P!Within(kind, tenant, s, n)) >= least
      PROVE  P!Cardinality(P!Within(kind, tenant, s, m)) >= least
  <2>1. /\ P!Within(kind, tenant, s, n) \subseteq P!Within(kind, tenant, s, m)
        /\ P!Within(kind, tenant, s, m) \subseteq 1 .. m
    BY DEF P!Within
  <2>2. IsFiniteSet(P!Within(kind, tenant, s, m))
    BY <2>1, FS_Interval, FS_Subset
  <2>3. /\ Cardinality(P!Within(kind, tenant, s, m)) \in Nat
        /\ Cardinality(P!Within(kind, tenant, s, n)) \in Nat
        /\ Cardinality(P!Within(kind, tenant, s, n)) <= Cardinality(P!Within(kind, tenant, s, m))
    BY <2>1, <2>2, FS_Subset, FS_CardinalityType
  <2>4. QED BY <1>1, <2>3, SameCount
<1>2. QED BY <1>1, TickFacts DEF P!Warranted

LEMMA WarrantedBefore ==
  ASSUME TickTypes, TickTypes', P!RecommendingAssumption, Grown,
         NEW kind, NEW tenant, NEW n \in Nat, n <= Len(evidence)
  PROVE  P!Warranted(kind, tenant, n)' \subseteq P!Warranted(kind, tenant, n)
<1>1. ASSUME NEW s, NEW least \in Nat, P!Cardinality(P!Within(kind, tenant, s, n)') >= least
      PROVE  P!Cardinality(P!Within(kind, tenant, s, n)) >= least
  <2>1. /\ P!Within(kind, tenant, s, n)' \subseteq P!Within(kind, tenant, s, n)
        /\ P!Within(kind, tenant, s, n) \subseteq 1 .. n
    <3>1. \A i \in 1 .. n : evidence'[i] = evidence[i] /\ evidence[i].time \in Nat
      BY TickFacts DEF Grown
    <3>2. hour \in Nat /\ hour' \in Nat /\ hour' >= hour /\ ReportWindow \in Nat
      BY TickFacts DEF Grown, TickTypes
    <3>3. P!Within(kind, tenant, s, n) \subseteq 1 .. n
      BY DEF P!Within
    <3>4. ASSUME NEW i \in P!Within(kind, tenant, s, n)'
          PROVE  i \in P!Within(kind, tenant, s, n)
      <4>1. i \in 1 .. n /\ evidence[i].kind = kind /\ evidence[i].tenant \in P!Readers(kind, tenant)
            /\ evidence[i].shape = s /\ evidence[i].time + ReportWindow >= hour'
        BY <3>1, <3>4 DEF P!Within, P!Readers
      <4>2. QED BY <3>1, <3>2, <4>1 DEF P!Within
    <3>5. QED BY <3>3, <3>4
  <2>2. IsFiniteSet(P!Within(kind, tenant, s, n))
    BY <2>1, FS_Interval, FS_Subset, SMTT(60)
  <2>3. /\ Cardinality(P!Within(kind, tenant, s, n)) \in Nat
        /\ Cardinality(P!Within(kind, tenant, s, n)') \in Nat
        /\ Cardinality(P!Within(kind, tenant, s, n)') <= Cardinality(P!Within(kind, tenant, s, n))
    BY <2>1, <2>2, FS_Subset, FS_CardinalityType
  <2>4. QED BY <1>1, <2>3, SameCount
<1>2. QED BY <1>1, TickFacts DEF P!Warranted

LEMMA TickStays ==
  ASSUME TickTypes, TickTypes', P!RecommendingAssumption, Grown, NEW t \in TickStates, TickInv(t)
  PROVE  TickInv(t)'
<1>1. t.before \in Nat /\ t.stored \in Nat /\ t.began \in Nat /\ t.at \in Steps
  BY DEF TickStates
<1>2. CASE t.at = "idle"
  BY <1>2 DEF TickInv
<1>3. CASE t.at # "idle"
  <2>0. hour' \in Nat /\ Len(evidence') \in Nat /\ Len(proposals') \in Nat /\ DOMAIN proposals' = 1 .. Len(proposals')
    BY DEF TickTypes
  <2>1. /\ t.todo # <<>> /\ t.began <= hour'
        /\ t.before <= Len(evidence') /\ t.stored <= Len(proposals')
    <3>1. t.todo # <<>> /\ t.began <= hour /\ t.before <= Len(evidence) /\ t.stored <= Len(proposals)
      BY <1>3 DEF TickInv
    <3>2. hour \in Nat /\ Len(evidence) \in Nat /\ Len(proposals) \in Nat
      BY TickFacts
    <3>3. QED BY <1>1, <2>0, <3>1, <3>2 DEF Grown
  <2>2. \A kind : P!Warranted(kind, Head(t.todo), t.before)' \subseteq P!Warranted(kind, Head(t.todo), t.before)
    BY <1>1, <1>3, WarrantedBefore DEF TickInv
  <2>3. \A s : (Proposed(t, s) => Proposed(t, s)') /\ (Known(t, s)' => Known(t, s))
    <3>1. \A i \in DOMAIN proposals : i \in DOMAIN proposals' /\ proposals'[i] = proposals[i] /\ proposals[i].time \in Nat
      BY <2>0, TickFacts DEF Grown, Proposals
    <3>2. \A i \in 1 .. t.stored : i \in DOMAIN proposals
      BY <1>1, <1>3, TickFacts DEF TickInv
    <3>3. hour \in Nat /\ hour' \in Nat /\ hour' >= hour /\ Memory \in Nat
      BY TickFacts DEF Grown, TickTypes
    <3>4. QED BY <3>1, <3>2, <3>3 DEF Proposed, Known, Names
  <2>4. Due(t)' \subseteq Due(t)
    BY <2>2 DEF Due
  <2>5. Diligent(t) => Diligent(t)'
    BY <2>2, <2>3, <2>4 DEF Diligent, ReadBefore
  <2>6. QED BY <1>3, <2>1, <2>5 DEF TickInv
<1>4. QED BY <1>2, <1>3

LEMMA RoundChanges ==
  ASSUME rounds \in RoundTypes, NEW k, NEW u, P!Goto(k, u) \/ P!Failing(k, u)
  PROVE  rounds' \in RoundTypes /\ tick' = [tick EXCEPT ![k] = u]
<1>1. CASE P!Goto(k, u)
  BY <1>1 DEF P!Goto
<1>2. CASE P!Failing(k, u)
  <2>1. rounds.failures \in Nat /\ rounds.failures > 0
    BY <1>2 DEF P!Failing, RoundTypes
  <2>2. rounds.failures - 1 \in Nat
    BY <2>1
  <2>3. rounds' = [rounds EXCEPT !.failures = rounds.failures - 1] /\ tick' = [tick EXCEPT ![k] = u]
    BY <1>2 DEF P!Failing
  <2>4. QED BY <2>2, <2>3 DEF RoundTypes
<1>3. QED BY <1>1, <1>2

\* The proposal p repeats none that its tick could know of.
Novel(p) ==
  \A i \in DOMAIN proposals :
    p.tenant = proposals[i].tenant /\ p.shape = proposals[i].shape /\ p.time <= proposals[i].time + Memory
    => p.troubled \/ p.known < i

\* A step of the tick k, which may store a proposal.
LEMMA TickChanges ==
  ASSUME RecommendingInv, P!RecommendingAssumption,
         NEW k \in Handlers, NEW u \in TickStates, tick' = [tick EXCEPT ![k] = u], rounds' \in RoundTypes,
         UNCHANGED <<hour, evidence, missed>>,
         UNCHANGED proposals \/ \E p \in Proposals : Novel(p) /\ proposals' = Append(proposals, p),
         TickTypes' /\ Grown => TickInv(u)'
  PROVE  RecommendingInv'
<1>1. TickTypes /\ ProposalsInv /\ missed' = {}
  BY DEF RecommendingInv
<1>2. TickTypes'
  <2>1. proposals' \in Seq(Proposals)
    BY <1>1 DEF TickTypes
  <2>2. tick' \in [Handlers -> TickStates] /\ hour' \in Nat /\ evidence' \in Seq(Reports)
    BY <1>1 DEF TickTypes
  <2>3. QED BY <2>1, <2>2 DEF TickTypes
<1>3. Grown
  <2>1. ASSUME NEW p \in Proposals, proposals' = Append(proposals, p)
        PROVE  Len(proposals') >= Len(proposals) /\ \A i \in DOMAIN proposals : proposals'[i] = proposals[i]
    BY <1>1, <2>1, TickFacts, AppendFacts DEF TickTypes
  <2>2. QED BY <1>1, <2>1, TickFacts DEF Grown
<1>4. \A h \in Handlers : TickInv(tick[h])'
  <2>1. TickInv(u)'
    BY <1>2, <1>3
  <2>2. ASSUME NEW h \in Handlers, h # k PROVE TickInv(tick[h])'
    <3>1. PICK t \in TickStates : t = tick[h] /\ TickInv(t) /\ t = tick'[h]
      BY <1>1, <2>2, TickFacts DEF TickTypes, RecommendingInv
    <3>2. TickInv(t)'
      BY <1>1, <1>2, <1>3, <3>1, TickStays
    <3>3. QED BY <3>1, <3>2
  <2>3. tick'[k] = u
    BY <1>1 DEF TickTypes
  <2>4. QED BY <2>1, <2>2, <2>3
<1>5. ProposalsInv'
  <2>1. CASE UNCHANGED proposals
    BY <1>1, <2>1 DEF ProposalsInv
  <2>2. ASSUME NEW p \in Proposals, Novel(p), proposals' = Append(proposals, p)
        PROVE  ProposalsInv'
    <3>1. /\ DOMAIN proposals' = 1 .. Len(proposals) + 1 /\ DOMAIN proposals = 1 .. Len(proposals)
          /\ Len(proposals) \in Nat
          /\ proposals'[Len(proposals) + 1] = p
          /\ \A i \in DOMAIN proposals : proposals'[i] = proposals[i]
      BY <1>1, <2>2, TickFacts, AppendFacts DEF TickTypes
    <3>2. SUFFICES ASSUME NEW i \in DOMAIN proposals', NEW j \in DOMAIN proposals', i < j,
                          proposals'[i].tenant = proposals'[j].tenant, proposals'[i].shape = proposals'[j].shape,
                          proposals'[j].time <= proposals'[i].time + Memory
                   PROVE  proposals'[j].troubled \/ proposals'[j].known < i
      BY DEF ProposalsInv
    <3>3. i \in DOMAIN proposals
      BY <3>1, <3>2
    <3>4. CASE j \in DOMAIN proposals
      BY <1>1, <3>1, <3>2, <3>3, <3>4 DEF ProposalsInv
    <3>5. CASE j = Len(proposals) + 1
      <4>1. proposals'[j] = p /\ proposals'[i] = proposals[i]
        BY <3>1, <3>3, <3>5
      <4>2. p.tenant = proposals[i].tenant /\ p.shape = proposals[i].shape
            /\ p.time <= proposals[i].time + Memory
        BY <3>2, <4>1
      <4>3. QED BY <2>2, <3>3, <4>1, <4>2 DEF Novel
    <3>6. QED BY <3>1, <3>4, <3>5
  <2>3. QED BY <2>1, <2>2
<1>6. QED BY <1>1, <1>2, <1>4, <1>5 DEF RecommendingInv

\* A step of the tick k that stores nothing.
LEMMA TickMoves ==
  ASSUME RecommendingInv, P!RecommendingAssumption,
         NEW k \in Handlers, NEW u \in TickStates, tick' = [tick EXCEPT ![k] = u], rounds' \in RoundTypes,
         UNCHANGED <<hour, evidence, proposals, missed>>, TickInv(u)
  PROVE  RecommendingInv'
<1>1. TickTypes' /\ Grown => TickInv(u)'
  BY TickStays DEF RecommendingInv
<1>2. QED BY <1>1, TickChanges

LEMMA RecommendingStep ==
  ASSUME RecommendingInv, P!RecommendingAssumption, [P!Next]_tickVars
  PROVE  RecommendingInv'
<1>1. TickTypes /\ (\A k \in Handlers : TickInv(tick[k])) /\ ProposalsInv /\ missed = {}
  BY DEF RecommendingInv
\* The evidence and the clock.
<1>2. ASSUME TickTypes', Grown, UNCHANGED <<proposals, tick, rounds, missed>>
      PROVE  RecommendingInv'
  <2>1. ASSUME NEW k \in Handlers PROVE TickInv(tick[k])'
    <3>1. PICK t \in TickStates : t = tick[k] /\ TickInv(t) /\ t = tick'[k]
      BY <1>1, <1>2 DEF TickTypes
    <3>2. TickInv(t)'
      BY <1>1, <1>2, <3>1, TickStays
    <3>3. QED BY <3>1, <3>2
  <2>2. ProposalsInv'
    BY <1>1, <1>2 DEF ProposalsInv
  <2>3. QED BY <1>1, <1>2, <2>1, <2>2 DEF RecommendingInv
<1>3. CASE UNCHANGED tickVars
  <2>1. TickTypes' /\ Grown
    BY <1>1, <1>3, TickFacts DEF tickVars, TickTypes, Grown
  <2>2. QED BY <1>2, <1>3, <2>1 DEF tickVars
<1>4. ASSUME NEW f \in Findings, P!Store(f) PROVE RecommendingInv'
  <2>1. DEFINE e == [kind |-> f.kind, tenant |-> f.tenant, shape |-> f.shape, time |-> hour]
  <2>2. e \in Reports
    BY <1>1 DEF P!RecommendingAssumption, Reports, TickTypes
  <2>3. evidence' = Append(evidence, e) /\ UNCHANGED <<hour, proposals, tick, rounds, missed>>
    BY <1>4 DEF P!Store
  <2> HIDE DEF e
  <2>4. /\ evidence' \in Seq(Reports) /\ Len(evidence') = Len(evidence) + 1 /\ Len(evidence) \in Nat
        /\ \A i \in DOMAIN evidence : evidence'[i] = evidence[i]
    BY <1>1, <2>2, <2>3, AppendFacts DEF TickTypes
  <2>5. TickTypes' /\ Grown
    BY <1>1, <2>3, <2>4, TickFacts DEF TickTypes, Grown
  <2>6. QED BY <1>2, <2>3, <2>5
<1>5. CASE P!Pass
  <2>1. TickTypes' /\ Grown
    BY <1>1, <1>5, TickFacts DEF P!Pass, TickTypes, Grown
  <2>2. QED BY <1>2, <1>5, <2>1 DEF P!Pass
\* The record of a tick.
<1>6. ASSUME NEW k \in Handlers
      PROVE  /\ tick[k] \in TickStates /\ TickInv(tick[k])
             /\ tick[k].at \in Steps /\ tick[k].todo \in Seq(Tenants)
             /\ tick[k].found \subseteq Shapes /\ tick[k].known \subseteq Shapes
             /\ tick[k].raw \subseteq Shapes \union {Odd}
             /\ {tick[k].before, tick[k].stored, tick[k].began} \subseteq Nat
  BY <1>1, TickFacts DEF TickStates
<1>7. P!Idle \in TickStates /\ TickInv(P!Idle)
  BY DEF P!Idle, TickStates, Steps, TickInv
<1>8. ASSUME NEW k \in Handlers, P!StartTick(k) PROVE RecommendingInv'
  <2>1. PICK u : u = [P!Idle EXCEPT !.at = "conflict", !.todo = rounds.tenants, !.before = Len(evidence),
                                    !.stored = Len(proposals), !.began = hour]
    OBVIOUS
  <2>2. /\ tick' = [tick EXCEPT ![k] = u] /\ rounds' = [rounds EXCEPT !.ticks = rounds.ticks - 1]
        /\ rounds.ticks > 0 /\ UNCHANGED <<hour, evidence, proposals, missed>>
    BY <1>8, <2>1 DEF P!StartTick
  <2>3. rounds' \in RoundTypes /\ rounds.tenants \in Seq(Tenants) \ {<<>>}
    <3>1. rounds \in RoundTypes /\ rounds.ticks - 1 \in Nat
      BY <1>1, <2>2 DEF TickTypes, RoundTypes
    <3>2. QED BY <2>2, <3>1 DEF RoundTypes
  <2>4. u \in TickStates
    BY <1>1, <2>1, <2>3, TickFacts DEF P!Idle, TickStates, Steps, P!Kinds
  <2>5. u.at = "conflict" /\ u.todo # <<>> /\ u.before = Len(evidence) /\ u.stored = Len(proposals)
        /\ u.began = hour
    BY <2>1, <2>3 DEF P!Idle
  <2>6. TickInv(u)
    BY <2>5, TickFacts, <1>1 DEF TickInv, Diligent, ReadBefore
  <2>7. QED BY <2>2, <2>3, <2>4, <2>6, TickMoves
\* A step that stores nothing.
<1>9. ASSUME NEW k \in Handlers, NEW u \in TickStates, P!Goto(k, u) \/ P!Failing(k, u),
             UNCHANGED <<hour, evidence, proposals, missed>>, TickInv(u)
      PROVE  RecommendingInv'
  BY <1>1, <1>9, RoundChanges, TickMoves DEF TickTypes
<1>10. ASSUME NEW k \in Handlers, NEW kind \in P!Kinds, NEW next,
              <<kind, next>> \in {<<"conflict", "incident">>, <<"incident", "isolation">>, <<"isolation", "proposals">>},
              P!ReadEvidence(k, kind, next)
       PROVE  RecommendingInv'
  <2>1. PICK t \in TickStates : t = tick[k] /\ TickInv(t) /\ t.at = kind
    BY <1>6, <1>10 DEF P!ReadEvidence, P!At
  <2>2. UNCHANGED <<hour, evidence, proposals, missed>>
    BY <1>10 DEF P!ReadEvidence
  <2>3. next \in {"incident", "isolation", "proposals"} /\ kind # "idle"
    BY <1>10
  <2>4. ASSUME NEW u, u = [t EXCEPT !.at = next, !.troubled = TRUE]
        PROVE  u \in TickStates /\ TickInv(u)
    BY <2>1, <2>3, <2>4 DEF TickStates, Steps, P!Kinds, TickInv
  <2>5. ASSUME NEW u, u = [t EXCEPT !.at = next, !.found = t.found \union
                                      P!Warranted(kind, Head(t.todo), Len(evidence))]
        PROVE  u \in TickStates /\ TickInv(u)
    <3>1. u \in TickStates
      <4>1. P!Warranted(kind, Head(t.todo), Len(evidence)) \subseteq Shapes
        BY DEF P!Warranted
      <4>2. t.found \union P!Warranted(kind, Head(t.todo), Len(evidence)) \in SUBSET Shapes
        BY <1>6, <2>1, <4>1
      <4>3. next \in Steps
        BY <2>3 DEF Steps, P!Kinds
      <4>4. QED BY <2>1, <2>5, <4>2, <4>3 DEF TickStates
    <3>2. /\ u.at = next /\ u.todo = t.todo /\ u.began = t.began /\ u.before = t.before
          /\ u.stored = t.stored /\ u.troubled = t.troubled
          /\ u.found = t.found \union P!Warranted(kind, Head(t.todo), Len(evidence))
      BY <2>1, <2>5 DEF TickStates
    <3>3. Len(evidence) \in Nat /\ t.before \in Nat /\ t.before <= Len(evidence)
      BY <1>1, <2>1, <2>3, TickFacts DEF TickStates, TickInv
    <3>4. P!Warranted(kind, Head(t.todo), t.before) \subseteq u.found
      BY <1>1, <3>2, <3>3, MoreWarranted
    <3>5. ReadBefore(next) = ReadBefore(kind) \union {kind}
      BY <1>10 DEF ReadBefore, P!Kinds
    <3>6. Diligent(t) => Diligent(u)
      BY <2>1, <2>3, <3>2, <3>4, <3>5 DEF Diligent
    <3>7. TickInv(u)
      BY <2>1, <2>3, <3>2, <3>6 DEF TickInv
    <3>8. QED BY <3>1, <3>7
  <2>6. (\E u : P!Failing(k, u) /\ u = [t EXCEPT !.at = next, !.troubled = TRUE])
        \/ \E u : P!Goto(k, u) /\ u = [t EXCEPT !.at = next, !.found = t.found \union
                                         P!Warranted(kind, Head(t.todo), Len(evidence))]
    BY <1>10, <2>1 DEF P!ReadEvidence, P!Tenant
  <2>7. QED BY <1>9, <2>2, <2>4, <2>5, <2>6
<1>11. ASSUME NEW k \in Handlers, P!Killed(k) PROVE RecommendingInv'
  BY <1>7, <1>9, <1>11 DEF P!Killed
<1>12. ASSUME NEW k \in Handlers, P!ReadProposals(k) PROVE RecommendingInv'
  <2>1. PICK t \in TickStates : t = tick[k] /\ TickInv(t) /\ t.at = "proposals"
    BY <1>6, <1>12 DEF P!ReadProposals, P!At
  <2>2. UNCHANGED <<hour, evidence, proposals, missed>>
    BY <1>12 DEF P!ReadProposals
  <2>3. ASSUME NEW u, u = [t EXCEPT !.at = "model", !.troubled = TRUE]
        PROVE  u \in TickStates /\ TickInv(u)
    BY <2>1, <2>3 DEF TickStates, Steps, P!Kinds, TickInv
  <2>4. ASSUME NEW u, u = [t EXCEPT !.at = "model", !.known = P!Recent(Head(t.todo))]
        PROVE  u \in TickStates /\ TickInv(u)
    <3>1. P!Recent(Head(t.todo)) \in SUBSET Shapes
      BY <1>1, TickFacts DEF P!Recent, Proposals
    <3>2. u \in TickStates
      BY <2>1, <2>4, <3>1 DEF TickStates, Steps
    <3>3. /\ u.at = "model" /\ u.todo = t.todo /\ u.began = t.began /\ u.before = t.before
          /\ u.stored = t.stored /\ u.troubled = t.troubled /\ u.found = t.found
          /\ u.known = P!Recent(Head(t.todo))
      BY <2>1, <2>4 DEF TickStates
    <3>4. \A s \in u.known : Proposed(u, s)
      <4>1. \A i \in DOMAIN proposals : proposals[i].time \in Nat
        BY <1>1, TickFacts DEF Proposals
      <4>2. u.began \in Nat /\ u.began <= hour /\ hour \in Nat /\ Memory \in Nat
        BY <1>1, <2>1, <3>2, <3>3, TickFacts DEF TickStates, TickInv
      <4>3. QED BY <3>3, <4>1, <4>2 DEF P!Recent, Proposed, Names
    <3>5. \A s : Known(u, s) => s \in u.known
      <4>1. u.stored \in Nat /\ u.stored <= Len(proposals) /\ Len(proposals) \in Nat /\ DOMAIN proposals = 1 .. Len(proposals)
        BY <1>1, <2>1, <3>2, <3>3, TickFacts DEF TickStates, TickInv
      <4>2. \A i \in 1 .. u.stored : i \in DOMAIN proposals
        BY <4>1
      <4>3. QED BY <3>3, <4>2 DEF Known, Names, P!Recent
    <3>6. Diligent(t) => Diligent(u)
      BY <2>1, <3>3, <3>4, <3>5 DEF Diligent, ReadBefore
    <3>7. TickInv(u)
      BY <2>1, <3>3, <3>6 DEF TickInv
    <3>8. QED BY <3>2, <3>7
  <2>5. (\E u : P!Failing(k, u) /\ u = [t EXCEPT !.at = "model", !.troubled = TRUE])
        \/ \E u : P!Goto(k, u) /\ u = [t EXCEPT !.at = "model", !.known = P!Recent(Head(t.todo))]
    BY <1>12, <2>1 DEF P!ReadProposals, P!Tenant
  <2>6. QED BY <1>9, <2>2, <2>3, <2>4, <2>5
<1>13. ASSUME NEW k \in Handlers, P!Conclude(k) PROVE RecommendingInv'
  <2>1. PICK t \in TickStates : t = tick[k] /\ TickInv(t) /\ t.at = "model"
    BY <1>6, <1>13 DEF P!Conclude, P!At
  <2>2. UNCHANGED <<hour, evidence, proposals, missed>>
    BY <1>13 DEF P!Conclude
  <2>3. ASSUME NEW u \in TickStates, u.at = "writing", u.todo = t.todo, u.began = t.began,
               u.before = t.before, u.stored = t.stored,
               u.troubled \/ (~t.troubled /\ u.raw = t.found \ t.known)
        PROVE  TickInv(u)
    <3>1. ASSUME ~u.troubled PROVE Diligent(u)
      <4>1. Diligent(t) /\ u.raw = t.found \ t.known
        BY <2>1, <2>3, <3>1 DEF TickInv
      <4>2. Due(u) \subseteq t.found
        BY <2>1, <2>3, <4>1 DEF Due, Diligent, ReadBefore
      <4>3. \A s : (Proposed(t, s) <=> Proposed(u, s)) /\ (Known(t, s) <=> Known(u, s))
        BY <2>3 DEF Proposed, Known, Names
      <4>4. QED BY <2>1, <2>3, <4>1, <4>2, <4>3 DEF Diligent, ReadBefore
    <3>2. QED BY <2>1, <2>3, <3>1 DEF TickInv
  <2>4. t.found \subseteq Shapes /\ t.troubled \in BOOLEAN
    BY DEF TickStates
  \* What Lists leaves as it is.
  <2>5. ASSUME NEW raw \in SUBSET (Shapes \union {Odd}), NEW u, u = P!Lists(k, raw)
        PROVE  /\ u \in TickStates /\ u.at = "writing" /\ u.todo = t.todo /\ u.began = t.began
               /\ u.before = t.before /\ u.stored = t.stored /\ u.raw = raw /\ u.troubled = t.troubled
    <3>1. PICK v : v = [t EXCEPT !.at = "writing", !.raw = raw]
      OBVIOUS
    <3>2. u = [v EXCEPT !.found = {}, !.known = {}]
      BY <2>1, <2>5, <3>1 DEF P!Lists
    <3>3. v \in TickStates
      BY <2>1, <3>1 DEF TickStates, Steps
    <3>4. /\ v.at = "writing" /\ v.todo = t.todo /\ v.began = t.began /\ v.before = t.before
          /\ v.stored = t.stored /\ v.raw = raw /\ v.troubled = t.troubled
      BY <2>1, <3>1 DEF TickStates
    <3>5. u \in TickStates
      BY <3>2, <3>3 DEF TickStates
    <3>6. /\ u.at = v.at /\ u.todo = v.todo /\ u.began = v.began /\ u.before = v.before
          /\ u.stored = v.stored /\ u.raw = v.raw /\ u.troubled = v.troubled
      BY <3>2, <3>3 DEF TickStates
    <3>7. QED BY <3>4, <3>5, <3>6
  <2>6. ASSUME NEW raw \in SUBSET (Shapes \union {Odd}), NEW u, u = [P!Lists(k, raw) EXCEPT !.troubled = TRUE]
        PROVE  /\ u \in TickStates /\ u.at = "writing" /\ u.todo = t.todo /\ u.began = t.began
               /\ u.before = t.before /\ u.stored = t.stored /\ u.troubled
    <3>1. PICK v : v = P!Lists(k, raw)
      OBVIOUS
    <3>2. /\ v \in TickStates /\ v.at = "writing" /\ v.todo = t.todo /\ v.began = t.began
          /\ v.before = t.before /\ v.stored = t.stored
      BY <2>5, <3>1
    <3>3. u = [v EXCEPT !.troubled = TRUE]
      BY <2>6, <3>1
    <3>4. QED BY <3>2, <3>3 DEF TickStates
  <2>7. CASE P!Goto(k, P!Lists(k, t.found \ t.known))
    <3>1. PICK u : u = P!Lists(k, t.found \ t.known) /\ P!Goto(k, u)
      BY <2>7
    <3>2. t.found \ t.known \in SUBSET (Shapes \union {Odd})
      BY <2>4
    <3>3. u \in TickStates /\ TickInv(u)
      BY <2>3, <2>4, <2>5, <3>1, <3>2
    <3>4. QED BY <1>9, <2>2, <3>1, <3>3
  <2>8. ASSUME t.troubled, NEW wild \in SUBSET Shapes, P!Goto(k, P!Lists(k, wild))
        PROVE  RecommendingInv'
    <3>1. PICK u : u = P!Lists(k, wild) /\ P!Goto(k, u)
      BY <2>8
    <3>2. wild \in SUBSET (Shapes \union {Odd})
      OBVIOUS
    <3>3. u \in TickStates /\ TickInv(u)
      BY <2>3, <2>5, <2>8, <3>1, <3>2
    <3>4. QED BY <1>9, <2>2, <3>1, <3>3
  <2>9. ASSUME NEW raw \in {{}, (t.found \ t.known) \union {Odd}}, P!Failing(k, [P!Lists(k, raw) EXCEPT !.troubled = TRUE])
        PROVE  RecommendingInv'
    <3>1. PICK u : u = [P!Lists(k, raw) EXCEPT !.troubled = TRUE] /\ P!Failing(k, u)
      BY <2>9
    <3>2. raw \in SUBSET (Shapes \union {Odd})
      BY <2>4
    <3>3. u \in TickStates /\ TickInv(u)
      BY <2>3, <2>6, <3>1, <3>2
    <3>4. QED BY <1>9, <2>2, <3>1, <3>3
  <2>10. QED BY <1>13, <2>1, <2>7, <2>8, <2>9 DEF P!Conclude
\* A proposal is stored, or may be.
<1>14. ASSUME NEW k \in Handlers, NEW s \in tick[k].raw \ {Odd}, tick[k].at = "writing",
              NEW troubled \in BOOLEAN, tick[k].troubled => troubled,
              NEW u \in TickStates, u.at = "writing", u.todo = tick[k].todo, u.began = tick[k].began,
              u.before = tick[k].before, u.stored = tick[k].stored, u.raw = tick[k].raw \ {s},
              u.troubled = troubled,
              P!Goto(k, u) \/ P!Failing(k, u), UNCHANGED <<hour, evidence, missed>>,
              proposals' = P!Stored(k, s) \/ (UNCHANGED proposals /\ troubled)
       PROVE  RecommendingInv'
  <2>1. PICK t \in TickStates : t = tick[k] /\ TickInv(t) /\ t.at = "writing"
    BY <1>6, <1>14
  <2>2. /\ t.todo \in Seq(Tenants) /\ t.todo # <<>> /\ t.began \in Nat /\ t.began <= hour /\ t.stored \in Nat
        /\ t.stored <= Len(proposals) /\ s \in Shapes /\ hour \in Nat /\ Memory \in Nat /\ t.troubled \in BOOLEAN
    BY <1>1, <1>14, <2>1, TickFacts DEF TickInv, TickStates
  <2>3. PICK p : p = [tenant |-> Head(t.todo), shape |-> s, time |-> hour, known |-> t.stored, troubled |-> t.troubled]
    OBVIOUS
  <2>4. p \in Proposals
    BY <2>2, <2>3 DEF Proposals
  <2>5. proposals' = Append(proposals, p) \/ (UNCHANGED proposals /\ troubled)
    BY <1>14, <2>1, <2>3 DEF P!Stored, P!Tenant
  <2>6. Novel(p)
    <3>1. SUFFICES ASSUME NEW i \in DOMAIN proposals, ~t.troubled, p.tenant = proposals[i].tenant,
                          p.shape = proposals[i].shape, p.time <= proposals[i].time + Memory, ~(t.stored < i)
                   PROVE  FALSE
      BY <2>3 DEF Novel
    <3>2. i \in 1 .. t.stored /\ Names(i, t, s, hour)
      BY <1>1, <2>2, <2>3, <3>1, TickFacts DEF Names
    <3>3. Known(t, s) /\ Diligent(t)
      BY <2>1, <3>1, <3>2 DEF Known, TickInv
    <3>4. QED BY <1>14, <2>1, <2>2, <3>3 DEF Diligent
  <2>8. /\ u.at = "writing" /\ u.todo = t.todo /\ u.began = t.began /\ u.before = t.before
        /\ u.stored = t.stored /\ u.troubled = troubled /\ u.raw = t.raw \ {s}
    BY <1>14, <2>1 DEF TickStates
  <2>9. ASSUME TickTypes', Grown PROVE TickInv(u)'
    <3>1. TickInv(t)'
      BY <1>1, <2>1, <2>9, TickStays
    <3>2. CASE troubled
      BY <2>1, <2>8, <3>1, <3>2 DEF TickInv
    <3>3. CASE ~troubled
      <4>1. ~t.troubled /\ proposals' = Append(proposals, p) /\ Diligent(t)'
        BY <1>14, <2>1, <2>5, <3>1, <3>3 DEF TickInv
      <4>2. Proposed(u, s)'
        <5>1. /\ Len(proposals) + 1 \in DOMAIN proposals' /\ proposals'[Len(proposals) + 1] = p
          BY <1>1, <2>4, <4>1, AppendFacts DEF TickTypes
        <5>2. hour + Memory >= u.began
          BY <2>2, <2>8
        <5>3. QED BY <2>3, <2>8, <5>1, <5>2 DEF Proposed, Names
      <4>3. /\ \A x : (Proposed(t, x)' <=> Proposed(u, x)') /\ (Known(t, x)' <=> Known(u, x)')
            /\ Due(u)' = Due(t)'
        BY <2>8 DEF Proposed, Known, Names, Due
      <4>4. Diligent(u)'
        BY <2>1, <2>8, <4>1, <4>2, <4>3 DEF Diligent, ReadBefore
      <4>5. QED BY <2>1, <2>8, <3>1, <4>4 DEF TickInv
    <3>4. QED BY <3>2, <3>3
  <2>10. rounds' \in RoundTypes /\ tick' = [tick EXCEPT ![k] = u]
    BY <1>1, <1>14, RoundChanges DEF TickTypes
  <2>11. QED BY <1>14, <2>4, <2>5, <2>6, <2>9, <2>10, TickChanges
<1>15. ASSUME NEW k \in Handlers, P!WriteProposal(k) PROVE RecommendingInv'
  <2>1. PICK s \in tick[k].raw \ {Odd} :
          proposals' = P!Stored(k, s) /\ P!Goto(k, [tick[k] EXCEPT !.raw = tick[k].raw \ {s}])
    BY <1>15 DEF P!WriteProposal
  <2>2. tick[k].at = "writing" /\ UNCHANGED <<hour, evidence, missed>>
    BY <1>15 DEF P!WriteProposal, P!At
  <2>3. PICK u : u = [tick[k] EXCEPT !.raw = tick[k].raw \ {s}] /\ P!Goto(k, u)
    BY <2>1
  <2>4. /\ u \in TickStates /\ u.at = "writing" /\ u.todo = tick[k].todo /\ u.began = tick[k].began
        /\ u.before = tick[k].before /\ u.stored = tick[k].stored /\ u.raw = tick[k].raw \ {s}
        /\ u.troubled = tick[k].troubled /\ u.troubled \in BOOLEAN
    BY <1>6, <2>2, <2>3 DEF TickStates
  <2>5. QED BY <1>14, <2>1, <2>2, <2>3, <2>4
<1>16. ASSUME NEW k \in Handlers, P!WriteRaises(k) PROVE RecommendingInv'
  <2>1. tick[k].at = "writing" /\ UNCHANGED <<hour, evidence, missed>>
    BY <1>16, Zenon DEF P!WriteRaises, P!At
  <2>2. ASSUME P!Goto(k, [tick[k] EXCEPT !.raw = tick[k].raw \ {Odd}]), UNCHANGED proposals
        PROVE  RecommendingInv'
    <3>1. PICK t \in TickStates : t = tick[k] /\ TickInv(t) /\ t.at = "writing"
      BY <1>6, <2>1
    <3>2. PICK u : u = [t EXCEPT !.raw = t.raw \ {Odd}] /\ P!Goto(k, u)
      BY <2>2, <3>1
    <3>3. u \in TickStates
      BY <3>1, <3>2 DEF TickStates
    <3>4. /\ u.at = "writing" /\ u.todo = t.todo /\ u.began = t.began /\ u.before = t.before
          /\ u.stored = t.stored /\ u.troubled = t.troubled /\ u.raw = t.raw \ {Odd}
      BY <3>1, <3>2 DEF TickStates
    <3>5. /\ \A x : (Proposed(t, x) <=> Proposed(u, x)) /\ (Known(t, x) <=> Known(u, x))
          /\ Due(u) = Due(t)
      BY <3>4 DEF Proposed, Known, Names, Due
    <3>6. Odd \notin Shapes
      BY DEF P!RecommendingAssumption
    <3>7. Diligent(t) => Diligent(u)
      BY <3>1, <3>4, <3>5, <3>6 DEF Diligent, ReadBefore
    <3>8. TickInv(u)
      BY <3>1, <3>4, <3>7 DEF TickInv
    <3>9. QED BY <1>9, <2>1, <2>2, <3>2, <3>3, <3>8
  <2>3. ASSUME NEW s \in tick[k].raw \ {Odd},
               P!Failing(k, [tick[k] EXCEPT !.raw = tick[k].raw \ {s}, !.troubled = TRUE]),
               proposals' \in {proposals, P!Stored(k, s)}
        PROVE  RecommendingInv'
    <3>1. PICK u : /\ u = [tick[k] EXCEPT !.raw = tick[k].raw \ {s}, !.troubled = TRUE]
                   /\ P!Failing(k, u)
      BY <2>3
    <3>2. /\ u \in TickStates /\ u.at = "writing" /\ u.todo = tick[k].todo /\ u.began = tick[k].began
          /\ u.before = tick[k].before /\ u.stored = tick[k].stored /\ u.raw = tick[k].raw \ {s}
          /\ u.troubled = TRUE
      BY <1>6, <2>1, <3>1 DEF TickStates
    <3>3. proposals' = P!Stored(k, s) \/ UNCHANGED proposals
      BY <2>3, Zenon
    <3>4. QED BY <1>14, <2>1, <3>1, <3>2, <3>3
  <2>4. QED BY <1>16, <2>2, <2>3, Zenon DEF P!WriteRaises
\* A tenant is done: an untroubled tick has nothing due that is not proposed.
<1>17. ASSUME NEW k \in Handlers, P!NextTenant(k) PROVE RecommendingInv'
  <2>1. PICK t \in TickStates : t = tick[k] /\ TickInv(t) /\ t.at = "writing"
    BY <1>6, <1>17 DEF P!NextTenant, P!At
  <2>2. t.raw = {} /\ UNCHANGED <<hour, evidence, proposals>>
    BY <1>17, <2>1 DEF P!NextTenant
  <2>3. ASSUME ~t.troubled PROVE P!Unproposed(k) = {}
    <3>1. SUFFICES ASSUME NEW s \in Due(t), ~Proposed(t, s) PROVE FALSE
      BY <2>1 DEF P!Unproposed, Due, Proposed, Names, P!Tenant
    <3>2. s \in Shapes
      BY <3>1 DEF Due, P!Warranted
    <3>3. QED BY <2>1, <2>2, <2>3, <3>1, <3>2 DEF TickInv, Diligent
  <2>4. UNCHANGED missed
    <3>1. CASE t.troubled
      BY <1>17, <2>1, <3>1 DEF P!NextTenant
    <3>2. CASE ~t.troubled
      <4>1. missed' = missed \union (P!Unproposed(k) \X {P!Tenant(k)})
        BY <1>17, <2>1, <3>2 DEF P!NextTenant
      <4>2. QED BY <2>3, <3>2, <4>1
    <3>3. QED BY <3>1, <3>2
  <2>5. t.todo \in Seq(Tenants) /\ t.todo # <<>> /\ t.began <= hour
        /\ t.before <= Len(evidence) /\ t.stored <= Len(proposals)
    BY <2>1 DEF TickStates, TickInv
  <2>6. CASE Len(t.todo) = 1
    <3>1. P!Goto(k, P!Idle)
      BY <1>17, <2>1, <2>6 DEF P!NextTenant
    <3>2. QED BY <1>7, <1>9, <2>2, <2>4, <3>1
  <2>7. CASE Len(t.todo) # 1
    <3>1. PICK u : /\ u = [t EXCEPT !.at = "conflict", !.todo = Tail(t.todo), !.troubled = FALSE]
                   /\ P!Goto(k, u)
      BY <1>17, <2>1, <2>7 DEF P!NextTenant
    <3>2. Tail(t.todo) \in Seq(Tenants) /\ Tail(t.todo) # <<>>
      <4>1. PICK todo \in Seq(Tenants) : todo = t.todo /\ todo # <<>> /\ Len(todo) # 1
        BY <2>5, <2>7
      <4>2. Len(Tail(todo)) = Len(todo) - 1 /\ Len(todo) \in Nat /\ Len(todo) # 0 /\ Tail(todo) \in Seq(Tenants)
        BY <4>1
      <4>3. Len(Tail(todo)) # 0
        BY <4>1, <4>2
      <4>4. Len(<<>>) = 0
        OBVIOUS
      <4>5. Tail(todo) # <<>>
        BY <4>3, <4>4, Zenon
      <4>6. QED BY <4>1, <4>2, <4>5, Zenon
    <3>3. u \in TickStates
      BY <2>1, <3>1, <3>2 DEF TickStates, Steps, P!Kinds
    <3>4. /\ u.at = "conflict" /\ u.todo = Tail(t.todo) /\ u.began = t.began
          /\ u.before = t.before /\ u.stored = t.stored
      BY <2>1, <3>1 DEF TickStates
    <3>5. TickInv(u)
      BY <2>5, <3>2, <3>4 DEF TickInv, Diligent, ReadBefore
    <3>6. QED BY <1>9, <2>2, <2>4, <3>1, <3>3, <3>5
  <2>8. QED BY <2>6, <2>7
<1>18. P!Kinds = {"conflict", "incident", "isolation"}
  BY DEF P!Kinds
<1>19. CASE P!Next
  BY <1>4, <1>5, <1>8, <1>10, <1>11, <1>12, <1>13, <1>15, <1>16, <1>17, <1>18, <1>19 DEF P!Next
<1>20. QED BY <1>3, <1>19

LEMMA RecommendingInvariant == StoresSpec => []RecommendingInv
<1>1. P!RecommendingAssumption
  BY StoresAssumption
<1>2. StoresInit => RecommendingInv
  <2>1. SUFFICES ASSUME P!Init PROVE RecommendingInv
    BY DEF StoresInit
  <2>2. P!Idle \in TickStates /\ TickInv(P!Idle)
    BY DEF P!Idle, TickStates, Steps, TickInv
  <2>3. rounds \in RoundTypes
    BY <1>1, <2>1 DEF P!Init, P!RecommendingAssumption, RoundTypes
  <2>4. TickTypes /\ \A k \in Handlers : TickInv(tick[k])
    BY <2>1, <2>2, <2>3 DEF P!Init, TickTypes
  <2>5. QED BY <2>1, <2>4 DEF P!Init, RecommendingInv, ProposalsInv
<1>3. RecommendingInv /\ [StoresNext]_storesVars => RecommendingInv'
  <2>1. SUFFICES ASSUME RecommendingInv, [StoresNext]_storesVars PROVE RecommendingInv'
    OBVIOUS
  <2>2. [P!Next]_tickVars
    BY <2>1, LimitsStep
  <2>3. QED BY <1>1, <2>1, <2>2, RecommendingStep
<1>4. QED BY <1>2, <1>3, PTL DEF StoresSpec

(***************************************************************************)
(* "Do NOT propose the same change that was already proposed recently": a  *)
(* pattern is proposed again within the memory only by a tick that was     *)
(* already running when the earlier proposal was stored, or after a        *)
(* failure, and a tick that met no failure leaves no pattern unproposed    *)
(* that was there from its start to its end; for all reports, memories,    *)
(* numbers of overlapping ticks, tenants and failures.                     *)
(***************************************************************************)
THEOREM PatternsProposedOnce == StoresSpec => []ProposedOnce
<1>1. RecommendingInv => ProposedOnce
  BY DEF RecommendingInv, ProposalsInv, ProposedOnce, P!ProposedOnce
<1>2. QED BY <1>1, RecommendingInvariant, PTL
=============================================================================
