------------------------------ MODULE SingleUse ------------------------------
(***************************************************************************)
(* How often, and until when, one signed agent proof lets an action happen *)
(* on a protected resource.  The gateway accepts a proof while it is fresh *)
(* and not in its replay cache (verify_agent_proof of gateway/identity.py) *)
(* and issues a token; the resource admits a token while it is valid and   *)
(* not in its own replay cache (gateway/middleware.py).  Both caches live  *)
(* in memory and forget what they take for expired.                        *)
(*                                                                         *)
(* One agent, one gateway process and one resource process, on one clock   *)
(* of whole seconds.  What PyJWT checks is taken from its documentation.   *)
(***************************************************************************)
EXTENDS Naturals

CONSTANTS
  Proofs,   \* proofs signed by the agent; each has a jti of its own
  MaxAge,   \* _PROOF_MAX_AGE
  TTL,      \* DEFAULT_TTL_SECONDS
  Skew,     \* CLOCK_SKEW_SECONDS
  MaxTime   \* bound: the clock

ASSUME SingleUseAssumption ==
  /\ MaxAge \in Nat
  /\ TTL \in Nat
  /\ Skew \in Nat
  /\ MaxTime \in Nat

VARIABLES
  now,         \* time.time()
  iat,         \* the issue time each proof claims
  registered,  \* whether the agent is in the registry
  revokedAt,   \* when it was last removed from it
  proofCache,  \* _proof_jti_cache: expiry by proof; 0 if absent
  authorized,  \* how often each proof was accepted
  tokens,      \* issued tokens
  jtiCache,    \* _jti_cache: entries of token and expiry
  admitted     \* how many actions each proof led to

vars == <<now, iat, registered, revokedAt, proofCache, authorized, tokens, jtiCache, admitted>>

Token == [proof : Proofs, n : Nat, exp : Nat]

Init ==
  /\ now = 1
  /\ iat \in [Proofs -> 0 .. MaxTime]
  /\ registered = TRUE
  /\ revokedAt = 0
  /\ proofCache = [p \in Proofs |-> 0]
  /\ authorized = [p \in Proofs |-> 0]
  /\ tokens = {}
  /\ jtiCache = {}
  /\ admitted = [p \in Proofs |-> 0]

Tick ==
  /\ now < MaxTime
  /\ now' = now + 1
  /\ UNCHANGED <<iat, registered, revokedAt, proofCache, authorized, tokens, jtiCache, admitted>>

Register ==
  /\ ~registered
  /\ registered' = TRUE
  /\ UNCHANGED <<now, iat, revokedAt, proofCache, authorized, tokens, jtiCache, admitted>>

Revoke ==
  /\ registered
  /\ registered' = FALSE
  /\ revokedAt' = now
  /\ UNCHANGED <<now, iat, proofCache, authorized, tokens, jtiCache, admitted>>

-----------------------------------------------------------------------------
(* The gateway.                                                            *)

\* Faulty variant: the age check allows for clock skew, the cache does not.
FreshWithSkew(p) == iat[p] <= now /\ now <= iat[p] + MaxAge + Skew

\* PyJWT refuses an issue time in the future; the gateway an old one.
Fresh(p) == iat[p] <= now /\ now <= iat[p] + MaxAge

\* Faulty variant: an entry is dropped in its last second.
ForgetTooEarly(cache) ==
  [p \in Proofs |-> IF cache[p] <= now THEN 0 ELSE cache[p]]

\* The clean-up that follows every accepted proof: v < now.
Forget(cache) ==
  [p \in Proofs |-> IF cache[p] < now THEN 0 ELSE cache[p]]

\* Faulty variant: the registry is not consulted.
AuthorizeAnyone(p) ==
  /\ Fresh(p)
  /\ proofCache[p] = 0
  /\ proofCache' = Forget([proofCache EXCEPT ![p] = now + MaxAge])
  /\ authorized' = [authorized EXCEPT ![p] = @ + 1]
  /\ tokens' = tokens \union {[proof |-> p, n |-> authorized[p] + 1, exp |-> now + TTL]}
  /\ UNCHANGED <<now, iat, registered, revokedAt, jtiCache, admitted>>

\* The agent is registered, the proof is fresh and not in the cache; the
\* policy approves and a token with a fresh jti is issued.
Authorize(p) ==
  /\ registered
  /\ Fresh(p)
  /\ proofCache[p] = 0
  /\ proofCache' = Forget([proofCache EXCEPT ![p] = now + MaxAge])
  /\ authorized' = [authorized EXCEPT ![p] = @ + 1]
  /\ tokens' = tokens \union {[proof |-> p, n |-> authorized[p] + 1, exp |-> now + TTL]}
  /\ UNCHANGED <<now, iat, registered, revokedAt, jtiCache, admitted>>

\* The policy denies: the proof is used up all the same.
Deny(p) ==
  /\ registered
  /\ Fresh(p)
  /\ proofCache[p] = 0
  /\ proofCache' = Forget([proofCache EXCEPT ![p] = now + MaxAge])
  /\ authorized' = [authorized EXCEPT ![p] = @ + 1]
  /\ UNCHANGED <<now, iat, registered, revokedAt, tokens, jtiCache, admitted>>

-----------------------------------------------------------------------------
(* The protected resource.                                                 *)

\* Faulty variant: an entry expires with its token, leeway left out.
EntryWithoutSkew(t) == [token |-> t, until |-> t.exp]

\* What the cache remembers of a token.
Entry(t) == [token |-> t, until |-> t.exp + Skew]

\* _clean_jti_cache runs before the look-up and drops exp < now.
Remembered == {e \in jtiCache : e.until >= now}

\* A token is presented.  PyJWT admits it while exp > now - leeway.  It is
\* entered in the cache before its action and resource are compared with
\* those of the endpoint, so a mismatch uses it up as well.
Present(t) ==
  /\ t.exp + Skew > now
  /\ \A e \in Remembered : e.token # t
  /\ jtiCache' = Remembered \union {Entry(t)}
  /\ \/ admitted' = [admitted EXCEPT ![t.proof] = @ + 1]
     \/ UNCHANGED admitted
  /\ UNCHANGED <<now, iat, registered, revokedAt, proofCache, authorized, tokens>>

Next ==
  \/ Tick
  \/ Register
  \/ Revoke
  \/ \E p \in Proofs : Authorize(p) \/ Deny(p)
  \/ \E t \in tokens : Present(t)

Spec == Init /\ [][Next]_vars

-----------------------------------------------------------------------------
(* Properties.                                                             *)

TypeOK ==
  /\ now \in Nat
  /\ iat \in [Proofs -> Nat]
  /\ registered \in BOOLEAN
  /\ revokedAt \in Nat
  /\ proofCache \in [Proofs -> Nat]
  /\ authorized \in [Proofs -> Nat]
  /\ tokens \in SUBSET Token
  /\ jtiCache \in SUBSET [token : tokens, until : Nat]
  /\ admitted \in [Proofs -> Nat]

\* A proof is accepted at most once: its cache entry is dropped only when
\* the proof is too old, to the second, for however long other proofs come.
ProofUsedOnce == \A p \in Proofs : authorized[p] <= 1

\* A proof leads to at most one action on the resource, whatever is
\* presented again and in whichever order the caches are cleaned.
ActionOnce == \A p \in Proofs : admitted[p] <= 1

\* An action happens within MaxAge + TTL + Skew of the proof behind it.
ActionTimely ==
  [][\A p \in Proofs : admitted'[p] # admitted[p] => now < iat[p] + MaxAge + TTL + Skew]_vars

\* Revoking an agent ends its actions within TTL + Skew: the resource never
\* asks the registry, so tokens issued before keep working that long.
RevocationTakesEffect ==
  [][\A p \in Proofs :
       admitted'[p] # admitted[p] /\ ~registered => now < revokedAt + TTL + Skew]_vars
=============================================================================
