-------------------------------- MODULE Agents --------------------------------
(***************************************************************************)
(* One agent in the REST service: registration by proof of possession or   *)
(* by card (gateway/api.py), its entry in the registry and the document    *)
(* behind it (AgentRegistry, gateway/identity.py), and its liveness record *)
(* under periodic and manual challenges (gateway/liveness.py).             *)
(*                                                                         *)
(* A handler awaits the agent's card and callback between reading and      *)
(* writing this state; registry writes block the event loop, so each is    *)
(* part of the step that makes it.  Time is abstract: a challenge expires  *)
(* and a verification grows old by steps of their own.  Liveness documents *)
(* are written and never read, and left out.                               *)
(***************************************************************************)
EXTENDS Naturals, FiniteSets

CONSTANTS
  Registrations,  \* registration requests; each is sent once
  Nonces,         \* registration challenges
  Keys,           \* public keys of the agent
  NoKey,          \* no registration
  Capacity,       \* _CHALLENGE_DICT_MAX
  Faults          \* the faults this instance admits

ASSUME AgentsAssumption ==
  /\ NoKey \notin Keys
  /\ Capacity \in Nat
  /\ Faults \subseteq {"write_error", "read_error"}

VARIABLES
  up,           \* whether the service runs
  challenge,    \* RegistrationChallengeCache: what became of each nonce
  reg,          \* the handler of each registration request
  agent,        \* AgentRegistry._agents: the registered key
  doc,          \* the agent's document in Firestore
  record,       \* LivenessManager._records: the agent's liveness record
  check,        \* the periodic sweep and the manual check
  spent,        \* history: registrations each nonce has led to
  latest,       \* history: the key the last answered operation left registered
  failedWrite,  \* history: whether a registry write failed
  hydrated      \* whether the registry was read at the last start

vars == <<up, challenge, reg, agent, doc, record, check, spent, latest, failedWrite, hydrated>>

AnyKey == Keys \union {NoKey}
Checkers == {"sweep", "manual"}

\* consecutive_failures up to three, which decides the state (two: STALE,
\* three: SUSPENDED), and liveness_verified_at against the interval.
Record == [url : BOOLEAN, fails : 0 .. 3, verified : {"never", "fresh", "old"}]
NoRecord == [url |-> FALSE, fails |-> 0, verified |-> "none"]

NewRequest == [pc |-> "idle", key |-> NoKey, url |-> FALSE, byUrl |-> FALSE]
NoCheck == [pc |-> "idle", key |-> NoKey, current |-> FALSE]

Init ==
  /\ up = FALSE
  /\ challenge = [n \in Nonces |-> "unissued"]
  /\ reg = [r \in Registrations |-> NewRequest]
  /\ agent = NoKey
  /\ doc = [status |-> "none", key |-> NoKey, url |-> FALSE]
  /\ record = NoRecord
  /\ check = [c \in Checkers |-> NoCheck]
  /\ spent = [n \in Nonces |-> 0]
  /\ latest = NoKey
  /\ failedWrite = FALSE
  /\ hydrated = FALSE

-----------------------------------------------------------------------------
(* The process.                                                            *)

\* Faulty variant: revoked documents are loaded as well.
HydratedAnyStatus == doc.key

\* load_all: the document's key, unless it is marked as revoked.
Hydrated == IF doc.status = "active" THEN doc.key ELSE NoKey

\* A failed read is logged and leaves the registry empty.
Start ==
  /\ ~up
  /\ up' = TRUE
  /\ \/ agent' = Hydrated /\ hydrated' = TRUE
     \/ "read_error" \in Faults /\ agent' = NoKey /\ hydrated' = FALSE
  /\ UNCHANGED <<challenge, reg, doc, record, check, spent, latest, failedWrite>>

\* The process ends, in good order or not; only the document remains.
Stop ==
  /\ up
  /\ up' = FALSE
  /\ challenge' = [n \in Nonces |-> IF challenge[n] = "unissued" THEN "unissued" ELSE "gone"]
  /\ reg' = [r \in Registrations |-> IF reg[r].pc = "verifying"
                                     THEN [reg[r] EXCEPT !.pc = "done"] ELSE reg[r]]
  /\ agent' = NoKey
  /\ record' = NoRecord
  /\ check' = [c \in Checkers |-> NoCheck]
  /\ UNCHANGED <<doc, spent, latest, failedWrite, hydrated>>

-----------------------------------------------------------------------------
(* Registration challenges.                                                *)

Cached == {n \in Nonces : challenge[n] \in {"active", "expired"}}

\* _gc, which issue and consume call: expired entries leave the cache.
Collected == [n \in Nonces |-> IF challenge[n] = "expired" THEN "gone" ELSE challenge[n]]

\* Room is checked before issue() collects what has expired.  The limit per
\* client address refuses some requests and changes nothing else.
IssueChallenge(n) ==
  /\ up
  /\ Cardinality(Cached) < Capacity
  /\ challenge[n] = "unissued"
  /\ challenge' = [Collected EXCEPT ![n] = "active"]
  /\ UNCHANGED <<up, reg, agent, doc, record, check, spent, latest, failedWrite, hydrated>>

Expire(n) ==
  /\ challenge[n] = "active"
  /\ challenge' = [challenge EXCEPT ![n] = "expired"]
  /\ UNCHANGED <<up, reg, agent, doc, record, check, spent, latest, failedWrite, hydrated>>

-----------------------------------------------------------------------------
(* Registration.                                                           *)

\* Faulty variant: the challenge stays until the registration completes.
ConsumedLater(n) == Collected

\* consume: the entry goes whatever becomes of the registration.
Consumed(n) == [Collected EXCEPT ![n] = IF @ = "active" THEN "gone" ELSE @]

\* register_agent up to its first await.  The proof names a challenge; it is
\* refused unless the challenge is active, and also, with the challenge used
\* up, if the signature does not verify.  A malformed or old proof is refused
\* before anything changes, and left out.
BeginRegistration(r, n, key, url) ==
  /\ up
  /\ reg[r].pc = "idle"
  /\ challenge' = Consumed(n)
  /\ \/ /\ challenge[n] = "active"
        /\ reg' = [reg EXCEPT ![r] = [pc |-> "verifying", key |-> key, url |-> url, byUrl |-> FALSE]]
        /\ spent' = [spent EXCEPT ![n] = @ + 1]
     \/ /\ reg' = [reg EXCEPT ![r].pc = "done"]
        /\ UNCHANGED spent
  /\ UNCHANGED <<up, agent, doc, record, check, latest, failedWrite, hydrated>>

\* register_agent_by_url: the card is fetched; its key is to be challenged.
BeginByUrl(r, key) ==
  /\ up
  /\ reg[r].pc = "idle"
  /\ reg' = [reg EXCEPT ![r] = [pc |-> "verifying", key |-> key, url |-> TRUE, byUrl |-> TRUE]]
  /\ UNCHANGED <<up, challenge, agent, doc, record, check, spent, latest, failedWrite, hydrated>>

\* The card cannot be fetched, or the key it names fails its challenge; also an
\* exception, as below.
ByUrlRefused(r) ==
  /\ up
  /\ reg[r].pc = "verifying"
  /\ reg[r].byUrl
  /\ reg' = [reg EXCEPT ![r].pc = "done"]
  /\ UNCHANGED <<up, challenge, agent, doc, record, check, spent, latest, failedWrite, hydrated>>

\* A card or a callback that answers JSON which is no object raises: the request
\* is answered 500, with its challenge used up and nothing registered.
RegistrationRaises(r) ==
  /\ up
  /\ reg[r].pc = "verifying"
  /\ ~reg[r].byUrl
  /\ reg' = [reg EXCEPT ![r].pc = "done"]
  /\ UNCHANGED <<up, challenge, agent, doc, record, check, spent, latest, failedWrite, hydrated>>

Succeed(rec) == [url |-> rec.url, fails |-> 0, verified |-> "fresh"]
Fail(rec) == [rec EXCEPT !.fails = IF @ = 3 THEN 3 ELSE @ + 1]
NewRecord(url) == [url |-> url, fails |-> 0, verified |-> "never"]

\* Faulty variant: every registration makes a new record.
SeedAnew(url) == NewRecord(url)

\* get_or_create: an existing record is kept, and its callback URL unless
\* another is given.
Seed(url) ==
  IF record = NoRecord THEN NewRecord(url) ELSE [record EXCEPT !.url = @ \/ url]

\* _persist; a failed write is logged.
Persist(key, url) ==
  \/ /\ doc' = [status |-> "active", key |-> key, url |-> url]
     /\ UNCHANGED failedWrite
  \/ /\ "write_error" \in Faults
     /\ failedWrite' = TRUE
     /\ UNCHANGED doc

\* The card and the callback have answered: the key replaces the registered
\* one, and the callback's answer, if there is a callback, is recorded.
CompleteRegistration(r, verified) ==
  LET key == reg[r].key
      url == reg[r].url
  IN /\ up
     /\ reg[r].pc = "verifying"
     /\ verified => url
     /\ reg[r].byUrl => verified
     /\ reg' = [reg EXCEPT ![r].pc = "done"]
     /\ agent' = key
     /\ latest' = key
     /\ Persist(key, url)
     /\ record' = IF verified THEN Succeed(Seed(url))
                  ELSE IF url THEN Fail(Seed(url))
                  ELSE Seed(url)
     /\ UNCHANGED <<up, challenge, check, spent, hydrated>>

\* The soft delete; there may be no document to update.
RevokedDoc == IF doc.status = "none" THEN doc ELSE [doc EXCEPT !.status = "revoked"]

\* delete_agent; a failed soft delete is logged.  A check that waits for its
\* answer keeps the record it began with, which is no longer in use.
Delete ==
  /\ up
  /\ agent # NoKey
  /\ agent' = NoKey
  /\ latest' = NoKey
  /\ \/ doc' = RevokedDoc /\ UNCHANGED failedWrite
     \/ "write_error" \in Faults /\ failedWrite' = TRUE /\ UNCHANGED doc
  /\ record' = NoRecord
  /\ check' = [c \in Checkers |-> [check[c] EXCEPT !.current = FALSE]]
  /\ UNCHANGED <<up, challenge, reg, spent, hydrated>>

-----------------------------------------------------------------------------
(* Continuous attestation.                                                 *)

\* The last successful check falls behind by more than the interval.
GrowOld ==
  /\ record.verified = "fresh"
  /\ record' = [record EXCEPT !.verified = "old"]
  /\ UNCHANGED <<up, challenge, reg, agent, doc, check, spent, latest, failedWrite, hydrated>>

\* Faulty variant: only agents that were never verified are checked.
NeedsFirstCheck == record.url /\ record.verified = "never"

\* agents_needing_check.
NeedsCheck == record.url /\ record.verified \in {"never", "old"}

\* A sweep lists the records to check.
SweepPick ==
  /\ up
  /\ check["sweep"].pc = "idle"
  /\ NeedsCheck
  /\ check' = [check EXCEPT !["sweep"].pc = "picked"]
  /\ UNCHANGED <<up, challenge, reg, agent, doc, record, spent, latest, failedWrite, hydrated>>

\* After awaiting the agents before this one, the sweep looks its key and its
\* record up and sends the challenge.
SweepAsk ==
  /\ check["sweep"].pc = "picked"
  /\ check' = [check EXCEPT !["sweep"] =
       IF agent = NoKey \/ ~record.url THEN NoCheck
       ELSE [pc |-> "asking", key |-> agent, current |-> TRUE]]
  /\ UNCHANGED <<up, challenge, reg, agent, doc, record, spent, latest, failedWrite, hydrated>>

\* An agent before this one answers JSON that is no object: its check raises,
\* and so the sweep ends and asks nobody after it, until the next interval.
SweepCut ==
  /\ check["sweep"].pc = "picked"
  /\ check' = [check EXCEPT !["sweep"] = NoCheck]
  /\ UNCHANGED <<up, challenge, reg, agent, doc, record, spent, latest, failedWrite, hydrated>>

\* check_agent_liveness.  A record lost in a restart is made again from the
\* callback URL in the document.
ManualAsk ==
  /\ up
  /\ check["manual"].pc = "idle"
  /\ agent # NoKey
  /\ \/ record.url /\ UNCHANGED record
     \/ record = NoRecord /\ doc.url /\ record' = NewRecord(TRUE)
  /\ check' = [check EXCEPT !["manual"] = [pc |-> "asking", key |-> agent, current |-> TRUE]]
  /\ UNCHANGED <<up, challenge, reg, agent, doc, spent, latest, failedWrite, hydrated>>

\* The callback has answered, wrongly, or not in time.
CheckAnswered(c, verified) ==
  /\ check[c].pc = "asking"
  /\ check' = [check EXCEPT ![c] = NoCheck]
  /\ record' = IF ~check[c].current THEN record
               ELSE IF verified THEN Succeed(record) ELSE Fail(record)
  /\ UNCHANGED <<up, challenge, reg, agent, doc, spent, latest, failedWrite, hydrated>>

\* This agent answers JSON that is no object: the check raises and its outcome
\* is recorded nowhere, not even as a failure.
CheckRaises(c) ==
  /\ check[c].pc = "asking"
  /\ check' = [check EXCEPT ![c] = NoCheck]
  /\ UNCHANGED <<up, challenge, reg, agent, doc, record, spent, latest, failedWrite, hydrated>>

Next ==
  \/ Start \/ Stop \/ Delete \/ GrowOld \/ SweepPick \/ SweepAsk \/ SweepCut
  \/ ManualAsk
  \/ \E n \in Nonces : IssueChallenge(n) \/ Expire(n)
  \/ \E r \in Registrations, key \in Keys :
       \/ BeginByUrl(r, key)
       \/ \E n \in Nonces, url \in BOOLEAN : BeginRegistration(r, n, key, url)
  \/ \E r \in Registrations :
       \/ ByUrlRefused(r) \/ RegistrationRaises(r)
       \/ \E verified \in BOOLEAN : CompleteRegistration(r, verified)
  \/ \E c \in Checkers : CheckRaises(c) \/ \E verified \in BOOLEAN : CheckAnswered(c, verified)

Spec == Init /\ [][Next]_vars

\* The sweep loop runs for as long as the process does: an error ends a sweep,
\* not the loop.  A callback answers or times out after five seconds.  That a
\* sweep gets to this agent is not assumed: an earlier one may always cut it.
FairSpec ==
  /\ Spec
  /\ WF_vars(SweepPick)
  /\ WF_vars(SweepAsk \/ SweepCut)
  /\ WF_vars(CheckRaises("sweep") \/ \E verified \in BOOLEAN : CheckAnswered("sweep", verified))

-----------------------------------------------------------------------------
(* Properties.                                                             *)

TypeOK ==
  /\ up \in BOOLEAN
  /\ challenge \in [Nonces -> {"unissued", "active", "expired", "gone"}]
  /\ reg \in [Registrations -> [pc : {"idle", "verifying", "done"}, key : AnyKey,
                                url : BOOLEAN, byUrl : BOOLEAN]]
  /\ agent \in AnyKey
  /\ doc \in [status : {"none", "active", "revoked"}, key : AnyKey, url : BOOLEAN]
  /\ record \in Record \union {NoRecord}
  /\ check \in [Checkers -> [pc : {"idle", "picked", "asking"}, key : AnyKey, current : BOOLEAN]]
  /\ spent \in [Nonces -> Nat]
  /\ latest \in AnyKey
  /\ failedWrite \in BOOLEAN
  /\ hydrated \in BOOLEAN

\* One challenge leads to at most one registration, although the handler
\* awaits two network calls between its proof and its registration and the
\* same proof may be sent again meanwhile.
ChallengeSpentOnce == \A n \in Nonces : spent[n] <= 1

\* Until a registry write fails, the key that authorizes is the one the last
\* answered registration or deletion left, over restarts and overlapping
\* registrations: no replaced or deleted key comes back.  A failed start-up
\* read can only leave the agent out.
RegistryIsLatest ==
  up /\ ~failedWrite => agent = latest \/ (~hydrated /\ agent = NoKey)

\* authorize refuses agents whose record is STALE or SUSPENDED.
Gated == record.fails >= 2

\* While its record exists, a gated agent stays gated until a challenge is
\* answered correctly: registering again does not lift the gate.
GateHoldsUntilVerified ==
  [][Gated => Gated' \/ record' = NoRecord \/ record'.verified = "fresh"]_vars

\* An agent whose verification has grown old is challenged again, unless it is
\* deleted or the process ends, or earlier agents cut the sweeps again and again:
\* no failure, error or deletion of this agent's own wedges the sweep.
OldIsRechallenged ==
  \/ []<><<SweepCut>>_vars
  \/ up /\ agent # NoKey /\ record.url /\ record.verified = "old"
       ~> check["sweep"].pc = "asking" \/ record.verified = "fresh" \/ agent = NoKey

\* "After registration, agents are periodically re-challenged to prove they
\* are still alive": every registered agent with a callback is, in time, even
\* where no other agent cuts the sweeps.
RegisteredIsRechallenged ==
  \/ []<><<SweepCut>>_vars
  \/ up /\ agent # NoKey /\ doc.url
       ~> check["sweep"].pc = "asking" \/ record.verified = "fresh" \/ agent = NoKey
=============================================================================
