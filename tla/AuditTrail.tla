----------------------------- MODULE AuditTrail -----------------------------
(***************************************************************************)
(* What the gateway promises about authorization and evidence, with no     *)
(* mention of chains, surfaces or stores: evidence only accumulates, and a *)
(* decision leaves the gateway only when its evidence is on record.        *)
(* Gateway.tla implements this module.                                     *)
(***************************************************************************)
CONSTANT Requests

VARIABLES
  trail,     \* requests whose signed receipt is on durable record
  answered   \* requests whose decision (token or denial) reached the caller

trailVars == <<trail, answered>>

Init ==
  /\ trail = {}
  /\ answered = {}

\* Evidence for one more request becomes durable.
Record(r) ==
  /\ trail' = trail \union {r}
  /\ UNCHANGED answered

\* A decision is released, its evidence being on record already.
Release(r) ==
  /\ r \in trail
  /\ answered' = answered \union {r}
  /\ UNCHANGED trail

Next == \E r \in Requests : Record(r) \/ Release(r)

Spec == Init /\ [][Next]_trailVars
=============================================================================
