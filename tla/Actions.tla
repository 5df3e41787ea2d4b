------------------------------- MODULE Actions -------------------------------
(***************************************************************************)
(* The action registry (gateway/actions.py) behind the endpoints under     *)
(* /actions of api.py, for one action of the one valid resource type.      *)
(*                                                                         *)
(* The action is stored under a key made of its id and its type; earlier   *)
(* versions stored it under its id alone, and such a document may be       *)
(* there.  Registering uses the composite key; DELETE and PATCH pass no    *)
(* type, and so use the id alone.  Handlers of different instances         *)
(* interleave at each call of Firestore.                                   *)
(***************************************************************************)
EXTENDS Naturals

CONSTANTS
  Handlers,   \* requests that may be under way at once
  MaxWrites,  \* bound: registrations, revocations and updates
  None        \* no document, no request

Keys == {"composite", "legacy"}
Documents == [status : {"active", "revoked"}, version : Nat]

ActionsAssumption == None \notin Documents

VARIABLES
  store,     \* per key: its document
  call,      \* per handler: the request under way
  left,      \* bound: writes still to come
  revoked,   \* history: a DELETE has been answered
  lasting    \* history: per reader, the keys active since it began

vars == <<store, call, left, revoked, lasting>>

Active(k) == store[k] # None /\ store[k].status = "active"

Init ==
  /\ store \in {[composite |-> None, legacy |-> d] :
                  d \in {None} \union [status : {"active", "revoked"}, version : {1}]}
  /\ call = [h \in Handlers |-> None]
  /\ left = MaxWrites
  /\ revoked = FALSE
  /\ lasting = [h \in Handlers |-> {}]

At(h, op) == call[h] # None /\ call[h].op = op
Begin(h, op, k) == call' = [call EXCEPT ![h] = [op |-> op, key |-> k, read |-> store[k]]]
End(h) == call' = [call EXCEPT ![h] = None]

Write(k, d) ==
  /\ store' = [store EXCEPT ![k] = d]
  /\ lasting' = [h \in Handlers |->
       IF d.status = "active" THEN lasting[h] ELSE lasting[h] \ {k}]

\* register reads the composite key and refuses an active one with 409.
BeginRegister(h) ==
  /\ call[h] = None /\ left > 0
  /\ ~Active("composite")
  /\ Begin(h, "register", "composite")
  /\ left' = left - 1
  /\ UNCHANGED <<store, revoked, lasting>>

\* Every registration is version 1, also that of an action once revoked.
Register(h) ==
  /\ At(h, "register")
  /\ Write("composite", [status |-> "active", version |-> 1])
  /\ End(h)
  /\ UNCHANGED <<left, revoked>>

\* DELETE and PATCH read the key made of the id alone; an action that is not
\* stored there is answered 404, and so is one that is not active.
BeginChange(h, op) ==
  /\ call[h] = None /\ left > 0
  /\ Active("legacy")
  /\ Begin(h, op, "legacy")
  /\ left' = left - 1
  /\ UNCHANGED <<store, revoked, lasting>>

Revoke(h) ==
  /\ At(h, "revoke")
  /\ Write("legacy", [store.legacy EXCEPT !.status = "revoked"])
  /\ revoked' = TRUE
  /\ End(h)
  /\ UNCHANGED left

\* Faulty variant: the document is written back as it was read.
UpdateByReplacing(h) ==
  /\ At(h, "update")
  /\ Write("legacy", [call[h].read EXCEPT !.version = @ + 1])
  /\ End(h)
  /\ UNCHANGED <<left, revoked>>

Update(h) ==
  /\ At(h, "update")
  /\ Write("legacy", [store.legacy EXCEPT !.version = call[h].read.version + 1])
  /\ End(h)
  /\ UNCHANGED <<left, revoked>>

\* GET with the type reads the composite key only; without it, first the id alone.
Get(h, first) ==
  /\ call[h] = None
  /\ Begin(h, "get", first)
  /\ lasting' = [lasting EXCEPT ![h] = {k \in {first, "composite"} : Active(k)}]
  /\ UNCHANGED <<store, left, revoked>>

\* Faulty variant, which the registry in memory has: a document under the id
\* alone ends the search, even a revoked one.
AnsweredByAny(c) == c.key = "composite" \/ c.read # None

\* What was read is the answer when it is active, and after the last key.
Decided(c) ==
  \/ c.key = "composite"
  \/ c.read # None /\ c.read.status = "active"

GetNext(h) ==
  /\ At(h, "get")
  /\ ~Decided(call[h])
  /\ Begin(h, "get", "composite")
  /\ UNCHANGED <<store, left, revoked, lasting>>

Answered(h) ==
  /\ At(h, "get")
  /\ Decided(call[h])
  /\ End(h)
  /\ lasting' = [lasting EXCEPT ![h] = {}]
  /\ UNCHANGED <<store, left, revoked>>

\* The call of Firestore raises: the request is answered 500, and its write was
\* not applied (that it was looks like Register, Revoke or Update).
Fails(h) ==
  /\ call[h] # None
  /\ End(h)
  /\ lasting' = [lasting EXCEPT ![h] = {}]
  /\ UNCHANGED <<store, left, revoked>>

Next == \E h \in Handlers :
  \/ BeginRegister(h) \/ Register(h)
  \/ BeginChange(h, "revoke") \/ BeginChange(h, "update")
  \/ Revoke(h) \/ Update(h)
  \/ \E k \in Keys : Get(h, k)
  \/ GetNext(h) \/ Answered(h) \/ Fails(h)

Spec == Init /\ [][Next]_vars

-----------------------------------------------------------------------------
\* A document that a DELETE has revoked is not active again, whichever updates
\* were under way; and a GET finds an action that is active all the time it runs
\* under a key that it reads (update merges its fields, get tries both keys).
ActionLookupsAreSound ==
  /\ revoked => ~Active("legacy")
  /\ \A h \in Handlers :
       At(h, "get") /\ Decided(call[h]) /\ lasting[h] # {} =>
         call[h].read # None /\ call[h].read.status = "active"
=============================================================================
