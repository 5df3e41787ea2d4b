----------------------------- MODULE StoresProofs -----------------------------
(***************************************************************************)
(* Proofs about the parts that MCStores.tla puts side by side: the action  *)
(* registry, the directory of agents, the resource registry with the       *)
(* runtime policy, and the verification of resources, for every number of  *)
(* requests under way, of instances, of writes, of failures and of fields. *)
(***************************************************************************)
EXTENDS MCStores, TLAPS

\* A step is one of one part, and leaves the others as they are.
LEMMA PartStep ==
  ASSUME [StoresNext]_storesVars
  PROVE  /\ [A!Next]_actionVars
         /\ [D!Next]_directoryVars
         /\ [R!Next]_resourceVars
         /\ [V!Next]_probeVars
BY DEF StoresNext, storesVars, actionVars, directoryVars, resourceVars, probeVars

-----------------------------------------------------------------------------
(* The action registry (Actions).                                          *)

ActionCalls == [op : {"register", "revoke", "update", "get"}, key : A!Keys,
                read : A!Documents \union {None}]

ActionTypes ==
  /\ store \in [A!Keys -> A!Documents \union {None}]
  /\ acting \in [Handlers -> ActionCalls \union {None}]
  /\ lasting \in [Handlers -> SUBSET A!Keys]

Live(s, k) == s[k] # None /\ s[k].status = "active"

\* A request in the state c at the store s, with the keys K active since a GET
\* began: what it has read of those was active.  A document under the id alone
\* that a request found active may be revoked meanwhile; it does not vanish.
SoundRequest(c, s, K) ==
  /\ \A k \in K : Live(s, k)
  /\ c # None /\ c.op \in {"revoke", "update"} => s.legacy \in A!Documents
  /\ c # None /\ c.op = "update" => c.read \in A!Documents
  /\ c # None /\ c.op = "get" =>
       /\ c.key \in K => c.read # None /\ c.read.status = "active"
       /\ c.key = "composite" => K \subseteq {"composite"}

ActionsInv ==
  /\ ActionTypes
  /\ revoked => ~Live(store, "legacy")
  /\ \A h \in Handlers : SoundRequest(acting[h], store, lasting[h])

\* A step of one handler that writes nothing.
LEMMA ActionReads ==
  ASSUME ActionsInv, NEW h \in Handlers, NEW c \in ActionCalls \union {None},
         NEW K \in SUBSET A!Keys,
         acting' = [acting EXCEPT ![h] = c], lasting' = [lasting EXCEPT ![h] = K],
         UNCHANGED <<store, revoked>>, SoundRequest(c, store, K)
  PROVE  ActionsInv'
<1>1. ActionTypes'
  BY DEF ActionsInv, ActionTypes
<1>2. \A g \in Handlers : SoundRequest(acting'[g], store', lasting'[g])
  BY DEF ActionsInv, ActionTypes
<1>3. revoked' => ~Live(store', "legacy")
  BY DEF ActionsInv
<1>4. QED BY <1>1, <1>2, <1>3 DEF ActionsInv

\* A write of the document d under the key k, which ends its request.
LEMMA ActionWrites ==
  ASSUME ActionsInv, A!ActionsAssumption, NEW h \in Handlers, NEW k \in A!Keys,
         NEW d \in A!Documents, A!Write(k, d), A!End(h),
         revoked' /\ k = "legacy" => d.status # "active",
         revoked' /\ k # "legacy" => ~Live(store, "legacy")
  PROVE  ActionsInv'
<1>1. /\ store' = [store EXCEPT ![k] = d]
      /\ lasting' = [g \in Handlers |-> IF d.status = "active" THEN lasting[g] ELSE lasting[g] \ {k}]
      /\ acting' = [acting EXCEPT ![h] = None]
  BY DEF A!Write, A!End
<1>2. d # None
  BY DEF A!ActionsAssumption
<1>3. ActionTypes'
  BY <1>1 DEF ActionsInv, ActionTypes
<1>4. store' \in [A!Keys -> A!Documents \union {None}] /\ store'[k] = d
      /\ \A l \in A!Keys \ {k} : store'[l] = store[l]
  BY <1>1 DEF ActionsInv, ActionTypes
<1>5. revoked' => ~Live(store', "legacy")
  BY <1>4 DEF Live, A!Keys
<1>6. ASSUME NEW g \in Handlers
      PROVE  SoundRequest(acting'[g], store', lasting'[g])
  <2>1. /\ lasting'[g] \subseteq lasting[g] /\ lasting'[g] \subseteq A!Keys
        /\ k \in lasting'[g] => d.status = "active"
    BY <1>1, <1>3 DEF ActionTypes
  <2>2. SoundRequest(acting[g], store, lasting[g])
    BY DEF ActionsInv
  <2>3. \A l \in lasting'[g] : Live(store', l)
    BY <1>2, <1>4, <2>1, <2>2 DEF SoundRequest, Live
  <2>4. acting'[g] = acting[g] \/ acting'[g] = None
    BY <1>1 DEF ActionsInv, ActionTypes
  <2>5. store.legacy \in A!Documents => store'.legacy \in A!Documents
    BY <1>4 DEF A!Keys
  <2>6. QED BY <2>1, <2>2, <2>3, <2>4, <2>5 DEF SoundRequest
<1>7. QED BY <1>3, <1>5, <1>6 DEF ActionsInv

LEMMA ActionFacts ==
  ASSUME ActionsInv, NEW h \in Handlers
  PROVE  /\ acting[h] \in ActionCalls \union {None} /\ lasting[h] \in SUBSET A!Keys
         /\ SoundRequest(acting[h], store, lasting[h])
         /\ \A k \in A!Keys : store[k] \in A!Documents \union {None}
         /\ {"composite", "legacy"} = A!Keys
BY DEF ActionsInv, ActionTypes, A!Keys

LEMMA ActionsStep ==
  ASSUME ActionsInv, A!ActionsAssumption, [A!Next]_actionVars
  PROVE  ActionsInv'
<1> USE DEF A!Keys
<1>1. CASE UNCHANGED actionVars
  BY <1>1 DEF actionVars, ActionsInv, ActionTypes
\* A request begins that is no GET.
<1>2. ASSUME NEW h \in Handlers, NEW op \in {"register", "revoke", "update"}, NEW k \in A!Keys,
             A!Begin(h, op, k), UNCHANGED <<store, revoked, lasting>>, acting[h] = None,
             op # "register" => store[k] \in A!Documents /\ k = "legacy"
      PROVE  ActionsInv'
  <2>1. DEFINE c == [op |-> op, key |-> k, read |-> store[k]]
  <2>2. acting' = [acting EXCEPT ![h] = c] /\ lasting' = [lasting EXCEPT ![h] = lasting[h]]
    BY <1>2 DEF A!Begin, ActionsInv, ActionTypes
  <2>3. c \in ActionCalls /\ c.op = op /\ c.read = store[k]
    BY <1>2, ActionFacts DEF ActionCalls
  <2> HIDE DEF c
  <2>4. SoundRequest(c, store, lasting[h])
    BY <1>2, <2>3, ActionFacts DEF SoundRequest
  <2>5. QED BY <1>2, <2>2, <2>3, <2>4, ActionFacts, ActionReads
<1>3. ASSUME NEW h \in Handlers, A!BeginRegister(h)
      PROVE  ActionsInv'
  BY <1>2, <1>3 DEF A!BeginRegister
<1>4. ASSUME NEW h \in Handlers, NEW op \in {"revoke", "update"}, A!BeginChange(h, op)
      PROVE  ActionsInv'
  BY <1>2, <1>4, ActionFacts DEF A!BeginChange, A!Active
<1>5. ASSUME NEW h \in Handlers, A!Register(h)
      PROVE  ActionsInv'
  <2>1. [status |-> "active", version |-> 1] \in A!Documents
    BY DEF A!Documents
  <2>2. QED BY <1>5, <2>1, ActionWrites DEF A!Register, ActionsInv
<1>6. ASSUME NEW h \in Handlers, A!Revoke(h)
      PROVE  ActionsInv'
  <2>1. DEFINE d == [store.legacy EXCEPT !.status = "revoked"]
  <2>2. store.legacy \in A!Documents
    BY <1>6, ActionFacts DEF A!Revoke, A!At, SoundRequest
  <2>3. d \in A!Documents /\ d.status = "revoked"
    BY <2>2 DEF A!Documents
  <2>4. A!Write("legacy", d) /\ A!End(h)
    BY <1>6 DEF A!Revoke
  <2> HIDE DEF d
  <2>5. QED BY <2>3, <2>4, ActionWrites
<1>7. ASSUME NEW h \in Handlers, A!Update(h)
      PROVE  ActionsInv'
  <2>1. DEFINE d == [store.legacy EXCEPT !.version = acting[h].read.version + 1]
  <2>2. store.legacy \in A!Documents /\ acting[h].read \in A!Documents
    BY <1>7, ActionFacts DEF A!Update, A!At, SoundRequest
  <2>3. d \in A!Documents /\ d.status = store.legacy.status
    BY <2>2 DEF A!Documents
  <2>4. A!Write("legacy", d) /\ A!End(h) /\ revoked' = revoked
    BY <1>7 DEF A!Update
  <2>5. revoked => d.status # "active"
    BY <2>2, <2>3 DEF ActionsInv, A!ActionsAssumption, Live
  <2> HIDE DEF d
  <2>6. QED BY <2>3, <2>4, <2>5, ActionWrites
\* A GET reads the key k, with the keys K active since it began.
<1>8. ASSUME NEW h \in Handlers, NEW k \in A!Keys, NEW K \in SUBSET A!Keys,
             A!Begin(h, "get", k), lasting' = [lasting EXCEPT ![h] = K],
             UNCHANGED <<store, revoked>>, \A l \in K : Live(store, l),
             k = "composite" => K \subseteq {"composite"}
      PROVE  ActionsInv'
  <2>1. DEFINE c == [op |-> "get", key |-> k, read |-> store[k]]
  <2>2. acting' = [acting EXCEPT ![h] = c]
    BY <1>8 DEF A!Begin
  <2>3. c \in ActionCalls /\ c.op = "get" /\ c.key = k /\ c.read = store[k]
    BY ActionFacts DEF ActionCalls
  <2> HIDE DEF c
  <2>4. SoundRequest(c, store, K)
    BY <1>8, <2>3 DEF SoundRequest, Live
  <2>5. QED BY <1>8, <2>2, <2>3, <2>4, ActionReads
<1>9. ASSUME NEW h \in Handlers, NEW k \in A!Keys, A!Get(h, k)
      PROVE  ActionsInv'
  <2>1. DEFINE K == {l \in {k, "composite"} : A!Active(l)}
  <2>2. /\ A!Begin(h, "get", k) /\ lasting' = [lasting EXCEPT ![h] = K]
        /\ UNCHANGED <<store, revoked>>
    BY <1>9 DEF A!Get
  <2>3. K \in SUBSET A!Keys /\ (\A l \in K : Live(store, l)) /\ (k = "composite" => K \subseteq {"composite"})
    BY DEF A!Active, Live
  <2> HIDE DEF K
  <2>4. QED BY <1>8, <2>2, <2>3
<1>10. ASSUME NEW h \in Handlers, A!GetNext(h)
       PROVE  ActionsInv'
  <2>1. /\ A!At(h, "get") /\ ~A!Decided(acting[h])
        /\ A!Begin(h, "get", "composite") /\ UNCHANGED <<store, revoked, lasting>>
    BY <1>10 DEF A!GetNext
  <2>2. lasting' = [lasting EXCEPT ![h] = lasting[h]]
    BY <2>1 DEF ActionsInv, ActionTypes
  <2>3. lasting[h] \subseteq {"composite"}
    BY <2>1, ActionFacts DEF A!At, A!Decided, SoundRequest, ActionCalls
  <2>4. \A l \in lasting[h] : Live(store, l)
    BY ActionFacts DEF SoundRequest
  <2>5. QED BY <1>8, <2>1, <2>2, <2>3, <2>4, ActionFacts
<1>11. ASSUME NEW h \in Handlers, A!Answered(h) \/ A!Fails(h)
       PROVE  ActionsInv'
  <2>1. /\ acting' = [acting EXCEPT ![h] = None] /\ lasting' = [lasting EXCEPT ![h] = {}]
        /\ UNCHANGED <<store, revoked>>
    BY <1>11 DEF A!Answered, A!Fails, A!End
  <2>2. SoundRequest(None, store, {})
    BY DEF SoundRequest
  <2>3. QED BY <2>1, <2>2, ActionReads
<1>12. QED
  BY <1>1, <1>3, <1>4, <1>5, <1>6, <1>7, <1>9, <1>10, <1>11 DEF A!Next

\* A document that a DELETE has revoked is not active again, and a GET finds an
\* action that is active all the time it runs (gateway/actions.py).
THEOREM ActionLookupsSound == StoresSpec => []ActionLookupsAreSound
<1>1. A!ActionsAssumption
  BY StoresAssumption
<1>2. StoresInit => ActionsInv
  <2>1. SUFFICES ASSUME A!Init
                 PROVE  ActionsInv
    BY DEF StoresInit
  <2>2. ActionTypes /\ ~revoked
    BY <2>1 DEF A!Init, A!Keys, A!Documents, ActionTypes
  <2>3. \A h \in Handlers : acting[h] = None /\ lasting[h] = {}
    BY <2>1 DEF A!Init
  <2>4. QED BY <2>2, <2>3 DEF ActionsInv, SoundRequest
<1>3. ActionsInv /\ [StoresNext]_storesVars => ActionsInv'
  BY <1>1, PartStep, ActionsStep
<1>4. ActionsInv => ActionLookupsAreSound
  <2>1. SUFFICES ASSUME ActionsInv
                 PROVE  A!ActionLookupsAreSound
    BY DEF ActionLookupsAreSound
  <2>2. revoked => ~A!Active("legacy")
    BY <2>1 DEF ActionsInv, Live, A!Active
  <2>3. ASSUME NEW h \in Handlers, A!At(h, "get"), A!Decided(acting[h]), lasting[h] # {}
        PROVE  acting[h].read # None /\ acting[h].read.status = "active"
    BY <2>1, <2>3, ActionFacts DEF A!At, A!Decided, SoundRequest
  <2>4. QED BY <2>2, <2>3 DEF A!ActionLookupsAreSound
<1>5. QED BY <1>2, <1>3, <1>4, PTL DEF StoresSpec

-----------------------------------------------------------------------------
(* The Coordinator's directory (Directory).                                *)

DirectoryTypes ==
  /\ web \in [Urls -> Cards]
  /\ dir \in [Urls -> D!Entries \union {None}]
  /\ work \in [Handlers -> D!Works \union {None}]
  /\ latest \in [Urls -> Cards \union {None}]
  /\ crossed \subseteq Urls

\* The request in the state w is about the URL u.
On(w, u) == w # None /\ Head(w.todo) = u

\* A request about u that fetched has found what was found last, and is about to
\* store it.
FoundLast(w, u, found) ==
  On(w, u) =>
    /\ w.at \in {"fetch", "assess", "store"}
    /\ w.at # "fetch" => found \in Cards /\ w.entry = D!Entry(u, found)

\* No two requests are about u at once; and what was found last is stored, unless
\* a request is about to.
SoundUrl(u, W, found, entry) ==
  /\ \A c, d \in Handlers : On(W[c], u) /\ On(W[d], u) => c = d
  /\ \A c \in Handlers : FoundLast(W[c], u, found)
  /\ (\A c \in Handlers : On(W[c], u) => W[c].at = "fetch")
       => found = None \/ entry = D!Entry(u, found)

DirectoryInv ==
  /\ DirectoryTypes
  /\ \A u \in Urls \ crossed : SoundUrl(u, work, latest[u], dir[u])

LEMMA EntryTyped ==
  ASSUME D!DirectoryAssumption, NEW u \in Urls, NEW card \in Cards
  PROVE  D!Entry(u, card) \in D!Entries
BY DEF D!DirectoryAssumption, D!Entry, D!Entries, D!Kinds

LEMMA DirectoryFacts ==
  ASSUME DirectoryInv, D!DirectoryAssumption, NEW c \in Handlers, work[c] # None
  PROVE  /\ work[c] \in D!Works
         /\ D!Url(c) \in Urls /\ On(work[c], D!Url(c)) /\ D!Url(c) = Head(work[c].todo)
         /\ Tail(work[c].todo) \in Seq(Urls)
         /\ work[c].entry \in D!Entries \union {None}
         /\ work[c].at \in {"fetch", "assess", "store", "failed"}
         /\ \A u \in Urls \ crossed :
              /\ SoundUrl(u, work, latest[u], dir[u])
              /\ On(work[c], u) => \A d \in Handlers : On(work[d], u) => d = c
<1>1. work[c] \in D!Works
  BY DEF DirectoryInv, DirectoryTypes
<1>2. work[c].todo \in Seq(Urls) /\ work[c].todo # <<>>
  BY <1>1 DEF D!Works
<1>3. Head(work[c].todo) \in Urls /\ Tail(work[c].todo) \in Seq(Urls)
  BY <1>2
<1>4. \A u \in Urls \ crossed : SoundUrl(u, work, latest[u], dir[u])
  BY DEF DirectoryInv
<1>5. QED BY <1>1, <1>3, <1>4 DEF D!Url, On, D!Works, SoundUrl

\* A request that is idle, or done with the URL that it was about, goes on to the
\* first URL of todo, or ends; the store of entries may have changed before.
LEMMA TakesKeeps ==
  ASSUME D!DirectoryAssumption, DirectoryInv, NEW c \in Handlers, NEW todo \in Seq(Urls),
         D!Takes(c, todo), UNCHANGED <<web, latest>>,
         dir' \in [Urls -> D!Entries \union {None}],
         \A u \in Urls \ crossed :
           IF On(work[c], u) THEN latest[u] = None \/ dir'[u] = D!Entry(u, latest[u])
                             ELSE dir'[u] = dir[u]
  PROVE  DirectoryInv'
<1>1. /\ work' \in [Handlers -> D!Works \union {None}]
      /\ \A d \in Handlers \ {c} : work'[d] = work[d]
      /\ crossed \subseteq crossed' /\ crossed' \subseteq Urls
      /\ work'[c] # None =>
           /\ work'[c].at = "fetch" /\ work'[c].todo = todo
           /\ D!Meets(Head(todo), c) => Head(todo) \in crossed'
  <2>1. CASE todo = <<>>
    BY <2>1 DEF D!Takes, DirectoryInv, DirectoryTypes
  <2>2. CASE todo # <<>>
    <3>1. DEFINE new == [at |-> "fetch", todo |-> todo, entry |-> None]
    <3>2. /\ work' = [work EXCEPT ![c] = new]
          /\ crossed' = IF D!Meets(Head(todo), c) THEN crossed \union {Head(todo)} ELSE crossed
      BY <2>2 DEF D!Takes
    <3>3. new \in D!Works /\ new.at = "fetch" /\ new.todo = todo
      BY <2>2 DEF D!Works
    <3>4. Head(todo) \in Urls
      BY <2>2
    <3> HIDE DEF new
    <3>5. QED BY <3>2, <3>3, <3>4 DEF DirectoryInv, DirectoryTypes
  <2>3. QED BY <2>1, <2>2
<1>2. DirectoryTypes'
  BY <1>1 DEF DirectoryInv, DirectoryTypes
<1>3. ASSUME NEW u \in Urls \ crossed'
      PROVE  SoundUrl(u, work', latest'[u], dir'[u])
  <2>1. SoundUrl(u, work, latest[u], dir[u]) /\ latest'[u] = latest[u]
    BY <1>1, <1>3 DEF DirectoryInv
  <2>2. ASSUME NEW d \in Handlers \ {c}, On(work'[d], u)
        PROVE  On(work[d], u) /\ ~On(work'[c], u)
    <3>1. On(work[d], u)
      BY <1>1, <2>2
    <3>2. D!Meets(u, c)
      BY <3>1 DEF On, D!Meets, D!Url
    <3>3. QED BY <1>1, <3>1, <3>2 DEF On
  <2>3. \A d, e \in Handlers : On(work'[d], u) /\ On(work'[e], u) => d = e
    BY <2>1, <2>2 DEF SoundUrl
  <2>4. \A d \in Handlers : FoundLast(work'[d], u, latest[u])
    BY <1>1, <2>1 DEF SoundUrl, FoundLast, On
  <2>5. ASSUME \A d \in Handlers : On(work'[d], u) => work'[d].at = "fetch"
        PROVE  latest[u] = None \/ dir'[u] = D!Entry(u, latest[u])
    <3>1. CASE On(work[c], u)
      BY <1>1, <3>1
    <3>2. CASE ~On(work[c], u)
      <4>1. \A d \in Handlers : On(work[d], u) => work[d].at = "fetch"
        BY <1>1, <2>5, <3>2
      <4>2. QED BY <1>1, <2>1, <3>2, <4>1 DEF SoundUrl
    <3>3. QED BY <3>1, <3>2
  <2>6. QED BY <2>1, <2>3, <2>4, <2>5 DEF SoundUrl
<1>4. QED BY <1>2, <1>3 DEF DirectoryInv

\* A request moves on about the same URL, and what was found last, the entry or
\* the set of crossed URLs may change at that URL alone.
LEMMA StaysKeeps ==
  ASSUME D!DirectoryAssumption, DirectoryInv, NEW c \in Handlers, work[c] # None,
         NEW w \in D!Works, w.todo = work[c].todo, work' = [work EXCEPT ![c] = w],
         UNCHANGED web, crossed \subseteq crossed', crossed' \subseteq Urls,
         dir' \in [Urls -> D!Entries \union {None}],
         latest' \in [Urls -> Cards \union {None}],
         \A u \in Urls \ {D!Url(c)} : dir'[u] = dir[u] /\ latest'[u] = latest[u],
         D!Url(c) \notin crossed' =>
           w.at \in {"assess", "store"} /\ FoundLast(w, D!Url(c), latest'[D!Url(c)])
  PROVE  DirectoryInv'
<1>1. /\ work' \in [Handlers -> D!Works \union {None}] /\ work'[c] = w
      /\ \A d \in Handlers \ {c} : work'[d] = work[d]
  BY DEF DirectoryInv, DirectoryTypes
<1>2. DirectoryTypes'
  BY <1>1 DEF DirectoryInv, DirectoryTypes
<1>3. ASSUME NEW u \in Urls \ crossed'
      PROVE  SoundUrl(u, work', latest'[u], dir'[u])
  <2>1. SoundUrl(u, work, latest[u], dir[u])
    BY <1>3 DEF DirectoryInv
  <2>2. w # None
    BY DEF D!DirectoryAssumption
  <2>3. /\ On(work'[c], u) <=> u = D!Url(c)
        /\ On(work[c], u) <=> u = D!Url(c)
    BY <1>1, <2>2 DEF On, D!Url
  <2>4. \A d \in Handlers : On(work'[d], u) <=> On(work[d], u)
    BY <1>1, <2>3
  <2>5. \A d, e \in Handlers : On(work'[d], u) /\ On(work'[e], u) => d = e
    BY <2>1, <2>4 DEF SoundUrl
  <2>6. CASE u = D!Url(c)
    <3>1. \A d \in Handlers : On(work'[d], u) => d = c
      BY <2>3, <2>5, <2>6
    <3>2. \A d \in Handlers : FoundLast(work'[d], u, latest'[u])
      BY <1>1, <1>3, <2>6, <3>1 DEF FoundLast
    <3>3. On(work'[c], u) /\ work'[c].at # "fetch"
      BY <1>1, <1>3, <2>3, <2>6
    <3>4. QED BY <2>5, <3>2, <3>3 DEF SoundUrl
  <2>7. CASE u # D!Url(c)
    <3>1. dir'[u] = dir[u] /\ latest'[u] = latest[u]
      BY <1>3, <2>7
    <3>2. \A d \in Handlers : On(work'[d], u) => work'[d] = work[d]
      BY <1>1, <2>3, <2>7
    <3>3. \A d \in Handlers : FoundLast(work'[d], u, latest[u])
      BY <2>1, <2>4, <3>2 DEF SoundUrl, FoundLast
    <3>4. QED BY <2>1, <2>4, <2>5, <3>1, <3>2, <3>3 DEF SoundUrl
  <2>8. QED BY <2>6, <2>7
<1>4. QED BY <1>2, <1>3 DEF DirectoryInv

LEMMA DirectoryStep ==
  ASSUME D!DirectoryAssumption, DirectoryInv, [D!Next]_directoryVars
  PROVE  DirectoryInv'
<1>1. CASE UNCHANGED directoryVars
  BY <1>1 DEF directoryVars, DirectoryInv, DirectoryTypes
<1>2. ASSUME NEW u \in Urls, D!Change(u)
      PROVE  DirectoryInv'
  BY <1>2 DEF D!Change, DirectoryInv, DirectoryTypes
<1>3. ASSUME NEW c \in Handlers, NEW todo \in Seq(Urls), D!Ask(c, todo)
      PROVE  DirectoryInv'
  <2>1. work[c] = None /\ D!Takes(c, todo) /\ UNCHANGED <<web, dir, latest>>
    BY <1>3 DEF D!Ask
  <2>2. QED BY <2>1, TakesKeeps DEF On, DirectoryInv, DirectoryTypes
<1>4. ASSUME NEW c \in Handlers, D!Fetched(c)
      PROVE  DirectoryInv'
  <2>1. DEFINE u == D!Url(c)
               card == web[u]
               entry == D!Entry(u, card)
               w == [work[c] EXCEPT !.at = IF entry.card = "empty" THEN "store" ELSE "assess",
                                    !.entry = entry]
  <2>2. work[c] # None /\ D!Fetched(c)
    BY <1>4 DEF D!Fetched, D!At
  <2>3. u \in Urls /\ work[c] \in D!Works
    BY <2>2, DirectoryFacts
  <2>4. card \in Cards /\ entry \in D!Entries
    BY <2>3, EntryTyped DEF DirectoryInv, DirectoryTypes
  <2>5. /\ w \in D!Works /\ w.todo = work[c].todo /\ w.entry = entry
        /\ w.at \in {"assess", "store"}
    BY <2>3, <2>4 DEF D!Works
  <2>6. /\ work' = [work EXCEPT ![c] = w]
        /\ latest' = [latest EXCEPT ![u] = card]
        /\ UNCHANGED <<web, dir, crossed>>
    BY <1>4 DEF D!Fetched
  <2>7. entry = D!Entry(u, card)
    OBVIOUS
  <2> HIDE DEF w, entry, card
  <2>8. FoundLast(w, u, card)
    BY <2>4, <2>5, <2>7 DEF FoundLast
  <2>9. latest'[u] = card /\ latest' \in [Urls -> Cards \union {None}]
        /\ \A v \in Urls \ {u} : latest'[v] = latest[v]
    BY <2>3, <2>4, <2>6 DEF DirectoryInv, DirectoryTypes
  <2>10. dir' \in [Urls -> D!Entries \union {None}] /\ crossed' \subseteq Urls
    BY <2>6 DEF DirectoryInv, DirectoryTypes
  <2>11. QED BY <2>2, <2>5, <2>6, <2>8, <2>9, <2>10, StaysKeeps
<1>5. ASSUME NEW c \in Handlers, D!Assessed(c)
      PROVE  DirectoryInv'
  <2>1. DEFINE u == D!Url(c)
               w == [work[c] EXCEPT !.at = "store"]
  <2>2. work[c] # None /\ work[c].at = "assess"
    BY <1>5 DEF D!Assessed, D!At
  <2>3. u \in Urls /\ work[c] \in D!Works /\ On(work[c], u)
    BY <2>2, DirectoryFacts
  <2>4. w \in D!Works /\ w.todo = work[c].todo /\ w.entry = work[c].entry /\ w.at = "store"
    BY <2>3 DEF D!Works
  <2>5. work' = [work EXCEPT ![c] = w] /\ UNCHANGED <<web, dir, latest, crossed>>
    BY <1>5 DEF D!Assessed
  <2> HIDE DEF w
  <2>6. u \notin crossed => FoundLast(w, u, latest[u])
    BY <2>2, <2>3, <2>4, DirectoryFacts DEF SoundUrl, FoundLast
  <2>7. QED BY <2>2, <2>4, <2>5, <2>6, StaysKeeps DEF DirectoryInv, DirectoryTypes
<1>6. ASSUME NEW c \in Handlers, work[c] # None, UNCHANGED <<web, latest>>, D!NextUrl(c),
             dir' \in [Urls -> D!Entries \union {None}],
             \A u \in Urls \ {D!Url(c)} : dir'[u] = dir[u],
             D!Url(c) \notin crossed =>
               latest[D!Url(c)] = None \/ dir'[D!Url(c)] = D!Entry(D!Url(c), latest[D!Url(c)])
      PROVE  DirectoryInv'
  <2>1. Tail(work[c].todo) \in Seq(Urls)
    BY <1>6, DirectoryFacts
  <2>2. D!Takes(c, Tail(work[c].todo))
    BY <1>6 DEF D!NextUrl
  <2>3. \A u \in Urls : On(work[c], u) <=> u = D!Url(c)
    BY <1>6 DEF On, D!Url
  <2>4. QED BY <1>6, <2>1, <2>2, <2>3, TakesKeeps
<1>7. ASSUME NEW c \in Handlers, D!Stored(c)
      PROVE  DirectoryInv'
  <2>1. work[c] # None /\ work[c].at = "store"
    BY <1>7 DEF D!Stored, D!At
  <2>2. /\ dir' = [dir EXCEPT ![D!Url(c)] = work[c].entry] /\ D!NextUrl(c)
        /\ UNCHANGED <<web, latest>>
    BY <1>7 DEF D!Stored
  <2>3. D!Url(c) \in Urls /\ work[c].entry \in D!Entries \union {None}
    BY <2>1, DirectoryFacts
  <2>4. dir' \in [Urls -> D!Entries \union {None}] /\ dir'[D!Url(c)] = work[c].entry
        /\ \A u \in Urls \ {D!Url(c)} : dir'[u] = dir[u]
    BY <2>2, <2>3 DEF DirectoryInv, DirectoryTypes
  <2>5. D!Url(c) \notin crossed => work[c].entry = D!Entry(D!Url(c), latest[D!Url(c)])
    BY <2>1, DirectoryFacts DEF SoundUrl, FoundLast
  <2>6. QED BY <1>6, <2>1, <2>2, <2>4, <2>5
<1>8. ASSUME NEW c \in Handlers, D!Raises(c)
      PROVE  DirectoryInv'
  <2>1. /\ work[c] # None /\ work[c].at = "fetch" /\ D!NextUrl(c)
        /\ UNCHANGED <<web, dir, latest>>
    BY <1>8 DEF D!Raises, D!At
  <2>2. D!Url(c) \notin crossed =>
          latest[D!Url(c)] = None \/ dir[D!Url(c)] = D!Entry(D!Url(c), latest[D!Url(c)])
    BY <2>1, DirectoryFacts DEF SoundUrl
  <2>3. QED BY <1>6, <2>1, <2>2 DEF DirectoryInv, DirectoryTypes
<1>9. ASSUME NEW c \in Handlers, D!WriteFails(c)
      PROVE  DirectoryInv'
  <2>1. DEFINE w == [work[c] EXCEPT !.at = "failed"]
  <2>2. /\ work[c] # None
        /\ crossed' = crossed \union {D!Url(c)} /\ work' = [work EXCEPT ![c] = w]
        /\ dir' = dir \/ dir' = [dir EXCEPT ![D!Url(c)] = work[c].entry]
        /\ UNCHANGED <<web, latest>>
    BY <1>9 DEF D!WriteFails, D!At
  <2>3. /\ D!Url(c) \in Urls /\ work[c] \in D!Works
        /\ work[c].entry \in D!Entries \union {None}
    BY <2>2, DirectoryFacts
  <2>4. w \in D!Works /\ w.todo = work[c].todo
    BY <2>3 DEF D!Works
  <2>5. dir' \in [Urls -> D!Entries \union {None}]
        /\ \A u \in Urls \ {D!Url(c)} : dir'[u] = dir[u]
    BY <2>2, <2>3 DEF DirectoryInv, DirectoryTypes
  <2>6. /\ crossed \subseteq crossed' /\ crossed' \subseteq Urls /\ D!Url(c) \in crossed'
        /\ latest' \in [Urls -> Cards \union {None}]
        /\ \A u \in Urls : latest'[u] = latest[u]
    BY <2>2, <2>3 DEF DirectoryInv, DirectoryTypes
  <2> HIDE DEF w
  <2>7. QED BY <2>2, <2>4, <2>5, <2>6, StaysKeeps
<1>10. ASSUME NEW c \in Handlers, D!Failed(c)
       PROVE  DirectoryInv'
  <2>1. /\ work[c] # None /\ work[c].at = "failed" /\ D!NextUrl(c)
        /\ UNCHANGED <<web, dir, latest>>
    BY <1>10 DEF D!Failed, D!At
  <2>2. D!Url(c) \in crossed
    BY <2>1, DirectoryFacts DEF SoundUrl, FoundLast
  <2>3. QED BY <1>6, <2>1, <2>2 DEF DirectoryInv, DirectoryTypes
<1>11. \A u \in Urls : <<u>> \in Seq(Urls)
  OBVIOUS
<1>12. Scans \subseteq Seq(Urls)
  BY DEF D!DirectoryAssumption
<1>13. QED
  BY <1>1, <1>2, <1>3, <1>4, <1>5, <1>7, <1>8, <1>9, <1>10, <1>11, <1>12 DEF D!Next

\* The entry of a URL is that of its latest discovery, whatever several requests
\* fetch and store meanwhile, unless two of them are about that URL at once or a
\* write fails (coordinator/coordinator_service.py, coordinator/directory.py).
THEOREM DirectoryKeepsUp == StoresSpec => []DirectoryIsCurrent
<1>1. D!DirectoryAssumption
  BY StoresAssumption
<1>2. StoresInit => DirectoryInv
  <2>1. SUFFICES ASSUME D!Init
                 PROVE  DirectoryInv
    BY DEF StoresInit
  <2>2. DirectoryTypes
    BY <2>1 DEF D!Init, DirectoryTypes
  <2>3. (\A c \in Handlers : work[c] = None) /\ (\A u \in Urls : latest[u] = None)
    BY <2>1 DEF D!Init
  <2>4. QED BY <2>2, <2>3 DEF DirectoryInv, SoundUrl, FoundLast, On
<1>3. DirectoryInv /\ [StoresNext]_storesVars => DirectoryInv'
  BY <1>1, PartStep, DirectoryStep
<1>4. DirectoryInv => DirectoryIsCurrent
  <2>1. SUFFICES ASSUME DirectoryInv, NEW u \in Urls \ crossed, latest[u] # None,
                        \A c \in Handlers : work[c] # None => D!Url(c) # u
                 PROVE  /\ dir[u] # None
                        /\ dir[u].health_status = "unreachable" <=> latest[u] = "down"
                        /\ dir[u].trust_level = "TRUSTED" <=> u \in Secure /\ latest[u] = "proper"
    BY DEF DirectoryIsCurrent, D!DirectoryIsCurrent
  <2>2. latest[u] \in Cards /\ latest[u] \in D!Kinds
    BY <1>1, <2>1 DEF DirectoryInv, DirectoryTypes, D!DirectoryAssumption
  <2>3. dir[u] = D!Entry(u, latest[u])
    BY <2>1 DEF DirectoryInv, SoundUrl, On, D!Url
  <2>4. dir[u] \in D!Entries /\ dir[u] # None
    BY <1>1, <2>2, <2>3, EntryTyped DEF D!DirectoryAssumption
  <2>5. QED BY <2>2, <2>3, <2>4 DEF D!Entry, D!Kinds, D!Valid, D!Aligned
<1>5. QED BY <1>2, <1>3, <1>4, PTL DEF StoresSpec

-----------------------------------------------------------------------------
(* The resource registry and the runtime policy (Resources).               *)

Entries == [active : BOOLEAN, age : Nat]
Processes == [up : BOOLEAN, ready : BOOLEAN, strict : BOOLEAN, put : Nat, heard : Nat,
              registry : {"memory", "store"}, cache : Entries \union {None}]
ResourceTypes ==
  /\ doc \in R!Documents \union {None}
  /\ policy \in R!Policies \union {None}
  /\ saving \in SUBSET R!Policies
  /\ inst \in [Instances -> Processes]
  /\ call \in [Instances -> R!Calls \union {None}]
  /\ left \in R!Means
  /\ since \in Nat
  /\ mine \in [Instances -> BOOLEAN \union {None}]
  /\ count \in Nat
  /\ puts \in Nat

\* What the call c will put into the cache, once its answer is settled.
Settled(c) ==
  /\ c # None
  /\ \/ c.op \in {"open", "lookup", "update"}
     \/ c.at = "record"
     \/ c.op = "revoke" /\ c.at = "finish"
Puts(c) ==
  CASE c.op \in {"register", "update"} -> TRUE
    [] c.op = "revoke" -> FALSE
    [] OTHER -> c.read # None /\ c.read.status = "active"

\* The call c has changed the resource and not yet the cache.
Behind(c) ==
  /\ c # None
  /\ \/ c.at = "record"
     \/ c.op = "revoke" /\ c.at = "finish"

\* A process s at work on c that last wrote m, when the resource is active or not
\* and turned so some ticks ago: what its cache says, and what c will put there,
\* was so when it was read, and is so when nobody has written after the process.
SoundMemory(s, c, m, active, ago) ==
  /\ s.cache # None =>
       /\ s.cache.age <= CacheTTL
       /\ s.cache.active # active => ago <= s.cache.age + Delay
  /\ c # None => c.age <= Delay
  /\ c # None /\ c.op \in {"register", "revoke"} => s.registry = "store"
  /\ Settled(c) /\ Puts(c) # active => ago <= c.age
  /\ m # None =>
       /\ m = active /\ s.registry = "store"
       /\ Settled(c) => Puts(c) = m
       /\ s.cache # None /\ ~Behind(c) => s.cache.active = m

\* A process s at work on c after n puts, of which those in pending are being
\* saved: if it heard of the last one, that one was saved and is its policy.
SoundStart(s, c, stored, pending, n, whole) ==
  /\ s.heard <= n
  /\ ~s.up => s.heard = 0
  /\ c # None /\ c.op = "start" => c.id <= n /\ c.read \in R!Policies \union {None}
  /\ whole /\ n > 0 =>
       /\ s.heard = n => pending = {} /\ s.put = n /\ s.strict = stored.strict
       /\ c # None /\ c.op = "start" /\ c.id = n => pending = {} /\ c.read = stored

\* The call c is on a document that is there, and its own if none overtook it.
SoundWrite(c, d, alone) ==
  c # None =>
    /\ c.op # "start" => c.read \in R!Documents \union {None}
    /\ c.op \in {"revoke", "update"} => d # None
    /\ c.op = "update" => c.read # None
    /\ c.at = "record" => c.op = "register" /\ d # None /\ (alone => d.id = c.id)

Whole == "policy" \notin overlap
Alone == "verdict" \notin overlap

SoundDocument ==
  /\ doc = None => count = 0
  /\ doc # None /\ "write" \notin overlap => doc.version = count
  /\ doc # None /\ Alone /\ doc.verdict # None => doc.verdict.id = doc.id

SoundPolicy ==
  /\ Whole => \A p, q \in saving : p = q /\ p.put = puts
  /\ Whole /\ saving = {} /\ puts > 0 => policy # None /\ policy.put = puts

SoundProcesses ==
  \A i \in Instances :
    /\ SoundMemory(inst[i], call[i], mine[i], R!DocActive, since)
    /\ SoundStart(inst[i], call[i], policy, saving, puts, Whole)
    /\ SoundWrite(call[i], doc, Alone)

ResourceInv ==
  /\ ResourceTypes /\ since <= CacheTTL + Delay
  /\ SoundDocument /\ SoundPolicy /\ SoundProcesses
  /\ R!AnswersAreRecent

LEMMA Spending ==
  ASSUME left \in R!Means, NEW what \in {"starts", "puts", "writes", "faults"}, left[what] > 0,
         R!Spend(what)
  PROVE  left' \in R!Means
BY DEF R!Means, R!Spend

LEMMA ResourceFacts ==
  ASSUME R!ResourcesAssumption, ResourceInv, NEW i \in Instances
  PROVE  /\ inst[i] \in Processes /\ call[i] \in R!Calls \union {None}
         /\ mine[i] \in BOOLEAN \union {None}
         /\ SoundMemory(inst[i], call[i], mine[i], R!DocActive, since)
         /\ SoundStart(inst[i], call[i], policy, saving, puts, Whole)
         /\ SoundWrite(call[i], doc, Alone)
         /\ left \in R!Means /\ puts \in Nat /\ since \in Nat /\ count \in Nat
         /\ doc \in R!Documents \union {None} /\ None \notin R!Documents
         /\ policy \in R!Policies \union {None} /\ None \notin R!Policies
         /\ None \notin R!Calls
         /\ R!DocActive \in BOOLEAN /\ CacheTTL \in Nat \ {0} /\ Delay \in Nat
BY DEF ResourceInv, ResourceTypes, SoundProcesses, R!ResourcesAssumption, R!DocActive

\* Nothing is answered.
LEMMA NoAnswer == ASSUME answer' = None PROVE R!AnswersAreRecent'
BY DEF R!AnswersAreRecent, R!ForeignWritesAreSeen, R!OwnWritesAreSeen

\* A step of one process that changes no document.
LEMMA ProcessStep ==
  ASSUME R!ResourcesAssumption, ResourceInv, NEW i \in Instances, NEW s \in Processes,
         NEW c \in R!Calls \union {None}, NEW m \in {mine[i], None},
         inst' = [inst EXCEPT ![i] = s], call' = [call EXCEPT ![i] = c],
         mine' = [mine EXCEPT ![i] = m], left' \in R!Means,
         UNCHANGED <<doc, since, count, policy, saving, puts, overlap>>,
         SoundMemory(s, c, m, R!DocActive, since),
         SoundStart(s, c, policy, saving, puts, Whole), SoundWrite(c, doc, Alone),
         R!AnswersAreRecent'
  PROVE  ResourceInv'
<1>1. ResourceTypes'
  BY ResourceFacts DEF ResourceInv, ResourceTypes
<1>2. inst'[i] = s /\ call'[i] = c /\ mine'[i] = m
      /\ \A j \in Instances \ {i} : inst'[j] = inst[j] /\ call'[j] = call[j] /\ mine'[j] = mine[j]
  BY DEF ResourceInv, ResourceTypes
<1>3. R!DocActive' = R!DocActive /\ Whole' = Whole /\ Alone' = Alone
  BY DEF R!DocActive, Whole, Alone
<1>4. ASSUME NEW j \in Instances
      PROVE  /\ SoundMemory(inst'[j], call'[j], mine'[j], R!DocActive', since')
             /\ SoundStart(inst'[j], call'[j], policy', saving', puts', Whole')
             /\ SoundWrite(call'[j], doc', Alone')
  <2>1. CASE j = i
    BY <1>2, <1>3, <2>1
  <2>2. CASE j # i
    BY <1>2, <1>3, <2>2, ResourceFacts
  <2>3. QED BY <2>1, <2>2
<1>5. SoundProcesses'
  BY <1>4 DEF SoundProcesses
<1>6. SoundDocument' /\ SoundPolicy' /\ (since <= CacheTTL + Delay)'
  BY <1>3 DEF ResourceInv, SoundDocument, SoundPolicy, Whole, Alone
<1>7. QED BY <1>1, <1>5, <1>6 DEF ResourceInv

\* A process begins a call of the registry.
LEMMA ResourceBegins ==
  ASSUME R!ResourcesAssumption, ResourceInv, NEW i \in Instances,
         NEW op \in {"open", "register", "revoke", "update", "lookup"},
         NEW at \in {"warm", "write", "get"}, NEW verdict \in Statuses \union {None},
         R!Begin(i, op, at, verdict), R!Idle(i), left' \in R!Means,
         op # "open" => inst[i].registry = "store",
         op \in {"revoke", "update"} => R!DocActive, answer' = None,
         UNCHANGED <<inst, doc, since, mine, count, policy, saving, puts, overlap>>
  PROVE  ResourceInv'
<1>1. DEFINE c == [op |-> op, at |-> at, read |-> doc, verdict |-> verdict, id |-> left.writes,
                   age |-> 0]
<1>2. call' = [call EXCEPT ![i] = c] /\ inst' = [inst EXCEPT ![i] = inst[i]]
      /\ mine' = [mine EXCEPT ![i] = mine[i]]
  BY DEF R!Begin, ResourceInv, ResourceTypes
<1>3. c \in R!Calls
  BY ResourceFacts DEF R!Calls, R!Means
<1>4. c.op = op /\ c.at = at /\ c.read = doc /\ c.age = 0 /\ call[i] = None
  BY DEF R!Idle
<1> HIDE DEF c
<1>5. (Settled(c) => Puts(c) = R!DocActive) /\ ~Behind(c)
  BY <1>4, ResourceFacts DEF Settled, Puts, Behind, R!DocActive
<1>6. SoundMemory(inst[i], c, mine[i], R!DocActive, since)
  BY <1>4, <1>5, ResourceFacts DEF SoundMemory, Behind
<1>7. SoundStart(inst[i], c, policy, saving, puts, Whole)
  BY <1>4, ResourceFacts DEF SoundStart
<1>8. SoundWrite(c, doc, Alone)
  BY <1>4, ResourceFacts DEF SoundWrite, R!DocActive
<1>9. QED BY <1>2, <1>3, <1>6, <1>7, <1>8, ResourceFacts, ProcessStep, NoAnswer

\* A call ends with the process in the state s, which has the cache and the registry
\* it had, and has read no other policy than the call.
LEMMA ResourceEnds ==
  ASSUME R!ResourcesAssumption, ResourceInv, NEW i \in Instances, NEW s \in Processes,
         call[i] # None, inst' = [inst EXCEPT ![i] = s], R!End(i), left' \in R!Means,
         UNCHANGED <<doc, since, mine, count, policy, saving, puts, overlap>>,
         SoundMemory(s, None, mine[i], R!DocActive, since),
         SoundStart(s, None, policy, saving, puts, Whole), R!AnswersAreRecent'
  PROVE  ResourceInv'
<1>1. call' = [call EXCEPT ![i] = None] /\ mine' = [mine EXCEPT ![i] = mine[i]]
  BY DEF R!End, ResourceInv, ResourceTypes
<1>2. SoundWrite(None, doc, Alone)
  BY DEF SoundWrite
<1>3. QED BY <1>1, <1>2, ProcessStep

\* Starting and stopping.
LEMMA LifeSteps ==
  ASSUME R!ResourcesAssumption, ResourceInv, NEW i \in Instances,
         R!StartBroken(i) \/ R!Start(i) \/ R!LoadPolicy(i) \/ R!Crash(i)
  PROVE  ResourceInv'
<1>1. CASE R!StartBroken(i)
  <2>1. DEFINE s == [inst[i] EXCEPT !.up = TRUE]
  <2>2. /\ inst' = [inst EXCEPT ![i] = s] /\ call' = [call EXCEPT ![i] = call[i]]
        /\ mine' = [mine EXCEPT ![i] = mine[i]] /\ answer' = None /\ ~inst[i].up
        /\ UNCHANGED <<doc, since, count, policy, saving, puts, overlap>>
    BY <1>1 DEF R!StartBroken, R!registryVars, R!policyVars, ResourceInv, ResourceTypes
  <2>3. left' \in R!Means
    BY <1>1, Spending, ResourceFacts DEF R!StartBroken
  <2>4. /\ s \in Processes /\ s.cache = inst[i].cache /\ s.registry = inst[i].registry
        /\ s.heard = inst[i].heard /\ s.up
    BY ResourceFacts DEF Processes
  <2> HIDE DEF s
  <2>5. SoundMemory(s, call[i], mine[i], R!DocActive, since)
    BY <2>4, ResourceFacts DEF SoundMemory
  <2>6. SoundStart(s, call[i], policy, saving, puts, Whole)
    BY <2>2, <2>4, ResourceFacts DEF SoundStart
  <2>7. QED BY <2>2, <2>3, <2>4, <2>5, <2>6, ResourceFacts, ProcessStep, NoAnswer
<1>2. CASE R!Start(i)
  <2>1. DEFINE s == [inst[i] EXCEPT !.strict = R!ActivePolicyIsStrict]
               c == [op |-> "start", at |-> "load", read |-> policy, verdict |-> None,
                     id |-> IF saving = {} THEN puts ELSE 0, age |-> 0]
  <2>2. /\ inst' = [inst EXCEPT ![i] = s] /\ call' = [call EXCEPT ![i] = c]
        /\ mine' = [mine EXCEPT ![i] = mine[i]] /\ answer' = None /\ ~inst[i].up
        /\ UNCHANGED <<doc, since, count, policy, saving, puts, overlap>> /\ call[i] = None
    BY <1>2 DEF R!Start, R!registryVars, R!policyVars, ResourceInv, ResourceTypes
  <2>3. left' \in R!Means
    BY <1>2, Spending, ResourceFacts DEF R!Start
  <2>4. /\ s \in Processes /\ s.cache = inst[i].cache /\ s.registry = inst[i].registry
        /\ s.heard = inst[i].heard /\ s.up = inst[i].up
    BY ResourceFacts DEF Processes, R!ActivePolicyIsStrict
  <2>5. c \in R!Calls /\ c.op = "start" /\ c.at = "load" /\ c.age = 0 /\ c.read = policy
        /\ c.id = IF saving = {} THEN puts ELSE 0
    BY ResourceFacts DEF R!Calls
  <2> HIDE DEF s, c
  <2>6. ~Settled(c) /\ ~Behind(c) /\ ~Behind(call[i])
    BY <2>2, <2>5 DEF Settled, Behind
  <2>7. SoundMemory(s, c, mine[i], R!DocActive, since)
    BY <2>4, <2>5, <2>6, ResourceFacts DEF SoundMemory
  <2>8. SoundStart(s, c, policy, saving, puts, Whole)
    BY <2>2, <2>4, <2>5, ResourceFacts DEF SoundStart
  <2>9. SoundWrite(c, doc, Alone)
    BY <2>5 DEF SoundWrite
  <2>10. QED BY <2>2, <2>3, <2>4, <2>5, <2>7, <2>8, <2>9, ProcessStep, NoAnswer
<1>3. CASE R!LoadPolicy(i)
  <2>1. DEFINE s == [inst[i] EXCEPT !.up = TRUE, !.ready = TRUE, !.heard = call[i].id,
                                    !.strict = call[i].read.strict, !.put = call[i].read.put]
  <2>2. /\ inst' = [inst EXCEPT ![i] = s] /\ answer' = None /\ R!End(i) /\ call[i] # None
        /\ call[i].op = "start" /\ call[i].at = "load" /\ call[i].read # None
        /\ UNCHANGED <<doc, since, mine, count, policy, saving, puts, overlap, left>>
    BY <1>3 DEF R!LoadPolicy, R!At, R!registryVars, R!policyVars
  <2>3. call[i].read \in R!Policies /\ call[i].id \in Nat
    BY <2>2, ResourceFacts DEF SoundStart, R!Calls
  <2>4. /\ call[i].read.strict \in BOOLEAN /\ call[i].read.put \in Nat
         /\ inst[i] \in Processes
    BY <2>3, ResourceFacts DEF R!Policies
  <2>5. /\ s \in Processes /\ s.cache = inst[i].cache /\ s.registry = inst[i].registry
        /\ s.heard = call[i].id /\ s.up /\ s.put = call[i].read.put
        /\ s.strict = call[i].read.strict
    BY <2>3, <2>4 DEF Processes
  <2> HIDE DEF s
  <2>6. ~Behind(call[i])
    BY <2>2 DEF Behind
  <2>7. SoundMemory(s, None, mine[i], R!DocActive, since)
    BY <2>5, <2>6, ResourceFacts DEF SoundMemory, Settled, Behind
  <2>8. Whole /\ puts > 0 /\ saving = {} => policy.put = puts
    BY DEF ResourceInv, SoundPolicy
  <2>9. SoundStart(s, None, policy, saving, puts, Whole)
    BY <2>2, <2>5, <2>8, ResourceFacts DEF SoundStart
  <2>10. QED BY <2>2, <2>5, <2>7, <2>9, ResourceFacts, ResourceEnds, NoAnswer
<1>4. CASE R!Crash(i)
  <2>1. /\ inst' = [inst EXCEPT ![i] = R!Down] /\ call' = [call EXCEPT ![i] = None]
        /\ mine' = [mine EXCEPT ![i] = None] /\ answer' = None
        /\ UNCHANGED <<doc, since, count, policy, saving, puts, overlap>>
    BY <1>4 DEF R!Crash, R!policyVars
  <2>2. left' \in R!Means
    BY <1>4, Spending, ResourceFacts DEF R!Crash
  <2>3. R!Down \in Processes /\ R!Down.cache = None /\ ~R!Down.up /\ R!Down.heard = 0
    BY DEF R!Down, Processes
  <2>4. SoundMemory(R!Down, None, None, R!DocActive, since)
    BY <2>3 DEF SoundMemory, Settled
  <2>5. SoundStart(R!Down, None, policy, saving, puts, Whole)
    BY <2>3, ResourceFacts DEF SoundStart
  <2>6. SoundWrite(None, doc, Alone)
    BY DEF SoundWrite
  <2>7. QED BY <2>1, <2>2, <2>3, <2>4, <2>5, <2>6, ProcessStep, NoAnswer
<1>5. QED BY <1>1, <1>2, <1>3, <1>4

\* The process s with the entry e and the registry reg.
WithCache(s, e, reg) == [s EXCEPT !.registry = reg, !.cache = e]

\* A settled call ends, with what it read or wrote in the cache.
LEMMA CachePuts ==
  ASSUME R!ResourcesAssumption, ResourceInv, NEW i \in Instances, call[i] # None, R!End(i),
         Settled(call[i]), NEW e \in Entries \union {None},
         e # None => e = [active |-> Puts(call[i]), age |-> 0],
         NEW reg \in {inst[i].registry, "store"},
         inst' = [inst EXCEPT ![i] = WithCache(inst[i], e, reg)],
         UNCHANGED <<doc, since, mine, count, policy, saving, puts, overlap, left>>,
         R!AnswersAreRecent'
  PROVE  ResourceInv'
<1>1. DEFINE s == WithCache(inst[i], e, reg)
<1>2. /\ s \in Processes /\ s.cache = e /\ s.registry = reg /\ s.heard = inst[i].heard
      /\ s.up = inst[i].up /\ s.put = inst[i].put /\ s.strict = inst[i].strict
  BY ResourceFacts DEF Processes, WithCache
<1>3. inst' = [inst EXCEPT ![i] = s]
  OBVIOUS
<1> HIDE DEF s
<1>4. e # None => e.active = Puts(call[i]) /\ e.age = 0
  OBVIOUS
<1>5. call[i].age \in Nat
  BY ResourceFacts DEF R!Calls
<1>6. SoundMemory(s, None, mine[i], R!DocActive, since)
  BY <1>2, <1>4, <1>5, ResourceFacts DEF SoundMemory, Settled
<1>7. SoundStart(s, None, policy, saving, puts, Whole)
  BY <1>2, ResourceFacts DEF SoundStart
<1>8. QED BY <1>2, <1>3, <1>6, <1>7, ResourceFacts, ResourceEnds

LEMMA RegistrySteps ==
  ASSUME R!ResourcesAssumption, ResourceInv, NEW i \in Instances,
         \/ R!OpenRegistry(i) \/ R!WarmCache(i) \/ R!Lookup(i)
         \/ \E v \in Statuses : R!BeginWrite(i, "register", v)
         \/ R!BeginWrite(i, "revoke", None) \/ R!BeginWrite(i, "update", None)
         \/ R!RevokeReturns(i) \/ R!UpdateReturns(i) \/ R!StoreFails(i)
  PROVE  ResourceInv'
<1>1. ASSUME R!OpenRegistry(i) \/ R!Lookup(i)
      PROVE  ResourceInv'
  <2>1. /\ R!Idle(i) /\ answer' = None
        /\ UNCHANGED <<inst, doc, since, mine, count, policy, saving, puts, overlap, left>>
        /\ \/ R!Begin(i, "open", "warm", None)
           \/ R!Begin(i, "lookup", "get", None) /\ inst[i].registry = "store"
    BY <1>1 DEF R!OpenRegistry, R!Lookup, R!registryVars, R!policyVars
  <2>2. left' \in R!Means
    BY <2>1, ResourceFacts
  <2>3. QED BY <2>1, <2>2, ResourceBegins
<1>2. ASSUME NEW op \in {"register", "revoke", "update"}, NEW v \in Statuses \union {None},
             R!BeginWrite(i, op, v)
      PROVE  ResourceInv'
  <2>1. left' \in R!Means
    BY <1>2, Spending, ResourceFacts DEF R!BeginWrite
  <2>2. /\ R!Idle(i) /\ answer' = None /\ inst[i].registry = "store"
        /\ UNCHANGED <<inst, doc, since, mine, count, policy, saving, puts, overlap>>
        /\ R!Begin(i, op, "write", v) /\ (op # "register" => R!DocActive)
    BY <1>2 DEF R!BeginWrite, R!registryVars, R!policyVars
  <2>3. QED BY <2>1, <2>2, ResourceBegins
<1>3. CASE R!WarmCache(i)
  <2>1. DEFINE e == IF call[i].read = None THEN None
                    ELSE [active |-> call[i].read.status = "active", age |-> 0]
  <2>2. /\ inst' = [inst EXCEPT ![i] = WithCache(inst[i], e, "store")]
        /\ R!End(i) /\ answer' = None /\ call[i] # None /\ call[i].op = "open"
        /\ UNCHANGED <<doc, since, mine, count, policy, saving, puts, overlap, left>>
    BY <1>3, ResourceFacts DEF R!WarmCache, R!At, R!registryVars, R!policyVars, Processes, WithCache
  <2>3. Settled(call[i]) /\ Puts(call[i]) = (call[i].read # None /\ call[i].read.status = "active")
    BY <2>2 DEF Settled, Puts
  <2>4. e \in Entries \union {None} /\ (e # None => e = [active |-> Puts(call[i]), age |-> 0])
    BY <2>3 DEF Entries
  <2> HIDE DEF e
  <2>5. QED BY <2>2, <2>3, <2>4, CachePuts, NoAnswer
<1>4. ASSUME NEW active \in BOOLEAN, R!CachePut(i, active), R!End(i), call[i] # None,
             Settled(call[i]), Puts(call[i]) = active, answer' = None,
             UNCHANGED <<doc, since, mine, count, policy, saving, puts, overlap, left>>
      PROVE  ResourceInv'
  <2>1. DEFINE e == [active |-> active, age |-> 0]
  <2>2. inst' = [inst EXCEPT ![i] = WithCache(inst[i], e, inst[i].registry)]
    BY <1>4, ResourceFacts DEF R!CachePut, Processes, WithCache
  <2>3. e \in Entries /\ e = [active |-> Puts(call[i]), age |-> 0]
    BY <1>4 DEF Entries
  <2> HIDE DEF e
  <2>4. QED BY <1>4, <2>2, <2>3, CachePuts, NoAnswer
<1>5. CASE R!RevokeReturns(i)
  <2>1. Settled(call[i]) /\ Puts(call[i]) = FALSE
    BY <1>5 DEF R!RevokeReturns, R!At, Settled, Puts
  <2>2. QED BY <1>4, <1>5, <2>1 DEF R!RevokeReturns, R!At, R!registryVars, R!policyVars
<1>6. CASE R!UpdateReturns(i)
  <2>1. Settled(call[i]) /\ Puts(call[i]) = TRUE
    BY <1>6 DEF R!UpdateReturns, R!At, Settled, Puts
  <2>2. QED BY <1>4, <1>6, <2>1 DEF R!UpdateReturns, R!At, R!registryVars, R!policyVars
<1>7. CASE R!StoreFails(i)
  <2>1. DEFINE s == CASE call[i].op = "open" -> [inst[i] EXCEPT !.registry = "store"]
                      [] call[i].op = "start" -> [inst[i] EXCEPT !.up = TRUE, !.ready = TRUE]
                      [] OTHER -> inst[i]
  <2>2. inst' = [inst EXCEPT ![i] = s]
    BY <1>7 DEF R!StoreFails, ResourceInv, ResourceTypes
  <2>3. /\ call' = [call EXCEPT ![i] = None] /\ mine' = [mine EXCEPT ![i] = None]
        /\ answer' = None /\ call[i] # None
        /\ UNCHANGED <<doc, since, count, policy, saving, puts, overlap>>
    BY <1>7 DEF R!StoreFails, R!End, R!policyVars
  <2>4. left' \in R!Means
    BY <1>7, Spending, ResourceFacts DEF R!StoreFails
  <2>5. /\ s \in Processes /\ s.cache = inst[i].cache /\ s.heard = inst[i].heard
        /\ inst[i].up => s.up
        /\ s.put = inst[i].put /\ s.strict = inst[i].strict
    BY ResourceFacts DEF Processes
  <2> HIDE DEF s
  <2>6. SoundMemory(s, None, None, R!DocActive, since)
    BY <2>5, ResourceFacts DEF SoundMemory, Settled
  <2>7. SoundStart(s, None, policy, saving, puts, Whole)
    BY <2>5, ResourceFacts DEF SoundStart
  <2>8. SoundWrite(None, doc, Alone)
    BY DEF SoundWrite
  <2>9. QED BY <2>2, <2>3, <2>4, <2>5, <2>6, <2>7, <2>8, ProcessStep, NoAnswer
<1>8. QED BY <1>1, <1>2, <1>3, <1>5, <1>6, <1>7

\* authorize.
LEMMA AuthorizeSteps ==
  ASSUME R!ResourcesAssumption, ResourceInv, NEW i \in Instances,
         R!AuthorizeAtOnce(i) \/ R!LookupReturns(i)
  PROVE  ResourceInv'
<1>1. ASSUME NEW active \in BOOLEAN, R!Answer(i, active), inst'[i].registry = inst[i].registry,
             UNCHANGED <<doc, since, mine>>,
             inst[i].registry = "store" /\ active # R!DocActive => since < CacheTTL + Delay,
             mine[i] # None => active = mine[i]
      PROVE  R!AnswersAreRecent'
  BY <1>1 DEF R!Answer, R!AnswersAreRecent, R!ForeignWritesAreSeen, R!OwnWritesAreSeen,
       R!DocActive
<1>2. CASE R!AuthorizeAtOnce(i)
  <2>1. /\ call[i] = None
        /\ UNCHANGED <<inst, call, doc, since, mine, count, policy, saving, puts, overlap, left>>
    BY <1>2 DEF R!AuthorizeAtOnce, R!Idle, R!registryVars, R!policyVars
  <2>2. R!AnswersAreRecent'
    <3>1. CASE inst[i].registry = "memory" /\ R!Answer(i, FALSE)
      <4>1. mine[i] = None
        BY <3>1, ResourceFacts DEF SoundMemory
      <4>2. QED BY <1>1, <2>1, <3>1, <4>1
    <3>2. CASE R!Fresh(i) /\ R!Answer(i, inst[i].cache.active)
      <4>1. inst[i].cache \in Entries /\ inst[i].cache # None /\ inst[i].cache.age < CacheTTL
        BY <3>2, ResourceFacts DEF R!Fresh, Processes
      <4>2. inst[i].cache.active \in BOOLEAN /\ inst[i].cache.age \in Nat
        BY <4>1 DEF Entries
      <4>3. inst[i].cache.active # R!DocActive => since < CacheTTL + Delay
        BY <4>1, <4>2, ResourceFacts DEF SoundMemory
      <4>4. mine[i] # None => inst[i].cache.active = mine[i]
        BY <2>1, <4>1, ResourceFacts DEF SoundMemory, Behind
      <4>5. QED BY <1>1, <2>1, <3>2, <4>2, <4>3, <4>4
    <3>3. QED BY <1>2, <3>1, <3>2 DEF R!AuthorizeAtOnce
  <2>3. /\ inst' = [inst EXCEPT ![i] = inst[i]] /\ call' = [call EXCEPT ![i] = call[i]]
        /\ mine' = [mine EXCEPT ![i] = mine[i]]
    BY <2>1 DEF ResourceInv, ResourceTypes
  <2>4. QED BY <2>1, <2>2, <2>3, ResourceFacts, ProcessStep
<1>3. CASE R!LookupReturns(i)
  <2>1. DEFINE active == call[i].read # None /\ call[i].read.status = "active"
               e == [active |-> active, age |-> 0]
  <2>2. /\ R!CachePut(i, active) /\ R!Answer(i, active) /\ R!End(i)
        /\ call[i] # None /\ call[i].op = "lookup"
        /\ UNCHANGED <<doc, since, mine, count, policy, saving, puts, overlap, left>>
    BY <1>3 DEF R!LookupReturns, R!At, R!registryVars, R!policyVars
  <2>3. Settled(call[i]) /\ Puts(call[i]) = active
    BY <2>2 DEF Settled, Puts
  <2>4. active \in BOOLEAN
    OBVIOUS
  <2> HIDE DEF active
  <2>5. inst' = [inst EXCEPT ![i] = WithCache(inst[i], e, inst[i].registry)]
    BY <2>2, ResourceFacts DEF R!CachePut, Processes, WithCache
  <2>6. e \in Entries /\ e = [active |-> Puts(call[i]), age |-> 0]
    BY <2>3, <2>4 DEF Entries
  <2> HIDE DEF e
  <2>7. inst'[i].registry = inst[i].registry
    BY <2>5, ResourceFacts DEF Processes, WithCache, ResourceInv, ResourceTypes
  <2>8. call[i].age \in Nat
    BY <2>2, ResourceFacts DEF R!Calls
  <2>9. active # R!DocActive => since < CacheTTL + Delay
    BY <2>2, <2>3, <2>8, ResourceFacts DEF SoundMemory
  <2>10. mine[i] # None => active = mine[i]
    BY <2>3, ResourceFacts DEF SoundMemory
  <2>11. R!AnswersAreRecent'
    BY <1>1, <2>2, <2>4, <2>7, <2>9, <2>10
  <2>12. QED BY <2>2, <2>3, <2>5, <2>6, <2>11, CachePuts
<1>4. QED BY <1>2, <1>3

\* A step of the policy, which leaves caches and documents as they are.
LEMMA PolicyFrame ==
  ASSUME R!ResourcesAssumption, ResourceInv, answer' = None,
         UNCHANGED <<doc, since, mine, count>>, left' \in R!Means,
         policy' \in R!Policies \union {None}, saving' \in SUBSET R!Policies, puts' \in Nat,
         inst' \in [Instances -> Processes], call' \in [Instances -> R!Calls \union {None}],
         \A j \in Instances :
           /\ inst'[j].cache = inst[j].cache /\ inst'[j].registry = inst[j].registry
           /\ call'[j] = call[j] \/ (call'[j] = None /\ ~Behind(call[j]))
           /\ SoundStart(inst'[j], call'[j], policy', saving', puts', Whole'),
         overlap' \in {overlap, overlap \union {"policy"}}, SoundPolicy'
  PROVE  ResourceInv'
<1>1. ResourceTypes'
  BY DEF ResourceInv, ResourceTypes
<1>2. R!DocActive' = R!DocActive /\ Alone' = Alone /\ ("write" \in overlap' <=> "write" \in overlap)
  BY DEF R!DocActive, Alone
<1>3. ASSUME NEW j \in Instances
      PROVE  SoundMemory(inst'[j], call'[j], mine'[j], R!DocActive', since')
             /\ SoundWrite(call'[j], doc', Alone')
  BY <1>2, ResourceFacts DEF SoundMemory, SoundWrite, Settled, Behind
<1>4. SoundProcesses'
  BY <1>3 DEF SoundProcesses
<1>5. SoundDocument' /\ (since <= CacheTTL + Delay)'
  BY <1>2 DEF ResourceInv, SoundDocument
<1>6. QED BY <1>1, <1>4, <1>5, NoAnswer DEF ResourceInv

LEMMA SaveDefaultStep ==
  ASSUME R!ResourcesAssumption, ResourceInv, NEW i \in Instances, R!SaveDefault(i)
  PROVE  ResourceInv'
<1>0. /\ inst \in [Instances -> Processes] /\ call \in [Instances -> R!Calls \union {None}]
      /\ saving \in SUBSET R!Policies /\ SoundPolicy
      /\ left \in R!Means /\ puts \in Nat /\ policy \in R!Policies \union {None}
  BY DEF ResourceInv, ResourceTypes
<1>1. DEFINE s == [inst[i] EXCEPT !.up = TRUE, !.ready = TRUE, !.heard = call[i].id]
             p == [strict |-> FALSE, put |-> 0]
<1>2. /\ inst' = [inst EXCEPT ![i] = s] /\ answer' = None
      /\ call' = [call EXCEPT ![i] = None] /\ call[i] # None
      /\ call[i].op = "start" /\ call[i].at = "load"
      /\ UNCHANGED <<doc, since, mine, count, saving, puts, left>>
      /\ policy' = p /\ overlap' = overlap \union (IF puts > 0 THEN {"policy"} ELSE {})
  BY DEF R!SaveDefault, R!At, R!End, R!registryVars
<1>3. call[i].id \in Nat /\ inst[i] \in Processes
  BY <1>2, ResourceFacts DEF R!Calls
<1>4. /\ s \in Processes /\ s.cache = inst[i].cache /\ s.registry = inst[i].registry
      /\ s.heard = call[i].id /\ s.up
  BY <1>3 DEF Processes
<1>5. p \in R!Policies
  BY DEF R!Policies
<1> HIDE DEF s, p
<1>6. puts > 0 => ~Whole'
  BY <1>2 DEF Whole
<1>7. puts = 0 => Whole' = Whole
  BY <1>2 DEF Whole
<1>8. ASSUME NEW j \in Instances
      PROVE  SoundStart(inst'[j], call'[j], policy', saving', puts', Whole')
  <2>1. ~(Whole' /\ puts' > 0)
    BY <1>2, <1>6
  <2>2. CASE j = i
    <3>1. inst'[j] = s /\ call'[j] = None
      BY <1>0, <1>2, <2>2
    <3>2. call[i].id <= puts
      BY <1>2, ResourceFacts DEF SoundStart
    <3>3. QED BY <1>2, <1>4, <2>1, <3>1, <3>2 DEF SoundStart
  <2>3. CASE j # i
    <3>1. inst'[j] = inst[j] /\ call'[j] = call[j]
      BY <1>0, <1>2, <2>3
    <3>2. QED BY <1>2, <2>1, <3>1, ResourceFacts DEF SoundStart
  <2>4. QED BY <2>2, <2>3
<1>9. SoundPolicy'
  BY <1>0, <1>2, <1>6, <1>7 DEF SoundPolicy
<1>10. ~Behind(call[i])
  BY <1>2 DEF Behind
<1>11. /\ inst' \in [Instances -> Processes]
       /\ call' \in [Instances -> R!Calls \union {None}]
       /\ \A j \in Instances :
            /\ inst'[j].cache = inst[j].cache /\ inst'[j].registry = inst[j].registry
            /\ call'[j] = call[j] \/ (call'[j] = None /\ ~Behind(call[j]))
  BY <1>0, <1>2, <1>4, <1>10
<1>12. overlap' \in {overlap, overlap \union {"policy"}}
  BY <1>2
<1>13. QED BY <1>0, <1>2, <1>5, <1>8, <1>9, <1>11, <1>12, PolicyFrame

LEMMA PolicySteps ==
  ASSUME R!ResourcesAssumption, ResourceInv,
         \/ \E i \in Instances, strict \in BOOLEAN : R!UpdatePolicy(i, strict)
         \/ \E p \in saving : R!PolicySaved(p) \/ R!PolicyNotSaved(p)
  PROVE  ResourceInv'
<1>1. /\ inst \in [Instances -> Processes] /\ call \in [Instances -> R!Calls \union {None}]
      /\ saving \in SUBSET R!Policies /\ SoundPolicy
      /\ left \in R!Means /\ puts \in Nat /\ policy \in R!Policies \union {None}
  BY DEF ResourceInv, ResourceTypes
<1>2. ASSUME NEW i \in Instances, NEW strict \in BOOLEAN, R!UpdatePolicy(i, strict)
      PROVE  ResourceInv'
  <2>1. DEFINE s == [inst[i] EXCEPT !.strict = strict, !.put = puts + 1]
               p == [strict |-> strict, put |-> puts + 1]
  <2>2. /\ inst' = [inst EXCEPT ![i] = s] /\ answer' = None /\ call[i] = None
        /\ UNCHANGED <<doc, since, mine, count, policy, call>> /\ puts' = puts + 1
        /\ saving' = saving \union {p}
        /\ overlap' = overlap \union (IF saving # {} THEN {"policy"} ELSE {})
    BY <1>2 DEF R!UpdatePolicy, R!Idle, R!registryVars
  <2>3. left' \in R!Means
    BY <1>1, <1>2, Spending DEF R!UpdatePolicy
  <2>4. inst[i] \in Processes /\ puts + 1 \in Nat
    BY <1>1
  <2>5. /\ s \in Processes /\ s.cache = inst[i].cache /\ s.registry = inst[i].registry
        /\ s.heard = inst[i].heard /\ s.up = inst[i].up
    BY <2>4 DEF Processes
  <2>6. p \in R!Policies /\ p.put = puts + 1
    BY <1>1 DEF R!Policies
  <2> HIDE DEF s, p
  <2>7. ASSUME NEW j \in Instances
        PROVE  SoundStart(inst'[j], call'[j], policy', saving', puts', Whole')
    <3>1. inst'[j].heard = inst[j].heard /\ inst'[j].up = inst[j].up
      BY <1>1, <2>2, <2>5
    <3>2. inst[j].heard \in Nat /\ (call[j] # None => call[j].id \in Nat)
      BY ResourceFacts DEF Processes, R!Calls
    <3>3. QED BY <1>1, <2>2, <3>1, <3>2, ResourceFacts DEF SoundStart
  <2>8. SoundPolicy'
    BY <1>1, <2>2, <2>6 DEF SoundPolicy, Whole
  <2>9. /\ inst' \in [Instances -> Processes]
        /\ \A j \in Instances :
             inst'[j].cache = inst[j].cache /\ inst'[j].registry = inst[j].registry
    BY <1>1, <2>2, <2>5
  <2>10. /\ overlap' \in {overlap, overlap \union {"policy"}}
         /\ saving' \in SUBSET R!Policies /\ puts' \in Nat
    BY <1>1, <2>2, <2>6
  <2>11. QED BY <1>1, <2>2, <2>3, <2>7, <2>8, <2>9, <2>10, PolicyFrame
<1>3. ASSUME NEW p \in saving, R!PolicySaved(p)
      PROVE  ResourceInv'
  <2>1. /\ policy' = p /\ saving' = saving \ {p} /\ answer' = None
        /\ UNCHANGED <<doc, since, mine, count, puts, inst, call, left, overlap>>
    BY <1>3 DEF R!PolicySaved, R!registryVars
  <2>2. Whole' = Whole
    BY <2>1 DEF Whole
  <2>3. ASSUME NEW j \in Instances
        PROVE  SoundStart(inst[j], call[j], policy', saving', puts, Whole)
    BY <1>3, ResourceFacts DEF SoundStart
  <2>4. SoundPolicy'
    BY <1>1, <2>1, <2>2 DEF SoundPolicy, R!ResourcesAssumption
  <2>5. policy' \in R!Policies \union {None} /\ saving' \in SUBSET R!Policies
    BY <1>1, <2>1
  <2>6. QED BY <1>1, <2>1, <2>2, <2>3, <2>4, <2>5, PolicyFrame
<1>4. ASSUME NEW p \in saving, R!PolicyNotSaved(p)
      PROVE  ResourceInv'
  <2>1. /\ saving' = saving \ {p} /\ answer' = None /\ overlap' = overlap \union {"policy"}
        /\ UNCHANGED <<doc, since, mine, count, puts, inst, call, policy>>
    BY <1>4 DEF R!PolicyNotSaved, R!registryVars
  <2>2. ~Whole' /\ SoundPolicy'
    BY <2>1 DEF Whole, SoundPolicy
  <2>3. ASSUME NEW j \in Instances
        PROVE  SoundStart(inst[j], call[j], policy, saving', puts, Whole')
    BY <2>2, ResourceFacts DEF SoundStart
  <2>4. left' \in R!Means
    BY <1>1, <1>4, Spending DEF R!PolicyNotSaved
  <2>5. saving' \in SUBSET R!Policies
    BY <1>1, <2>1
  <2>6. QED BY <1>1, <2>1, <2>2, <2>3, <2>4, <2>5, PolicyFrame
<1>5. QED BY <1>2, <1>3, <1>4

\* The process i registers or revokes the resource.
LEMMA DocumentTurns ==
  ASSUME R!ResourcesAssumption, ResourceInv, NEW i \in Instances, NEW active \in BOOLEAN,
         NEW at \in {"record", "finish"}, R!Turns(i, active), R!Goto(i, at),
         call[i] # None, call[i].op = IF active THEN "register" ELSE "revoke",
         at = IF active THEN "record" ELSE "finish",
         NEW d \in R!Documents, doc' = d, d.status = IF active THEN "active" ELSE "revoked",
         count' \in Nat, UNCHANGED <<inst, left, policy, saving, puts>>, answer' = None,
         overlap \subseteq overlap', Whole' = Whole, SoundDocument',
         Alone' => /\ active => d.id = call[i].id
                   /\ \A j \in Instances \ {i} :
                        call[j] # None /\ call[j].at = "record" => d.id = call[j].id
  PROVE  ResourceInv'
<1>1. DEFINE c == [call[i] EXCEPT !.at = at]
<1>2. call' = [call EXCEPT ![i] = c]
  BY DEF R!Goto
<1>3. /\ c \in R!Calls /\ c.op = call[i].op /\ c.at = at /\ c.id = call[i].id
      /\ c.age = call[i].age /\ c.read = call[i].read
  BY ResourceFacts DEF R!Calls
<1> HIDE DEF c
<1>4. /\ call'[i] = c /\ \A j \in Instances \ {i} : call'[j] = call[j]
      /\ call' \in [Instances -> R!Calls \union {None}]
      /\ mine' \in [Instances -> BOOLEAN \union {None}]
      /\ mine'[i] = active /\ \A j \in Instances \ {i} : mine'[j] = None
      /\ since' = 0
  BY <1>2, <1>3 DEF R!Turns, ResourceInv, ResourceTypes
<1>5. d # None /\ (R!DocActive' <=> active)
  BY ResourceFacts DEF R!DocActive
<1>6. ASSUME NEW j \in Instances
      PROVE  SoundMemory(inst[j], call'[j], mine'[j], R!DocActive', 0)
  <2>1. /\ inst[j].cache # None => inst[j].cache.age \in Nat
        /\ call[j] # None => call[j].age \in Nat
        /\ Delay \in Nat /\ c # None
        /\ SoundMemory(inst[j], call[j], mine[j], R!DocActive, since)
    BY <1>3, ResourceFacts DEF Processes, Entries, R!Calls
  <2>2. CASE j = i
    <3>1. /\ active => c.op = "register" /\ c.at = "record"
          /\ ~active => c.op = "revoke" /\ c.at = "finish"
      BY <1>3
    <3>2. Behind(c) /\ (Puts(c) <=> active)
      BY <2>1, <3>1 DEF Behind, Puts
    <3>3. Puts(c) \in BOOLEAN /\ R!DocActive' \in BOOLEAN
      BY DEF Puts, R!DocActive
    <3>4. c.age <= Delay /\ inst[j].registry = "store"
      BY <1>3, <2>1, <2>2, <3>1 DEF SoundMemory
    <3>5. QED BY <1>3, <1>4, <1>5, <2>1, <2>2, <3>2, <3>3, <3>4 DEF SoundMemory
  <2>3. CASE j # i
    <3>1. call'[j] = call[j] /\ mine'[j] = None
      BY <1>4, <2>3
    <3>2. /\ inst[j].cache # None => inst[j].cache.age <= CacheTTL /\ 0 <= inst[j].cache.age + Delay
          /\ call[j] # None => call[j].age <= Delay /\ 0 <= call[j].age
          /\ call[j] # None /\ call[j].op \in {"register", "revoke"} => inst[j].registry = "store"
      BY <2>1 DEF SoundMemory
    <3>3. QED BY <3>1, <3>2 DEF SoundMemory, Settled
  <2>4. QED BY <2>2, <2>3
<1>7. ASSUME NEW j \in Instances
      PROVE  SoundStart(inst[j], call'[j], policy, saving, puts, Whole)
  BY <1>3, <1>4, ResourceFacts DEF SoundStart
<1>8. ASSUME NEW j \in Instances
      PROVE  SoundWrite(call'[j], d, Alone')
  <2>1. CASE j = i
    BY <1>3, <1>4, <1>5, <2>1, ResourceFacts DEF SoundWrite
  <2>2. CASE j # i
    BY <1>4, <1>5, <2>2, ResourceFacts DEF SoundWrite
  <2>3. QED BY <2>1, <2>2
<1>9. SoundProcesses'
  BY <1>4, <1>6, <1>7, <1>8 DEF SoundProcesses
<1>10. ResourceTypes' /\ (since <= CacheTTL + Delay)'
  BY <1>4, ResourceFacts DEF ResourceInv, ResourceTypes
<1>11. SoundPolicy'
  BY DEF ResourceInv, SoundPolicy
<1>12. QED BY <1>9, <1>10, <1>11, NoAnswer DEF ResourceInv

\* The process i writes the document, which stays active or revoked.
LEMMA DocumentStays ==
  ASSUME R!ResourcesAssumption, ResourceInv, NEW i \in Instances, NEW s \in Processes,
         NEW c \in R!Calls \union {None},
         inst' = [inst EXCEPT ![i] = s], call' = [call EXCEPT ![i] = c],
         NEW d \in R!Documents, doc' = d, doc # None, d.status = doc.status, d.id = doc.id,
         count' \in Nat, UNCHANGED <<mine, since, left, policy, saving, puts>>, answer' = None,
         Whole' = Whole, Alone' => Alone, SoundDocument',
         SoundMemory(s, c, mine[i], R!DocActive, since),
         SoundStart(s, c, policy, saving, puts, Whole), SoundWrite(c, doc, Alone)
  PROVE  ResourceInv'
<1>1. /\ call'[i] = c /\ \A j \in Instances \ {i} : call'[j] = call[j]
      /\ inst'[i] = s /\ \A j \in Instances \ {i} : inst'[j] = inst[j]
      /\ ResourceTypes'
  BY ResourceFacts DEF ResourceInv, ResourceTypes
<1>2. d # None /\ R!DocActive' = R!DocActive
  BY ResourceFacts DEF R!DocActive
<1>3. ASSUME NEW j \in Instances
      PROVE  /\ SoundMemory(inst'[j], call'[j], mine[j], R!DocActive, since)
             /\ SoundStart(inst'[j], call'[j], policy, saving, puts, Whole)
             /\ SoundWrite(call'[j], doc, Alone)
  <2>1. CASE j = i
    BY <1>1, <2>1
  <2>2. CASE j # i
    BY <1>1, <2>2, ResourceFacts
  <2>3. QED BY <2>1, <2>2
<1>4. ASSUME NEW j \in Instances
      PROVE  SoundWrite(call'[j], d, Alone')
  BY <1>2, <1>3 DEF SoundWrite
<1>5. SoundProcesses'
  BY <1>2, <1>3, <1>4 DEF SoundProcesses
<1>6. SoundPolicy' /\ (since <= CacheTTL + Delay)'
  BY DEF ResourceInv, SoundPolicy
<1>7. QED BY <1>1, <1>5, <1>6, NoAnswer DEF ResourceInv

\* A write that crossed no other finds the version that its call read.
LEMMA Uncrossed ==
  ASSUME R!ResourcesAssumption, ResourceInv, NEW i \in Instances, R!Crossing(i) = {}
  PROVE  /\ call[i].read = None <=> doc = None
         /\ doc # None => call[i].read.version = doc.version
BY DEF R!Crossing

LEMMA CrossingTags == \A i : R!Crossing(i) \in {{}, {"write"}}
BY DEF R!Crossing

LEMMA DocumentSteps ==
  ASSUME R!ResourcesAssumption, ResourceInv, NEW i \in Instances,
         R!Register(i) \/ R!UpdateVerification(i) \/ R!Revoke(i) \/ R!UpdateMetadata(i)
  PROVE  ResourceInv'
<1>1. CASE R!Register(i)
  <2>1. DEFINE old == call[i].read
               d == [status |-> "active", id |-> call[i].id,
                     version |-> IF old = None THEN 1 ELSE old.version + 1, verdict |-> None]
               late == IF \E j \in Instances \ {i} : R!At(j, "register", "record") THEN {"verdict"}
                       ELSE {}
  <2>2. /\ doc' = d /\ count' = count + 1 /\ overlap' = overlap \union R!Crossing(i) \union late
        /\ R!Turns(i, TRUE) /\ R!Goto(i, "record") /\ answer' = None
        /\ UNCHANGED <<inst, left, policy, saving, puts>>
        /\ call[i] # None /\ call[i].op = "register"
    BY <1>1 DEF R!Register, R!At, R!policyVars
  <2>3. old \in R!Documents \union {None} /\ call[i].id \in Nat
    BY <2>2, ResourceFacts DEF SoundWrite, R!Calls
  <2>4. /\ d \in R!Documents /\ d.status = "active" /\ d.id = call[i].id /\ d.verdict = None
        /\ d.version = IF old = None THEN 1 ELSE old.version + 1
    BY <2>3 DEF R!Documents
  <2>5. /\ late \in {{}, {"verdict"}}
        /\ "verdict" \notin late => \A j \in Instances \ {i} : ~R!At(j, "register", "record")
    OBVIOUS
  <2> HIDE DEF d, late
  <2>6. Whole' = Whole /\ overlap \subseteq overlap'
    BY <2>2, <2>5, CrossingTags DEF Whole
  <2>7. ASSUME "write" \notin overlap'
        PROVE  d.version = count + 1
    <3>1. R!Crossing(i) = {} /\ "write" \notin overlap
      BY <2>2, <2>7, CrossingTags
    <3>2. CASE doc = None
      BY <2>4, <3>1, <3>2, Uncrossed DEF ResourceInv, SoundDocument
    <3>3. CASE doc # None
      BY <2>4, <3>1, <3>3, Uncrossed DEF ResourceInv, SoundDocument
    <3>4. QED BY <3>2, <3>3
  <2>8. SoundDocument'
    BY <2>2, <2>4, <2>7, ResourceFacts DEF SoundDocument
  <2>9. ASSUME Alone', NEW j \in Instances \ {i}
        PROVE  ~(call[j] # None /\ call[j].at = "record")
    <3>1. ~R!At(j, "register", "record")
      BY <2>2, <2>5, <2>9 DEF Alone
    <3>2. QED BY <3>1, ResourceFacts DEF R!At, SoundWrite
  <2>10. count' \in Nat
    BY <2>2, ResourceFacts
  <2>11. QED BY <2>2, <2>4, <2>6, <2>8, <2>9, <2>10, DocumentTurns, ZenonT(120)
<1>2. CASE R!Revoke(i)
  <2>1. DEFINE d == [doc EXCEPT !.status = "revoked"]
  <2>2. /\ doc' = d /\ overlap' = overlap \union R!Crossing(i)
        /\ R!Turns(i, FALSE) /\ R!Goto(i, "finish") /\ answer' = None
        /\ UNCHANGED <<inst, left, policy, saving, puts, count>>
        /\ call[i] # None /\ call[i].op = "revoke"
    BY <1>2 DEF R!Revoke, R!At, R!policyVars
  <2>3. doc \in R!Documents
    BY <2>2, ResourceFacts DEF SoundWrite
  <2>4. /\ d \in R!Documents /\ d.status = "revoked" /\ d.id = doc.id
        /\ d.verdict = doc.verdict /\ d.version = doc.version
    BY <2>3 DEF R!Documents
  <2> HIDE DEF d
  <2>5. Whole' = Whole /\ Alone' = Alone /\ overlap \subseteq overlap'
    BY <2>2, CrossingTags DEF Whole, Alone
  <2>6. SoundDocument'
    BY <2>2, <2>3, <2>4, <2>5, ResourceFacts DEF SoundDocument, ResourceInv
  <2>7. ASSUME Alone, NEW j \in Instances, call[j] # None, call[j].at = "record"
        PROVE  d.id = call[j].id
    BY <2>4, <2>7, ResourceFacts DEF SoundWrite
  <2>8. count' \in Nat
    BY <2>2, ResourceFacts
  <2>9. QED BY <2>2, <2>4, <2>5, <2>6, <2>7, <2>8, DocumentTurns, ZenonT(120)
<1>3. CASE R!UpdateVerification(i)
  <2>1. DEFINE d == [doc EXCEPT !.verdict = [id |-> call[i].id, status |-> call[i].verdict]]
               e == [active |-> TRUE, age |-> 0]
               s == WithCache(inst[i], e, inst[i].registry)
  <2>2. /\ doc' = d /\ R!CachePut(i, TRUE) /\ call' = [call EXCEPT ![i] = None]
        /\ UNCHANGED <<since, mine, count, left, policy, saving, puts, overlap>> /\ answer' = None
        /\ call[i] # None /\ call[i].op = "register" /\ call[i].at = "record"
    BY <1>3 DEF R!UpdateVerification, R!End, R!At, R!policyVars
  <2>3. doc \in R!Documents /\ call[i] \in R!Calls /\ inst[i] \in Processes
    BY <2>2, ResourceFacts DEF SoundWrite
  <2>4. [id |-> call[i].id, status |-> call[i].verdict] \in [id : Nat, status : Statuses \union {None}]
    BY <2>3 DEF R!Calls
  <2>5. /\ d \in R!Documents /\ d.status = doc.status /\ d.id = doc.id
        /\ d.verdict.id = call[i].id /\ d.version = doc.version
    BY <2>3, <2>4 DEF R!Documents
  <2>6. inst' = [inst EXCEPT ![i] = s]
    BY <2>2, <2>3 DEF R!CachePut, Processes, WithCache
  <2>7. e \in Entries /\ e.active = TRUE /\ e.age = 0
    BY DEF Entries
  <2> HIDE DEF d, e
  <2>8. /\ s \in Processes /\ s.cache = e /\ s.registry = inst[i].registry
        /\ s.heard = inst[i].heard /\ s.up = inst[i].up /\ s.put = inst[i].put
        /\ s.strict = inst[i].strict
    BY <2>3, <2>7 DEF Processes, WithCache
  <2> HIDE DEF s
  <2>9. Settled(call[i]) /\ e.active = Puts(call[i]) /\ call[i].age \in Nat
    BY <2>2, <2>3, <2>7 DEF Settled, Puts, R!Calls
  <2>10. SoundMemory(s, None, mine[i], R!DocActive, since)
    BY <2>2, <2>7, <2>8, <2>9, ResourceFacts DEF SoundMemory, Settled
  <2>11. SoundStart(s, None, policy, saving, puts, Whole) /\ SoundWrite(None, doc, Alone)
    BY <2>8, ResourceFacts DEF SoundStart, SoundWrite
  <2>12. Whole' = Whole /\ Alone' = Alone
    BY <2>2 DEF Whole, Alone
  <2>13. Alone => doc.id = call[i].id
    BY <2>2, ResourceFacts DEF SoundWrite
  <2>14. SoundDocument'
    BY <2>2, <2>3, <2>5, <2>12, <2>13, ResourceFacts DEF SoundDocument, ResourceInv
  <2>15. count' \in Nat /\ doc # None
    BY <2>2, <2>3, ResourceFacts
  <2>16. QED BY <2>2, <2>5, <2>6, <2>8, <2>10, <2>11, <2>12, <2>14, <2>15, DocumentStays
<1>4. CASE R!UpdateMetadata(i)
  <2>1. DEFINE d == [doc EXCEPT !.version = call[i].read.version + 1]
               c == [call[i] EXCEPT !.at = "finish"]
  <2>2. /\ doc' = d /\ count' = count + 1 /\ overlap' = overlap \union R!Crossing(i)
        /\ call' = [call EXCEPT ![i] = c] /\ answer' = None
        /\ UNCHANGED <<since, mine, inst, left, policy, saving, puts>>
        /\ call[i] # None /\ call[i].op = "update" /\ call[i].at = "write"
    BY <1>4 DEF R!UpdateMetadata, R!At, R!Goto, R!policyVars
  <2>3. /\ doc \in R!Documents /\ call[i] \in R!Calls /\ inst[i] \in Processes
        /\ call[i].read \in R!Documents
    BY <2>2, ResourceFacts DEF SoundWrite
  <2>4. call[i].read.version + 1 \in Nat
    BY <2>3 DEF R!Documents
  <2>5. /\ d \in R!Documents /\ d.status = doc.status /\ d.id = doc.id
        /\ d.verdict = doc.verdict /\ d.version = call[i].read.version + 1
    BY <2>3, <2>4 DEF R!Documents
  <2>6. /\ c \in R!Calls /\ c.op = "update" /\ c.at = "finish" /\ c.age = call[i].age
        /\ c.read = call[i].read
    BY <2>2, <2>3 DEF R!Calls
  <2>7. inst' = [inst EXCEPT ![i] = inst[i]]
    BY <2>2 DEF ResourceInv, ResourceTypes
  <2> HIDE DEF d, c
  <2>8. Whole' = Whole /\ Alone' = Alone
    BY <2>2, CrossingTags DEF Whole, Alone
  <2>9. ASSUME "write" \notin overlap'
        PROVE  d.version = count + 1
    <3>1. R!Crossing(i) = {} /\ "write" \notin overlap
      BY <2>2, <2>9, CrossingTags
    <3>2. QED BY <2>3, <2>5, <3>1, Uncrossed, ResourceFacts DEF ResourceInv, SoundDocument
  <2>10. SoundDocument'
    BY <2>2, <2>3, <2>5, <2>8, <2>9, ResourceFacts DEF SoundDocument, ResourceInv
  <2>11. ~Behind(c) /\ ~Behind(call[i]) /\ Settled(call[i]) /\ Puts(c) = Puts(call[i])
    BY <2>2, <2>6 DEF Behind, Settled, Puts
  <2>12. SoundMemory(inst[i], c, mine[i], R!DocActive, since)
    BY <2>2, <2>6, <2>11, ResourceFacts DEF SoundMemory
  <2>13. SoundStart(inst[i], c, policy, saving, puts, Whole) /\ SoundWrite(c, doc, Alone)
    BY <2>2, <2>3, <2>6, ResourceFacts DEF SoundStart, SoundWrite
  <2>14. count' \in Nat /\ doc # None
    BY <2>2, <2>3, ResourceFacts
  <2>15. QED BY <2>2, <2>3, <2>5, <2>6, <2>7, <2>8, <2>10, <2>12, <2>13, <2>14, DocumentStays
<1>5. QED BY <1>1, <1>2, <1>3, <1>4

LEMMA TickStep ==
  ASSUME R!ResourcesAssumption, ResourceInv, R!Tick
  PROVE  ResourceInv'
<1>1. /\ since' = IF since < CacheTTL + Delay THEN since + 1 ELSE since
      /\ UNCHANGED <<doc, mine, count, policy, saving, puts, left, overlap>> /\ answer' = None
      /\ inst' = [j \in Instances |->
           IF R!Fresh(j) THEN [inst[j] EXCEPT !.cache.age = @ + 1] ELSE inst[j]]
      /\ call' = [j \in Instances |->
           IF call[j] = None THEN None ELSE [call[j] EXCEPT !.age = @ + 1]]
      /\ \A j \in Instances : call[j] # None => call[j].age < Delay
  BY DEF R!Tick, R!Forever, R!policyVars
<1>2. /\ CacheTTL \in Nat /\ Delay \in Nat /\ since \in Nat /\ since <= CacheTTL + Delay
      /\ None \notin R!Calls
  BY DEF R!ResourcesAssumption, ResourceInv, ResourceTypes
<1>3. ASSUME NEW j \in Instances
      PROVE  /\ inst'[j] \in Processes /\ inst'[j].registry = inst[j].registry
             /\ inst'[j].up = inst[j].up /\ inst'[j].heard = inst[j].heard
             /\ inst'[j].put = inst[j].put /\ inst'[j].strict = inst[j].strict
             /\ inst'[j].cache # None =>
                  /\ inst[j].cache # None /\ inst'[j].cache.active = inst[j].cache.active
                  /\ inst[j].cache.age \in Nat
                  /\ inst'[j].cache.age = IF inst[j].cache.age < CacheTTL THEN inst[j].cache.age + 1
                                          ELSE inst[j].cache.age
  <2>1. inst[j] \in Processes
    BY <1>3, ResourceFacts
  <2>2. CASE R!Fresh(j)
    <3>1. DEFINE e == [inst[j].cache EXCEPT !.age = @ + 1]
    <3>2. inst[j].cache # None /\ inst[j].cache \in Entries /\ inst[j].cache.age < CacheTTL
      BY <2>1, <2>2 DEF R!Fresh, Processes
    <3>3. /\ e \in Entries /\ e.active = inst[j].cache.active /\ inst[j].cache.age \in Nat
          /\ e.age = inst[j].cache.age + 1
      BY <3>2 DEF Entries
    <3>4. inst'[j] = [inst[j] EXCEPT !.cache = e]
      BY <1>1, <2>2
    <3> HIDE DEF e
    <3>5. QED BY <2>1, <3>2, <3>3, <3>4 DEF Processes
  <2>3. CASE ~R!Fresh(j)
    <3>1. inst'[j] = inst[j]
      BY <1>1, <2>3
    <3>2. inst[j].cache # None => inst[j].cache.age \in Nat /\ ~(inst[j].cache.age < CacheTTL)
      BY <2>1, <2>3 DEF R!Fresh, Processes, Entries
    <3>3. QED BY <2>1, <3>1, <3>2
  <2>4. QED BY <2>2, <2>3
<1>4. ASSUME NEW j \in Instances
      PROVE  /\ call'[j] \in R!Calls \union {None}
             /\ call'[j] # None =>
                  /\ call[j] # None /\ call[j].age \in Nat /\ call'[j].age = call[j].age + 1
                  /\ call'[j].op = call[j].op /\ call'[j].at = call[j].at
                  /\ call'[j].id = call[j].id /\ call'[j].read = call[j].read
  <2>1. CASE call[j] = None
    BY <1>1, <2>1
  <2>2. CASE call[j] # None
    <3>1. call[j] \in R!Calls /\ call'[j] = [call[j] EXCEPT !.age = @ + 1]
      BY <1>1, <2>2, ResourceFacts
    <3>2. QED BY <1>2, <2>2, <3>1 DEF R!Calls
  <2>3. QED BY <2>1, <2>2
<1>5. R!DocActive' = R!DocActive /\ Whole' = Whole /\ Alone' = Alone
  BY <1>1 DEF R!DocActive, Whole, Alone
<1>6. ASSUME NEW j \in Instances
      PROVE  SoundMemory(inst'[j], call'[j], mine[j], R!DocActive, since')
  <2>1. SoundMemory(inst[j], call[j], mine[j], R!DocActive, since)
    BY ResourceFacts
  <2>2. since' \in Nat /\ since' <= since + 1 /\ since' <= CacheTTL + Delay
    BY <1>1, <1>2
  <2>3. call'[j] # None => /\ Settled(call'[j]) => Settled(call[j])
                           /\ Puts(call'[j]) = Puts(call[j])
                           /\ Behind(call[j]) => Behind(call'[j])
    BY <1>4 DEF Settled, Puts, Behind
  <2>4. call'[j] = None => ~Settled(call'[j]) /\ call[j] = None
    BY <1>1, <1>2, <1>4, ResourceFacts DEF Settled, R!Calls
  <2>5. inst'[j].cache # None =>
          /\ inst'[j].cache.age <= CacheTTL
          /\ inst'[j].cache.active # R!DocActive => since' <= inst'[j].cache.age + Delay
    BY <1>2, <1>3, <2>1, <2>2 DEF SoundMemory
  <2>6. call'[j] # None => call'[j].age <= Delay
    BY <1>1, <1>2, <1>4, SMTT(60)
  <2>7. Settled(call'[j]) /\ Puts(call'[j]) # R!DocActive => since' <= call'[j].age
    BY <1>2, <1>4, <2>1, <2>2, <2>3, <2>4 DEF SoundMemory
  <2>8. mine[j] # None =>
          /\ mine[j] = R!DocActive /\ inst'[j].registry = "store"
          /\ Settled(call'[j]) => Puts(call'[j]) = mine[j]
          /\ inst'[j].cache # None /\ ~Behind(call'[j]) => inst'[j].cache.active = mine[j]
    BY <1>3, <2>1, <2>3, <2>4 DEF SoundMemory
  <2>9. call'[j] # None /\ call'[j].op \in {"register", "revoke"} => inst'[j].registry = "store"
    BY <1>3, <1>4, <2>1 DEF SoundMemory
  <2>10. QED BY <2>5, <2>6, <2>7, <2>8, <2>9 DEF SoundMemory
<1>7. ASSUME NEW j \in Instances
      PROVE  /\ SoundStart(inst'[j], call'[j], policy, saving, puts, Whole)
             /\ SoundWrite(call'[j], doc, Alone)
  BY <1>3, <1>4, ResourceFacts DEF SoundStart, SoundWrite
<1>8. SoundProcesses'
  BY <1>1, <1>5, <1>6, <1>7 DEF SoundProcesses
<1>9. inst' \in [Instances -> Processes] /\ call' \in [Instances -> R!Calls \union {None}]
  <2>1. inst' = [j \in Instances |-> inst'[j]] /\ call' = [j \in Instances |-> call'[j]]
    BY <1>1
  <2>2. QED BY <1>3, <1>4, <2>1
<1>10. ResourceTypes' /\ (since <= CacheTTL + Delay)'
  BY <1>1, <1>2, <1>9 DEF ResourceInv, ResourceTypes
<1>11. SoundDocument' /\ SoundPolicy'
  BY <1>1, <1>5 DEF ResourceInv, SoundDocument, SoundPolicy
<1>12. QED BY <1>1, <1>8, <1>10, <1>11, NoAnswer DEF ResourceInv

LEMMA ResourceStep ==
  ASSUME R!ResourcesAssumption, ResourceInv, [R!Next]_resourceVars
  PROVE  ResourceInv'
<1>1. CASE UNCHANGED resourceVars
  BY <1>1 DEF resourceVars, ResourceInv, ResourceTypes, SoundDocument, SoundPolicy, SoundProcesses,
    Whole, Alone, R!DocActive, R!AnswersAreRecent, R!ForeignWritesAreSeen, R!OwnWritesAreSeen
<1>2. ASSUME NEW i \in Instances, R!Step(i)
      PROVE  ResourceInv'
  BY <1>2, LifeSteps, RegistrySteps, AuthorizeSteps, SaveDefaultStep, PolicySteps, DocumentSteps
  DEF R!Step
<1>3. QED BY <1>1, <1>2, PolicySteps, TickStep DEF R!Next

LEMMA ResourceInitially ==
  ASSUME R!ResourcesAssumption, R!Init
  PROVE  ResourceInv
<1>1. R!Down \in Processes /\ R!Down.cache = None /\ ~R!Down.up /\ R!Down.heard = 0
  BY DEF R!Down, Processes
<1>2. ResourceTypes /\ since <= CacheTTL + Delay
  BY <1>1 DEF R!Init, R!ResourcesAssumption, R!Forever, ResourceTypes
<1>3. ASSUME NEW i \in Instances
      PROVE  inst[i] = R!Down /\ call[i] = None /\ mine[i] = None
  BY DEF R!Init
<1>4. SoundProcesses
  BY <1>1, <1>2, <1>3
  DEF SoundProcesses, SoundMemory, SoundStart, SoundWrite, Settled, R!Init
<1>5. SoundDocument /\ SoundPolicy
  BY DEF R!Init, SoundDocument, SoundPolicy
<1>6. R!AnswersAreRecent
  BY DEF R!Init, R!AnswersAreRecent, R!ForeignWritesAreSeen, R!OwnWritesAreSeen
<1>7. QED BY <1>2, <1>4, <1>5, <1>6 DEF ResourceInv

LEMMA ResourcesInvariant == StoresSpec => []ResourceInv
<1>1. R!ResourcesAssumption
  BY StoresAssumption
<1>2. StoresInit => ResourceInv
  BY <1>1, ResourceInitially DEF StoresInit
<1>3. ResourceInv /\ [StoresNext]_storesVars => ResourceInv'
  BY <1>1, PartStep, ResourceStep
<1>4. QED BY <1>2, <1>3, PTL DEF StoresSpec

\* What an instance answers of a resource was true less than a cache lifetime and a
\* handler's delay ago, and agrees with what the instance wrote itself
\* (gateway/resources.py: is_registered_and_active, _cache_put).
THEOREM AnswersRecent == StoresSpec => []AnswersAreRecent
BY ResourcesInvariant, PTL DEF ResourceInv, AnswersAreRecent

\* Calls that do not cross one another leave a document whose version counts the
\* writes and whose verification is of the registration it holds
\* (gateway/resources.py: register, revoke, update_metadata, update_verification).
THEOREM DocumentConsistent == StoresSpec => []DocumentIsConsistent
<1>1. ResourceInv => DocumentIsConsistent
  BY DEF ResourceInv, SoundDocument, Alone, DocumentIsConsistent, R!DocumentIsConsistent
<1>2. QED BY <1>1, ResourcesInvariant, PTL

\* The policy of PUT /policy is the policy of every instance started after it was
\* saved, unless a save failed or crossed another one (gateway/api.py).
THEOREM PolicyOutlives == StoresSpec => []PolicyOutlivesRestart
<1>1. ResourceInv => PolicyOutlivesRestart
  <2>1. SUFFICES ASSUME ResourceInv, saving = {}, puts > 0, Whole
                 PROVE  /\ policy # None /\ policy.put = puts
                        /\ \A i \in Instances : inst[i].up /\ inst[i].heard = puts =>
                             inst[i].put = puts /\ inst[i].strict = policy.strict
    BY DEF PolicyOutlivesRestart, R!PolicyOutlivesRestart, Whole
  <2>2. policy # None /\ policy.put = puts
    BY <2>1 DEF ResourceInv, SoundPolicy
  <2>3. \A i \in Instances : SoundStart(inst[i], call[i], policy, saving, puts, Whole)
    BY <2>1 DEF ResourceInv, SoundProcesses
  <2>4. QED BY <2>1, <2>2, <2>3 DEF SoundStart
<1>2. QED BY <1>1, ResourcesInvariant, PTL
-----------------------------------------------------------------------------
(* The verification of resources (Verification).                           *)

Accepted == V!Responses \ {"404"}
Requesting == {"url", "gcp", "aws", "bearer", "basic"}

\* What makes the strategy s, tried in place i, honest: it accepts no 404 unless
\* all it has is a base URL, and needs a field that names what it asks about.
Honest(s, i) ==
  /\ s.probe \in Requesting \union {"tcp", "open", "found", "none", "raise"}
  /\ s.accept \subseteq Accepted
  /\ i = 1 <=> s.needs = {"url"}
  /\ i = 1 => s.probe = "url"
  /\ s.probe = "open" => "base_url" \in s.needs
  /\ s.probe = "gcp" => s.needs \intersect V!Gcp # {}
  /\ s.probe = "aws" => "creds" \in s.needs

LEMMA HonestUrl ==
  ASSUME NEW accept, accept \subseteq Accepted
  PROVE  Honest(V!Url(accept), 1)
BY DEF V!Url, Honest, Requesting

LEMMA HonestOffline ==
  ASSUME NEW i, i # 1
  PROVE  /\ \A needs : needs # {"url"} => Honest(V!Raises(needs), i)
         /\ \A field : field # "url" => Honest(V!Recorded(field), i)
BY DEF V!Raises, V!Recorded, Honest

LEMMA DbHonest ==
  /\ DOMAIN V!DbStrategies = 1 .. 6
  /\ \A i \in 1 .. 6 : Honest(V!DbStrategies[i], i)
<1>0. DOMAIN V!DbStrategies = 1 .. 6
  BY DEF V!DbStrategies
<1>1. Honest(V!DbStrategies[1], 1)
  BY HonestUrl DEF V!DbStrategies, Accepted, V!Responses
<1>2. Honest(V!DbStrategies[2], 2)
  BY DEF V!DbStrategies, V!Live, Honest, Accepted, V!Responses, Requesting, V!Gcp
<1>3. Honest(V!DbStrategies[3], 3)
  BY DEF V!DbStrategies, V!Live, Honest, Accepted, V!Responses, Requesting, V!Gcp
<1>4. Honest(V!DbStrategies[4], 4)
  BY DEF V!DbStrategies, V!Live, Honest, Accepted, V!Responses, Requesting, V!Gcp
<1>5. Honest(V!DbStrategies[5], 5)
  BY HonestOffline DEF V!DbStrategies
<1>6. Honest(V!DbStrategies[6], 6)
  BY HonestOffline DEF V!DbStrategies
<1>7. QED
  BY <1>0, <1>1, <1>2, <1>3, <1>4, <1>5, <1>6

LEMMA ApiHonest ==
  /\ DOMAIN V!ApiStrategies = 1 .. 4
  /\ \A i \in 1 .. 4 : Honest(V!ApiStrategies[i], i)
<1>0. DOMAIN V!ApiStrategies = 1 .. 4
  BY DEF V!ApiStrategies
<1>1. Honest(V!ApiStrategies[1], 1)
  BY HonestUrl DEF V!ApiStrategies, Accepted, V!Responses
<1>2. Honest(V!ApiStrategies[2], 2)
  BY DEF V!ApiStrategies, V!Live, Honest, Accepted, V!Responses, Requesting, V!Gcp
<1>3. Honest(V!ApiStrategies[3], 3)
  BY HonestOffline DEF V!ApiStrategies
<1>4. Honest(V!ApiStrategies[4], 4)
  BY HonestOffline DEF V!ApiStrategies
<1>5. QED
  BY <1>0, <1>1, <1>2, <1>3, <1>4

LEMMA StorageHonest ==
  /\ DOMAIN V!StorageStrategies = 1 .. 9
  /\ \A i \in 1 .. 9 : Honest(V!StorageStrategies[i], i)
<1>0. DOMAIN V!StorageStrategies = 1 .. 9
  BY DEF V!StorageStrategies
<1>1. Honest(V!StorageStrategies[1], 1)
  BY HonestUrl DEF V!StorageStrategies, Accepted, V!Responses
<1>2. Honest(V!StorageStrategies[2], 2)
  BY DEF V!StorageStrategies, V!Live, Honest, Accepted, V!Responses, Requesting, V!Gcp
<1>3. Honest(V!StorageStrategies[3], 3)
  BY DEF V!StorageStrategies, V!Live, Honest, Accepted, V!Responses, Requesting, V!Gcp
<1>4. Honest(V!StorageStrategies[4], 4)
  BY DEF V!StorageStrategies, V!Live, Honest, Accepted, V!Responses, Requesting, V!Gcp
<1>5. Honest(V!StorageStrategies[5], 5)
  BY HonestOffline DEF V!StorageStrategies
<1>6. Honest(V!StorageStrategies[6], 6)
  BY DEF V!StorageStrategies, V!Live, Honest, Accepted, V!Responses, Requesting, V!Gcp
<1>7. Honest(V!StorageStrategies[7], 7)
  BY DEF V!StorageStrategies, V!Live, Honest, Accepted, V!Responses, Requesting, V!Gcp
<1>8. Honest(V!StorageStrategies[8], 8)
  BY HonestOffline DEF V!StorageStrategies
<1>9. Honest(V!StorageStrategies[9], 9)
  BY HonestOffline DEF V!StorageStrategies
<1>10. QED
  BY <1>0, <1>1, <1>2, <1>3, <1>4, <1>5, <1>6, <1>7, <1>8, <1>9

LEMMA QueueHonest ==
  /\ DOMAIN V!QueueStrategies = 1 .. 11
  /\ \A i \in 1 .. 11 : Honest(V!QueueStrategies[i], i)
<1>0. DOMAIN V!QueueStrategies = 1 .. 11
  BY DEF V!QueueStrategies
<1>1. Honest(V!QueueStrategies[1], 1)
  BY HonestUrl DEF V!QueueStrategies, Accepted, V!Responses
<1>2. Honest(V!QueueStrategies[2], 2)
  BY DEF V!QueueStrategies, V!Live, Honest, Accepted, V!Responses, Requesting, V!Gcp
<1>3. Honest(V!QueueStrategies[3], 3)
  BY DEF V!QueueStrategies, V!Live, Honest, Accepted, V!Responses, Requesting, V!Gcp
<1>4. Honest(V!QueueStrategies[4], 4)
  BY HonestOffline DEF V!QueueStrategies
<1>5. Honest(V!QueueStrategies[5], 5)
  BY DEF V!QueueStrategies, V!Live, Honest, Accepted, V!Responses, Requesting, V!Gcp
<1>6. Honest(V!QueueStrategies[6], 6)
  BY HonestOffline DEF V!QueueStrategies
<1>7. Honest(V!QueueStrategies[7], 7)
  BY DEF V!QueueStrategies, V!Live, Honest, Accepted, V!Responses, Requesting, V!Gcp
<1>8. Honest(V!QueueStrategies[8], 8)
  BY HonestOffline DEF V!QueueStrategies
<1>9. Honest(V!QueueStrategies[9], 9)
  BY DEF V!QueueStrategies, V!Live, Honest, Accepted, V!Responses, Requesting, V!Gcp
<1>10. Honest(V!QueueStrategies[10], 10)
  BY HonestOffline DEF V!QueueStrategies
<1>11. Honest(V!QueueStrategies[11], 11)
  BY HonestOffline DEF V!QueueStrategies
<1>12. QED
  BY <1>0, <1>1, <1>2, <1>3, <1>4, <1>5, <1>6, <1>7, <1>8, <1>9, <1>10, <1>11

LEMMA FunctionHonest ==
  /\ DOMAIN V!FunctionStrategies = 1 .. 6
  /\ \A i \in 1 .. 6 : Honest(V!FunctionStrategies[i], i)
<1>0. DOMAIN V!FunctionStrategies = 1 .. 6
  BY DEF V!FunctionStrategies
<1>1. Honest(V!FunctionStrategies[1], 1)
  BY HonestUrl DEF V!FunctionStrategies, Accepted, V!Responses
<1>2. Honest(V!FunctionStrategies[2], 2)
  BY DEF V!FunctionStrategies, V!Live, Honest, Accepted, V!Responses, Requesting, V!Gcp
<1>3. Honest(V!FunctionStrategies[3], 3)
  BY DEF V!FunctionStrategies, V!Live, Honest, Accepted, V!Responses, Requesting, V!Gcp
<1>4. Honest(V!FunctionStrategies[4], 4)
  BY DEF V!FunctionStrategies, V!Live, Honest, Accepted, V!Responses, Requesting, V!Gcp
<1>5. Honest(V!FunctionStrategies[5], 5)
  BY HonestOffline DEF V!FunctionStrategies
<1>6. Honest(V!FunctionStrategies[6], 6)
  BY HonestOffline DEF V!FunctionStrategies
<1>7. QED
  BY <1>0, <1>1, <1>2, <1>3, <1>4, <1>5, <1>6

LEMMA StrategiesHonest ==
  ASSUME V!VerificationAssumption, NEW d \in Declarations
  PROVE  /\ DOMAIN V!Verifiers[d.type] \subseteq Nat \ {0} /\ 1 \in DOMAIN V!Verifiers[d.type]
         /\ V!Verifiers[d.type][1].needs = {"url"}
         /\ \A i \in DOMAIN V!Verifiers[d.type] : Honest(V!Verifiers[d.type][i], i)
<1>1. d.type \in {"db", "api", "storage", "queue", "function"}
  BY DEF V!VerificationAssumption, V!Verifiers
<1>2. \E n \in Nat \ {0} :
        /\ DOMAIN V!Verifiers[d.type] = 1 .. n
        /\ \A i \in 1 .. n : Honest(V!Verifiers[d.type][i], i)
  <2>1. CASE d.type = "db"
    <3>1. V!Verifiers[d.type] = V!DbStrategies
      BY <2>1, SMTT(60) DEF V!Verifiers
    <3>2. QED BY <3>1, DbHonest, SMTT(60)
  <2>2. CASE d.type = "api"
    <3>1. V!Verifiers[d.type] = V!ApiStrategies
      BY <2>2, SMTT(60) DEF V!Verifiers
    <3>2. QED BY <3>1, ApiHonest, SMTT(60)
  <2>3. CASE d.type = "storage"
    <3>1. V!Verifiers[d.type] = V!StorageStrategies
      BY <2>3, SMTT(60) DEF V!Verifiers
    <3>2. QED BY <3>1, StorageHonest, SMTT(60)
  <2>4. CASE d.type = "queue"
    <3>1. V!Verifiers[d.type] = V!QueueStrategies
      BY <2>4, SMTT(60) DEF V!Verifiers
    <3>2. QED BY <3>1, QueueHonest, SMTT(60)
  <2>5. CASE d.type = "function"
    <3>1. V!Verifiers[d.type] = V!FunctionStrategies
      BY <2>5, SMTT(60) DEF V!Verifiers
    <3>2. QED BY <3>1, FunctionHonest, SMTT(60)
  <2>6. QED BY <1>1, <2>1, <2>2, <2>3, <2>4, <2>5
<1>3. QED BY <1>2 DEF Honest

\* What a probe that was made says of what happened to it.
LEMMA ProbeHonest ==
  ASSUME V!VerificationAssumption, NEW d \in Declarations, NEW i \in V!Applicable(d),
         V!Used(d, i), NEW s, s = V!Verifiers[d.type][i], NEW w \in V!Outcomes(s, d),
         NEW r, r = V!Probe(s, d, w)
  PROVE  /\ r \in V!Results
         /\ r = "verified" =>
              /\ w \in V!Responses \union {"open"}
              /\ w = "404" => "base_url" \in d.has /\ "url" \notin d.has
         /\ r = "failed" => w # None \/ d.has \intersect ({"creds"} \union V!Gcp) # {}
         /\ r \in {"metadata_only", "skipped"} => w = None /\ "url" \notin d.has
         /\ r = "error" => w \in {None, "not_an_address"} /\ "url" \notin d.has
<1>1. /\ i \in DOMAIN V!Verifiers[d.type] /\ s.needs \subseteq V!Fields(d) /\ Honest(s, i)
  BY StrategiesHonest DEF V!Applicable
<1>2. "url" \in d.has => i = 1
  <2>1. SUFFICES ASSUME "url" \in d.has
                 PROVE  i = 1
    OBVIOUS
  <2>2. 1 \in V!Applicable(d)
    BY <2>1, StrategiesHonest DEF V!Applicable, V!Fields
  <2>3. QED BY <1>1, <2>2, StrategiesHonest DEF V!Used
<1>3. \A f \in s.needs : f # "connection_string" => f \in d.has
  BY <1>1 DEF V!Fields
<1>4. None \notin V!Responses \union V!Unanswered \union {"open", "not_an_address"}
  BY DEF V!VerificationAssumption
<1>5. CASE s.probe \in Requesting
  <2>1. r = IF w \in s.accept THEN "verified" ELSE "failed"
    BY <1>5 DEF Requesting, V!Probe, V!Accepting, V!ProbeUrl, V!ProbeGcp, V!ProbeAws,
                V!ProbeWithBearer, V!ProbeWithBasicAuth
  <2>2. w # None \/ s.probe \in {"gcp", "aws"}
    BY <1>4, <1>5 DEF Requesting, V!Outcomes
  <2>3. s.probe \in {"gcp", "aws"} => d.has \intersect ({"creds"} \union V!Gcp) # {}
    BY <1>1, <1>3 DEF Honest, V!Gcp
  <2>4. QED BY <1>1, <2>1, <2>2, <2>3 DEF Honest, Accepted, V!Results
<1>6. CASE s.probe = "tcp"
  <2>1. w \in {"open", "not_an_address"} \union V!Unanswered
    BY <1>6 DEF V!Outcomes
  <2>2. /\ r \in {"verified", "error", "failed"}
        /\ r = "verified" => w = "open"
        /\ r = "error" => w = "not_an_address"
    BY <1>6, <2>1 DEF V!Probe, V!ProbeTcp, V!Unanswered
  <2>3. i # 1
    BY <1>1, <1>6 DEF Honest
  <2>4. QED BY <1>2, <1>4, <2>1, <2>2, <2>3 DEF V!Results, V!Responses
<1>7. CASE s.probe \in {"open", "found"}
  <2>1. w \in V!Responses \union V!Unanswered
    BY <1>7 DEF V!Outcomes
  <2>2. /\ r \in {"verified", "failed"}
        /\ r = "verified" => w \in V!Responses /\ (w = "404" => s.probe = "open")
    BY <1>7 DEF V!Probe, V!ProbeUnauthenticated
  <2>3. s.probe = "open" => "base_url" \in d.has
    BY <1>1, <1>3 DEF Honest
  <2>4. i # 1
    BY <1>1, <1>7 DEF Honest
  <2>5. QED BY <1>2, <1>4, <2>1, <2>2, <2>3, <2>4 DEF V!Results
<1>8. CASE s.probe \in {"none", "raise"}
  <2>1. w = None /\ r \in {"metadata_only", "error"}
    BY <1>8 DEF V!Outcomes, V!Probe
  <2>2. i # 1
    BY <1>1, <1>8 DEF Honest
  <2>3. QED BY <1>2, <2>1, <2>2 DEF V!Results
<1>9. QED BY <1>1, <1>5, <1>6, <1>7, <1>8 DEF Honest

VerdictInv ==
  /\ request \in Declarations \union {None}
  /\ request = None => outcome = None /\ result = None
  /\ result = None => outcome = None
  /\ V!HonestVerdict

LEMMA VerdictStep ==
  ASSUME V!VerificationAssumption, VerdictInv, [V!Next]_probeVars
  PROVE  VerdictInv'
<1>1. CASE UNCHANGED probeVars
  BY <1>1 DEF probeVars, VerdictInv, V!HonestVerdict
<1>2. ASSUME NEW d \in Declarations, V!Verify(d)
      PROVE  VerdictInv'
  BY <1>2 DEF V!Verify, VerdictInv, V!HonestVerdict
<1>3. CASE V!Probed
  <2>1. request \in Declarations /\ request' = request
    BY <1>3 DEF V!Probed, VerdictInv
  <2>2. PICK i \in V!Applicable(request) :
          /\ V!Used(request, i)
          /\ \E w \in V!Outcomes(V!Verifiers[request.type][i], request) :
               outcome' = w /\ result' = V!Probe(V!Verifiers[request.type][i], request, w)
    BY <1>3 DEF V!Probed
  <2>3. /\ result' \in V!Results
        /\ result' = "verified" =>
             /\ outcome' \in V!Responses \union {"open"}
             /\ outcome' = "404" => "base_url" \in request.has /\ "url" \notin request.has
        /\ result' = "failed" =>
             outcome' # None \/ request.has \intersect ({"creds"} \union V!Gcp) # {}
        /\ result' \in {"metadata_only", "skipped"} =>
             outcome' = None /\ "url" \notin request.has
        /\ result' = "error" =>
             outcome' \in {None, "not_an_address"} /\ "url" \notin request.has
    BY <2>1, <2>2, ProbeHonest
  <2>4. result' # None /\ request # None
    BY <2>1, <2>3 DEF V!VerificationAssumption
  <2>5. QED BY <2>1, <2>3, <2>4 DEF VerdictInv, V!HonestVerdict
<1>4. CASE V!Skipped
  <2>1. /\ request \in Declarations /\ V!Applicable(request) = {} /\ outcome = None
        /\ result' = "skipped" /\ UNCHANGED <<request, outcome>>
    BY <1>4 DEF V!Skipped, VerdictInv
  <2>2. "url" \notin request.has
    BY <2>1, StrategiesHonest DEF V!Applicable, V!Fields
  <2>3. result' # None /\ request # None
    BY <2>1 DEF V!VerificationAssumption, V!Results
  <2>4. QED BY <2>1, <2>2, <2>3 DEF VerdictInv, V!HonestVerdict
<1>5. CASE V!Returned
  BY <1>5 DEF V!Returned, VerdictInv, V!HonestVerdict
<1>6. QED BY <1>1, <1>2, <1>3, <1>4, <1>5 DEF V!Next

\* Whatever a declaration holds and whatever answers the probe, the status says
\* what the probe found (gateway/verification, register_resource).
THEOREM VerdictsAreHonest == StoresSpec => []HonestVerdict
<1>1. V!VerificationAssumption
  BY StoresAssumption
<1>2. StoresInit => VerdictInv
  BY DEF StoresInit, V!Init, VerdictInv, V!HonestVerdict
<1>3. VerdictInv /\ [StoresNext]_storesVars => VerdictInv'
  BY <1>1, PartStep, VerdictStep
<1>4. VerdictInv => HonestVerdict
  BY DEF VerdictInv, HonestVerdict
<1>5. QED BY <1>2, <1>3, <1>4, PTL DEF StoresSpec
=============================================================================
