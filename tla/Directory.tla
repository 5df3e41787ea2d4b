------------------------------- MODULE Directory -------------------------------
(***************************************************************************)
(* The Discovery Coordinator's directory of agents: POST /discover and     *)
(* POST /scan fetch agent cards, judge them and store one entry per URL.   *)
(* The A2A skill register_known_agent is a client of POST /discover that   *)
(* gives up after 30 seconds, before the handler does: when it asks again, *)
(* two discoveries of the URL overlap.                                     *)
(*                                                                         *)
(* A card is one of the kinds that discover_agent tells apart:             *)
(*   proper   all required fields, interfaces on its own host or none      *)
(*   foreign  all required fields, an interface on another host            *)
(*   partial  an object without some required field                        *)
(*   empty    {}                                                           *)
(*   unusable JSON that makes discover_agent raise: an array, null skills  *)
(* and "down" stands for a fetch that fails or is answered with an error.  *)
(* What the model says of a card's capabilities is not told apart from the *)
(* text that replaces it when the model fails.                             *)
(***************************************************************************)
EXTENDS Naturals, SequencesExt

CONSTANTS
  Urls,        \* the URLs of agent cards
  Secure,      \* those that begin with https://
  Cards,       \* what a URL may serve
  Scans,       \* the lists of URLs that scans name
  Clerks,      \* requests that may be under way at once
  MaxChanges,  \* bound: changes of what is served
  MaxAsked,    \* bound: requests
  MaxLost,     \* bound: failing writes
  None         \* no entry, no request

Kinds == {"proper", "foreign", "partial", "empty", "unusable", "down"}
Entries == [card : Kinds, trust_level : {"TRUSTED", "REVIEW"},
            health_status : {"unreachable", "healthy", "degraded"}]
Works == [at : {"fetch", "assess", "store", "failed"}, todo : Seq(Urls) \ {<<>>},
          entry : Entries \union {None}]

DirectoryAssumption ==
  /\ Secure \subseteq Urls
  /\ Cards \subseteq Kinds
  /\ Scans \subseteq Seq(Urls)
  /\ None \notin Entries \union Works

VARIABLES
  web,      \* per URL: what it serves
  dir,      \* per URL: the stored entry
  work,     \* per clerk: the request under way
  bound,    \* bounds: what may still happen
  latest,   \* history, per URL: what its latest discovery found
  crossed   \* history: URLs with discoveries that overlapped, or a failed write

vars == <<web, dir, work, bound, latest, crossed>>

Init ==
  /\ web \in [Urls -> Cards]
  /\ dir = [u \in Urls |-> None]
  /\ work = [c \in Clerks |-> None]
  /\ bound = [changes |-> MaxChanges, asked |-> MaxAsked, lost |-> MaxLost]
  /\ latest = [u \in Urls |-> None]
  /\ crossed = {}

At(c, where) == work[c] # None /\ work[c].at = where
Url(c) == Head(work[c].todo)
Meets(u, c) == \E d \in Clerks \ {c} : work[d] # None /\ Url(d) = u

Valid(card) == card \in {"proper", "foreign"}   \* _validate_agent_card
Aligned(card) == card # "foreign"               \* _check_domain_alignment

\* Faulty variant: an object is trusted when its host is right.
EntryWithoutFields(u, card) ==
  [card |-> IF card = "down" THEN "empty" ELSE card,
   trust_level |-> IF card # "down" /\ u \in Secure /\ Aligned(card) THEN "TRUSTED" ELSE "REVIEW",
   health_status |-> IF card = "down" THEN "unreachable"
                     ELSE IF Valid(card) THEN "healthy" ELSE "degraded"]

\* discover_agent and _unreachable_entry: what is stored of a card.
Entry(u, card) ==
  [card |-> IF card = "down" THEN "empty" ELSE card,
   trust_level |-> IF Valid(card) /\ u \in Secure /\ Aligned(card) THEN "TRUSTED" ELSE "REVIEW",
   health_status |-> IF card = "down" THEN "unreachable"
                     ELSE IF Valid(card) THEN "healthy" ELSE "degraded"]

-----------------------------------------------------------------------------
Change(u) ==
  /\ bound.changes > 0
  /\ bound' = [bound EXCEPT !.changes = @ - 1]
  /\ \E card \in Cards \ {web[u]} : web' = [web EXCEPT ![u] = card]
  /\ UNCHANGED <<dir, work, latest, crossed>>

\* The discovery of the first URL of a list begins; of an empty one, nothing.
Takes(c, todo) ==
  IF todo = <<>> THEN work' = [work EXCEPT ![c] = None] /\ UNCHANGED crossed
  ELSE /\ work' = [work EXCEPT ![c] = [at |-> "fetch", todo |-> todo, entry |-> None]]
       /\ crossed' = IF Meets(Head(todo), c) THEN crossed \union {Head(todo)} ELSE crossed

\* POST /discover of one URL, from a client of the service or from the skill, or
\* POST /scan of several.
Ask(c, todo) ==
  /\ work[c] = None
  /\ bound.asked > 0
  /\ bound' = [bound EXCEPT !.asked = @ - 1]
  /\ Takes(c, todo)
  /\ UNCHANGED <<web, dir, latest>>

\* The card arrives.
Fetched(c) ==
  /\ At(c, "fetch")
  /\ web[Url(c)] # "unusable"
  /\ LET entry == Entry(Url(c), web[Url(c)])
     IN /\ work' = [work EXCEPT ![c].at = IF entry.card = "empty" THEN "store" ELSE "assess",
                                ![c].entry = entry]
        /\ latest' = [latest EXCEPT ![Url(c)] = web[Url(c)]]
  /\ UNCHANGED <<web, dir, bound, crossed>>

\* assess_capabilities takes its time and always returns.
Assessed(c) ==
  /\ At(c, "assess")
  /\ work' = [work EXCEPT ![c].at = "store"]
  /\ UNCHANGED <<web, dir, bound, latest, crossed>>

\* A scan goes on with its next URL; anything else is answered.
NextUrl(c) == Takes(c, Tail(work[c].todo))

\* Faulty variant: an agent that does not answer keeps the entry it has.
StoredIfReachable(c) ==
  /\ At(c, "store")
  /\ dir' = IF work[c].entry.health_status = "unreachable" /\ dir[Url(c)] # None THEN dir
            ELSE [dir EXCEPT ![Url(c)] = work[c].entry]
  /\ NextUrl(c)
  /\ UNCHANGED <<web, bound, latest>>

\* upsert_entry replaces the whole document.
Stored(c) ==
  /\ At(c, "store")
  /\ dir' = [dir EXCEPT ![Url(c)] = work[c].entry]
  /\ NextUrl(c)
  /\ UNCHANGED <<web, bound, latest>>

\* discover_agent raises: /discover is answered 500, a scan notes it and goes on.
Raises(c) ==
  /\ At(c, "fetch")
  /\ web[Url(c)] = "unusable"
  /\ NextUrl(c)
  /\ UNCHANGED <<web, dir, bound, latest>>

\* So does the write, which may have been applied.
WriteFails(c) ==
  /\ At(c, "store")
  /\ bound.lost > 0
  /\ bound' = [bound EXCEPT !.lost = @ - 1]
  /\ \/ UNCHANGED dir
     \/ dir' = [dir EXCEPT ![Url(c)] = work[c].entry]
  /\ crossed' = crossed \union {Url(c)}
  /\ work' = [work EXCEPT ![c].at = "failed"]
  /\ UNCHANGED <<web, latest>>

Failed(c) ==
  /\ At(c, "failed")
  /\ NextUrl(c)
  /\ UNCHANGED <<web, dir, bound, latest>>

Next ==
  \/ \E u \in Urls : Change(u)
  \/ \E c \in Clerks :
       \/ \E u \in Urls : Ask(c, <<u>>)
       \/ \E s \in Scans : Ask(c, s)
       \/ Fetched(c) \/ Assessed(c) \/ Stored(c) \/ Raises(c)
       \/ WriteFails(c) \/ Failed(c)

Spec == Init /\ [][Next]_vars

-----------------------------------------------------------------------------
\* The directory says what was found out last: a URL's entry is the one of its
\* latest discovery that read a card or found none, unless two of them overlapped
\* (the later write wins, whichever fetched first) or a write failed.  TRUSTED
\* means that https served all the required fields, on their own host, at that
\* time; an agent that is down does not keep an older verdict.
DirectoryIsCurrent ==
  \A u \in Urls \ crossed :
    (\A c \in Clerks : work[c] # None => Url(c) # u) /\ latest[u] # None =>
      /\ dir[u] # None
      /\ dir[u].health_status = "unreachable" <=> latest[u] = "down"
      /\ dir[u].trust_level = "TRUSTED" <=> u \in Secure /\ latest[u] = "proper"
=============================================================================
