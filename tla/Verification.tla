----------------------------- MODULE Verification -----------------------------
(***************************************************************************)
(* gateway/verification: what POST /resources/register finds out about the *)
(* resource it is given.  Each type has a verifier that tries its          *)
(* strategies in order and stops at the first one whose metadata is there; *)
(* the strategy's probe makes one request and judges the answer.           *)
(*                                                                         *)
(* A declaration is the set of the fields that are present and not empty.  *)
(* The provider is one of them, by its value; a field whose value matters  *)
(* is named after the kind of value it has (conn_known_scheme).  The world *)
(* is the one thing that happens to the probe.                             *)
(* A GCP token that cannot be had, and AWS keys that were not given, fail  *)
(* a probe before it makes a request.                                      *)
(***************************************************************************)
EXTENDS Naturals, Sequences

CONSTANTS
  Declarations,  \* the declarations: a type and the set of fields present
  None           \* no request, no result

VARIABLES
  request,  \* the declaration being verified, by a handler that awaits it
  outcome,  \* what happened to its probe
  result    \* what verify returned: a status, or "error" when it raised

vars == <<request, outcome, result>>

Responses == {"200", "204", "301", "401", "403", "404", "405", "500"}
Unanswered == {"timeout", "refused", "unreachable"}

-----------------------------------------------------------------------------
(* The probes of _http.py: the status each gives for what happened.        *)

Accepting(accept, w) == IF w \in accept THEN "verified" ELSE "failed"

ProbeUrl(accept, w) == Accepting(accept, w)
\* None: there was no access token, or the caller's keys were incomplete.
ProbeGcp(accept, w) == Accepting(accept, w)
ProbeAws(accept, w) == Accepting(accept, w)
ProbeWithBearer(accept, w) == Accepting(accept, w)
ProbeWithBasicAuth(accept, w) == Accepting(accept, w)
\* Only errors of the connection are caught: a port above 65535 or a host name that
\* cannot be encoded raises out of the verifier.
ProbeTcp(w) ==
  CASE w = "open" -> "verified" [] w = "not_an_address" -> "error" [] OTHER -> "failed"
ProbeUnauthenticated(w) == IF w \in Responses THEN "verified" ELSE "failed"

\* parse_connection_string finds a host and a port in these; in the other kinds
\* of connection string, conn_unknown_scheme and conn_garbage, it finds none.
Parsed == {"conn_with_port", "conn_known_scheme", "conn_host_port"}

-----------------------------------------------------------------------------
(* The strategies of each verifier, in the order they are tried.  "raise"  *)
(* is a conversion that fails outside of any try.                          *)

Url(accept) == [needs |-> {"url"}, probe |-> "url", accept |-> accept]
Live(needs, probe, accept) == [needs |-> needs, probe |-> probe, accept |-> accept]
Recorded(field) == [needs |-> {field}, probe |-> "none", accept |-> {}]
Raises(needs) == [needs |-> needs, probe |-> "raise", accept |-> {}]

DbStrategies ==
  << Url({"200"}),
     Live({"firestore", "project_id"}, "gcp", {"200"}),
     Live({"cloudsql", "project_id", "instance"}, "gcp", {"200"}),
     Live({"connection_string"}, "tcp", {}),
     Recorded("engine"), Recorded("provider") >>

ApiStrategies ==
  << Url({"200", "204", "301", "401", "403", "405"}),
     Live({"base_url"}, "open", {}),
     Recorded("auth_type"), Recorded("openapi_spec_url") >>

\* Faulty variant: a bucket that is not there counts like any other answer.
StorageWithoutNotFound ==
  << Url({"200"}),
     Live({"bucket", "gcs"}, "gcp", {"200", "403"}),
     Live({"bucket", "s3", "creds"}, "aws", {"200", "301", "403"}),
     Live({"bucket", "s3"}, "open", {}),
     Raises({"bucket", "azure_blob", "account", "null_creds"}),
     Live({"bucket", "azure_blob", "account", "bearer_token"}, "bearer", {"200", "403"}),
     Live({"bucket", "azure_blob", "account"}, "open", {}),
     Recorded("bucket"), Recorded("provider") >>

StorageStrategies ==
  << Url({"200"}),
     Live({"bucket", "gcs"}, "gcp", {"200", "403"}),
     Live({"bucket", "s3", "creds"}, "aws", {"200", "301", "403"}),
     Live({"bucket", "s3"}, "found", {}),
     Raises({"bucket", "azure_blob", "account", "null_creds"}),
     Live({"bucket", "azure_blob", "account", "bearer_token"}, "bearer", {"200", "403"}),
     Live({"bucket", "azure_blob", "account"}, "found", {}),
     Recorded("bucket"), Recorded("provider") >>

QueueStrategies ==
  << Url({"200"}),
     Live({"topic", "pubsub", "project_id"}, "gcp", {"200", "403"}),
     Live({"topic", "sqs", "creds", "account_id"}, "aws", {"200", "403"}),
     Raises({"topic", "rabbitmq", "management_url", "null_creds"}),
     Live({"topic", "rabbitmq", "management_url", "username"}, "basic", {"200"}),
     Raises({"bad_broker_port"}),
     Live({"kafka", "broker_host"}, "tcp", {}),
     Raises({"rabbitmq", "host", "bad_port"}),
     Live({"rabbitmq", "host"}, "tcp", {}),
     Recorded("topic"), Recorded("provider") >>

FunctionStrategies ==
  << Url({"200", "204", "401", "403", "405"}),
     Live({"cloud_functions", "project_id", "region", "function_name"}, "gcp", {"200"}),
     Live({"cloud_run_jobs", "project_id", "region", "function_name"}, "gcp", {"200"}),
     Live({"lambda", "region", "function_name", "creds"}, "aws", {"200"}),
     Recorded("function_name"), Recorded("provider") >>

\* get_verifier: the verifiers that register themselves when they are imported.
Verifiers == [db |-> DbStrategies, api |-> ApiStrategies, storage |-> StorageStrategies,
              queue |-> QueueStrategies, function |-> FunctionStrategies]

Fields(d) ==
  d.has \union (IF d.has \intersect Parsed # {} THEN {"connection_string"} ELSE {})

\* The strategies of d's verifier that its metadata makes possible, by their places:
\* the first of them is used.
Applicable(d) ==
  {i \in DOMAIN Verifiers[d.type] : Verifiers[d.type][i].needs \subseteq Fields(d)}
Used(d, i) == i \in Applicable(d) /\ \A j \in Applicable(d) : i <= j

Probe(s, d, w) ==
  CASE s.probe = "url" -> ProbeUrl(s.accept, w)
    [] s.probe = "gcp" -> ProbeGcp(s.accept, w)
    [] s.probe = "aws" -> ProbeAws(s.accept, w)
    [] s.probe = "bearer" -> ProbeWithBearer(s.accept, w)
    [] s.probe = "basic" -> ProbeWithBasicAuth(s.accept, w)
    [] s.probe = "tcp" -> ProbeTcp(w)
    [] s.probe = "open" -> ProbeUnauthenticated(w)
    [] s.probe = "found" -> IF w = "404" THEN "failed" ELSE ProbeUnauthenticated(w)
    [] s.probe = "none" -> "metadata_only"
    [] s.probe = "raise" -> "error"

\* What can happen to the probe of a strategy; None when it makes no request.
Outcomes(s, d) ==
  CASE s.probe \in {"none", "raise"} -> {None}
    [] s.probe = "tcp" -> {"open", "not_an_address"} \union Unanswered
    [] s.probe = "gcp" -> Responses \union Unanswered \union {None}
    [] s.probe = "aws" /\ "aws_keys" \notin d.has -> {None}
    [] OTHER -> Responses \union Unanswered

-----------------------------------------------------------------------------
Results == {"verified", "failed", "metadata_only", "skipped", "error"}

VerificationAssumption ==
  /\ \A d \in Declarations : d.type \in DOMAIN Verifiers
  /\ None \notin Declarations
  /\ None \notin Responses \union Unanswered \union {"open", "not_an_address"} \union Results

Init ==
  /\ request = None
  /\ outcome = None
  /\ result = None

\* register_resource hands the declaration to _verify_resource and awaits it.
Verify(d) ==
  /\ request = None
  /\ request' = d
  /\ UNCHANGED <<outcome, result>>

Probed ==
  /\ request # None /\ result = None
  /\ \E i \in Applicable(request) :
       /\ Used(request, i)
       /\ LET s == Verifiers[request.type][i] IN
            \E w \in Outcomes(s, request) :
              /\ outcome' = w
              /\ result' = Probe(s, request, w)
  /\ UNCHANGED request

Skipped ==
  /\ request # None /\ result = None
  /\ Applicable(request) = {}
  /\ result' = "skipped"
  /\ UNCHANGED <<request, outcome>>

\* The endpoint goes on with the result, or answers 500 when verify raised.
Returned ==
  /\ result # None
  /\ request' = None /\ outcome' = None /\ result' = None

Next == (\E d \in Declarations : Verify(d)) \/ Probed \/ Skipped \/ Returned

Spec == Init /\ [][Next]_vars

-----------------------------------------------------------------------------
Gcp == {"firestore", "cloudsql", "gcs", "pubsub", "cloud_functions", "cloud_run_jobs"}

\* What the statuses mean (verification/base.py): "verified" only when the live
\* probe was answered by something that exists, where only a bare base_url is
\* taken to exist on a 404; "failed" when a probe ran or lacked its credentials;
\* "metadata_only" and "skipped" only when nothing was asked of the network.  The
\* code skips more than base.py:8 says, which is when nothing was given: whatever
\* no strategy can use.  A verifier raises only on what makes no address.
HonestVerdict ==
  result # None =>
    /\ result = "verified" =>
         /\ outcome \in Responses \union {"open"}
         /\ outcome = "404" => "base_url" \in request.has /\ "url" \notin request.has
    /\ result = "failed" =>
         outcome # None \/ request.has \intersect ({"creds"} \union Gcp) # {}
    /\ result \in {"metadata_only", "skipped"} => outcome = None /\ "url" \notin request.has
    /\ result = "error" => outcome \in {None, "not_an_address"} /\ "url" \notin request.has
=============================================================================
