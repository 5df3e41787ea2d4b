--------------------------- MODULE MCAsyncGateway ---------------------------
(* Instances of AsyncGateway for TLC. *)
EXTENDS AsyncGateway, TLC

=============================================================================
