------------------------------ MODULE MCPacket ------------------------------
(* Instances of Packet for TLC: two agents, and a log that was not empty. *)
EXTENDS Packet, TLC

CONSTANTS k1, k2, r1, m1, art1, art2, art3

TwoKids == <<k1, k2>>
ThreeCalls ==
  <<[agent |-> "a", decision |-> "approve"], [agent |-> "b", decision |-> "deny"],
    [agent |-> "a", decision |-> "approve"]>>
WholeAndPart ==
  {[start_seq |-> 1, end_seq |-> 3, agent_id |-> Missing],
   [start_seq |-> 1, end_seq |-> 3, agent_id |-> "a"]}
\* Proofs over four and five entries, in the latter a leaf promoted twice; the
\* limit leaves a sixth entry out.
EarlierLogs == {<<art1, art2, art3>>}
=============================================================================
