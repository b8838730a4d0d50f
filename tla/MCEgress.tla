------------------------------- MODULE MCEgress -------------------------------
(***************************************************************************)
(* A small instance of Egress: floor 10, ceiling 20; a backend whose normal *)
(* streams stay under the ceiling and whose attacks do not.                *)
(***************************************************************************)
EXTENDS Egress, TLC

MCRequests ==
  [endpoint : {"/data", "/export"}, role : {"none"}, bypass : BOOLEAN]

MCEndpointOverrides == "/export" :> [floor |-> 2, ceiling |-> 4, burst |-> 2]

MCRoleMultipliers == "admin" :> 4

MCHistories ==
  {[average |-> 0, rate |-> 0, requests |-> 0, isNewUser |-> TRUE]}

MCChunkCounts == "normal" :> {1, 2} @@ "attack" :> {4} @@ "export" :> {3}

MCPayloads == "normal" :> {4, 8} @@ "attack" :> {8} @@ "export" :> {9}
=============================================================================
