------------------------------ MODULE MCSentinel ------------------------------
(***************************************************************************)
(* A small instance of Sentinel: two streams of a guest, whose limits are   *)
(* halved.  The one chunk of a stream is over the limit of a user without   *)
(* history, 0, and not over the ceiling, 1.                                *)
(***************************************************************************)
EXTENDS Sentinel, TLC

MCRequests == {[endpoint |-> "/data", role |-> "guest", bypass |-> FALSE]}
None == <<>>
MCRoleMultipliers == "guest" :> 1
Symmetry == Permutations(Streams)
MCHistories == {[average |-> 0, rate |-> 0, requests |-> 0, isNewUser |-> TRUE]}
=============================================================================
