------------------------------ MODULE MCMonitor ------------------------------
(***************************************************************************)
(* Small instances of Monitor and its refinement.  Multipliers are in       *)
(* halves: floor 10, ceiling 20, burst 1.5, anomaly factor 2.              *)
(***************************************************************************)
EXTENDS Metrics, MonitorRefinement, TLC

CONSTANT Bypass   \* whether the instance has a client with the bypass secret

\* /export has a full override; the override of /raw names only its floor, and
\* Go leaves the multipliers it does not name at zero; a typing error made the
\* ceiling of /off negative.
MCEndpointOverrides ==
  "/export" :> [floor |-> 3, ceiling |-> 6, burst |-> 4]
  @@ "/raw" :> [floor |-> 2, ceiling |-> 0, burst |-> 0]
  @@ "/off" :> [floor |-> 2, ceiling |-> -1, burst |-> 2]

MCRoleMultipliers == "admin" :> 4 @@ "guest" :> 1

MCRequests ==
  {[endpoint |-> e, role |-> r, bypass |-> FALSE] :
     e \in {"/data", "/export"}, r \in {"none", "admin", "guest"}}
  \cup {[endpoint |-> e, role |-> "none", bypass |-> FALSE] :
          e \in {"/raw", "/off"}}
  \cup {[endpoint |-> "/data", role |-> "none", bypass |-> TRUE] :
          b \in IF Bypass THEN {TRUE} ELSE {}}

\* A new user (or Redis unavailable), a user with too few samples, a regular
\* one, one whose burst is over every ceiling.
MCHistories ==
  {[average |-> 0,  rate |-> 0, requests |-> 0, isNewUser |-> TRUE],
   [average |-> 10, rate |-> 0, requests |-> 1, isNewUser |-> FALSE],
   [average |-> 10, rate |-> 3, requests |-> 5, isNewUser |-> FALSE],
   [average |-> 90, rate |-> 9, requests |-> 5, isNewUser |-> FALSE]}

MCPlainRequests ==
  {[endpoint |-> "/data", role |-> r, bypass |-> FALSE] : r \in {"none", "guest"}}

\* The limits MCRequests and MCHistories give.
MCAmounts ==
  {NoLimit}
  \cup UNION {LET d == Evaluate(h, r.endpoint, r.role, 0)
              IN  {d.allowed, d.ceiling} : h \in Histories, r \in Requests}
=============================================================================
