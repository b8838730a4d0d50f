-------------------------------- MODULE Metrics --------------------------------
(***************************************************************************)
(* The Prometheus series of internal/metrics, as the handlers of Monitor     *)
(* move them.  The labels that name the user, the endpoint and the way the   *)
(* user was identified are summed over; the histograms count observations,   *)
(* and the two about Redis are not moved by a stream.                       *)
(***************************************************************************)
EXTENDS Monitor, FiniteSetsExt

VARIABLES counter, activeStreams

mvars == <<vars, counter, activeStreams>>

Outcomes == {"complete", "client_disconnect", "grpc_error", "write_error",
             "killed"}

Series ==
  {<<"resolutions", "all">>, <<"bytes_streamed", "all">>, <<"anomalies", "all">>}
  \cup {"requests"}   \X {"200", "429", "502"}
  \cup {"kills"}      \X {"ceiling", "graduated"}
  \cup {"decisions"}  \X {"kill", "throttle", "grace_log", "grace_throttle"}
  \cup {"violations"} \X Grades
  \cup {"duration"}   \X Outcomes

MetricsInit ==
  /\ Init
  /\ counter = [x \in Series |-> 0]
  /\ activeStreams = 0

Inc(S) == counter' = [x \in Series |-> counter[x] + IF x \in S THEN 1 ELSE 0]

If(condition, S) == IF condition THEN S ELSE {}

-----------------------------------------------------------------------------
\* A request is identified; the gauge counts it once its call is open, and
\* only the enforced path counts one whose call cannot be opened.
StartCounted(s) ==
  /\ Start(s)
  /\ Inc({<<"resolutions", "all">>}
         \cup If(pc'[s] = "refused" /\ ~request[s].bypass, {<<"requests", "502">>}))
  /\ activeStreams' = activeStreams + IF pc'[s] = "select" THEN 1 ELSE 0

\* Fault: only a kill over the ceiling is counted.
KillCountedAtCeiling(s, reason) ==
  If(monitor'[s].killed /\ reason = "ceiling",
     {<<"kills", reason>>, <<"decisions", "kill">>})

\* An anomaly is counted with the kill of its stream, and only then.
KillCounted(s, reason) ==
  If(monitor'[s].killed,
     {<<"kills", reason>>, <<"decisions", "kill">>}
     \cup If(monitor'[s].decision.anomaly, {<<"anomalies", "all">>}))

RecvCounted(s) ==
  /\ Recv(s)
  /\ Inc(KillCounted(s, "ceiling")
         \cup If(~monitor[s].throttled /\ monitor'[s].throttled,
                 {<<"decisions", "throttle">>}))
  /\ UNCHANGED activeStreams

EvaluateReturnCounted(s, g) ==
  /\ EvaluateReturn(s, g)
  /\ Inc({<<"violations", g>>}
         \cup If(g = "log_only", {<<"decisions", "grace_log">>})
         \cup If(g = "throttle", {<<"decisions", "grace_throttle">>})
         \cup KillCounted(s, "graduated"))
  /\ UNCHANGED activeStreams

\* The bytes of a chunk are counted after its write, and not if it fails.
WriteCounted(s) ==
  /\ \/ /\ WriteOk(s)
        /\ counter' = [counter EXCEPT ![<<"bytes_streamed", "all">>] =
                         @ + chunk[s].size]
     \/ /\ \E n \in 0 .. chunk[s].size : WriteFail(s, n)
        /\ UNCHANGED counter
  /\ UNCHANGED activeStreams

\* Stream returns, and its deferred call lowers the gauge; a bypassed request
\* ends without being counted.
FinalizeCounted(s) ==
  /\ Finalize(s)
  /\ Inc({<<"duration", outcome[s]>>}
         \cup If(~request[s].bypass,
                 {<<"requests", IF monitor[s].killed THEN "429" ELSE "200">>}))
  /\ activeStreams' = activeStreams - 1

MetricsNext ==
  \/ \E s \in Streams :
       \/ StartCounted(s)
       \/ RecvCounted(s)
       \/ \E g \in Grades : EvaluateReturnCounted(s, g)
       \/ WriteCounted(s)
       \/ FinalizeCounted(s)
       \/ /\ ClientDisconnect(s) \/ SelectClientGone(s) \/ SelectDefault(s)
          /\ UNCHANGED <<counter, activeStreams>>
  \/ AllServed /\ UNCHANGED <<counter, activeStreams>>

MetricsSpec == MetricsInit /\ [][MetricsNext]_mvars /\ Fairness

-----------------------------------------------------------------------------
\* The sum of a counter over the labels that it has.
Total(name) ==
  MapThenSumSet(LAMBDA x : counter[x], {x \in Series : x[1] = name})

Bypassed == {s \in Streams : request[s].bypass /\ pc[s] # "idle"}
Enforced == {s \in Streams : ~request[s].bypass /\ pc[s] \in Running}

\* The dashboard adds up, whatever way each stream ended: every request that
\* was identified is counted by its status, still running, or bypassed; the gauge
\* is the streams that run; every kill is a 429, and a kill that is not the
\* ceiling's is a violation graded terminate; and the bytes counted were
\* delivered, all but those of a write that failed half way.
CountersReconcile ==
  /\ counter[<<"resolutions", "all">>] =
       Total("requests") + Cardinality(Bypassed) + Cardinality(Enforced)
  /\ activeStreams = Cardinality({s \in Streams : pc[s] \in Running})
  /\ Total("kills") = counter[<<"decisions", "kill">>]
  /\ Total("kills") =
       counter[<<"requests", "429">>]
       + Cardinality({s \in Streams : monitor[s].killed /\ pc[s] = "finalize"})
  /\ counter[<<"kills", "graduated">>] = counter[<<"violations", "terminate">>]
  /\ counter[<<"bytes_streamed", "all">>] =
       MapThenSumSet(
         LAMBDA s : IF outcome[s] = "write_error"
                    THEN monitor[s].totalBytes - chunk[s].size ELSE delivered[s],
         Streams)
=============================================================================
