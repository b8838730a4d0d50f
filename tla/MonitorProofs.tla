---------------------------- MODULE MonitorProofs ----------------------------
(***************************************************************************)
(* Theorems about the stream monitor, for any number of streams, any       *)
(* requests, histories and chunk sizes, and any accepted configuration.    *)
(***************************************************************************)
EXTENDS Monitor, TLAPS

-----------------------------------------------------------------------------
\* What the threshold engine returns, for every configuration of numbers that
\* Validate accepts, as far as an int64 holds the limits, and every history.

\* A product of naturals is one, and so is one of integers.
LEMMA TimesNat ==
  ASSUME NEW a \in Nat, NEW b \in Nat
  PROVE  a * b \in Nat
  OBVIOUS

LEMMA TimesInt ==
  ASSUME NEW a \in Int, NEW b \in Int
  PROVE  a * b \in Int
  OBVIOUS

\* A natural divided by a positive one is a natural.
LEMMA DivNat ==
  ASSUME NEW a \in Nat, NEW b \in Nat \ {0}
  PROVE  a \div b \in Nat
  OBVIOUS

\* What is cut off towards zero is whole, and keeps its sign.
LEMMA TruncType ==
  ASSUME NEW n \in Int, NEW d \in Nat \ {0}
  PROVE  /\ Trunc(n, d) \in Int
         /\ n >= 0 => Trunc(n, d) \in Nat
<1>1. CASE n < 0
  <2>1. -n \in Nat
    BY <1>1
  <2>2. (-n) \div d \in Nat
    BY <2>1, DivNat
  <2> QED BY <1>1, <2>2 DEF Trunc
<1>2. CASE n >= 0
  <2>1. n \div d \in Nat
    BY <1>2, DivNat
  <2> QED BY <1>2, <2>1 DEF Trunc
<1> QED BY <1>1, <1>2

\* The multipliers of an endpoint and a role that no limit is negative for.
NoNegativeMult(endpoint, role) ==
  FloorMult(endpoint) >= 0 /\ CeilingMult(endpoint) >= 0 /\ RoleMult(role) >= 0

\* Every multiplier is a whole number, and that of the burst is not negative.
LEMMA Mults ==
  ASSUME NEW endpoint, NEW role
  PROVE  /\ FloorMult(endpoint) \in Int
         /\ CeilingMult(endpoint) \in Int
         /\ BurstMult(endpoint) \in Nat
         /\ RoleMult(role) \in Int
<1>1. Unit \in Nat /\ BurstMultiplier \in Nat
  BY ThresholdAssumption DEF ThresholdAssumption
<1>2. FloorMult(endpoint) \in Int /\ CeilingMult(endpoint) \in Int
  BY <1>1, ThresholdAssumption
  DEF ThresholdAssumption, FloorMult, CeilingMult
<1>3. RoleMult(role) \in Int
  BY <1>1, ThresholdAssumption DEF ThresholdAssumption, RoleMult
<1>4. CASE /\ endpoint \in DOMAIN EndpointOverrides
           /\ EndpointOverrides[endpoint].burst > 0
  <2>1. EndpointOverrides[endpoint].burst \in Nat
    BY <1>4, ThresholdAssumption DEF ThresholdAssumption
  <2>2. BurstMult(endpoint) \in Nat
    BY <1>1, <1>4, <2>1, TimesNat DEF BurstMult
  <2> QED BY <1>2, <1>3, <2>2
<1>5. CASE ~(/\ endpoint \in DOMAIN EndpointOverrides
             /\ EndpointOverrides[endpoint].burst > 0)
  <2>1. BurstMult(endpoint) \in Nat
    BY <1>1, <1>5, TimesNat DEF BurstMult
  <2> QED BY <1>2, <1>3, <2>1
<1> QED BY <1>4, <1>5

\* The effective floor and ceiling, and the burst, are whole, and natural
\* where no multiplier is negative.
LEMMA EffectiveType ==
  ASSUME NEW endpoint, NEW role, NEW average \in Nat
  PROVE  /\ EffectiveFloor(endpoint, role) \in Int
         /\ EffectiveCeiling(endpoint, role) \in Int
         /\ BurstAllowed(average, endpoint, role) \in Int
         /\ NoNegativeMult(endpoint, role) =>
              /\ EffectiveFloor(endpoint, role) \in Nat
              /\ EffectiveCeiling(endpoint, role) \in Nat
              /\ BurstAllowed(average, endpoint, role) \in Nat
<1> DEFINE U2 == Unit * Unit
           U3 == Unit * Unit * Unit
           nf == GlobalFloorBytes * FloorMult(endpoint) * RoleMult(role)
           nc == AbsoluteCeilingBytes * CeilingMult(endpoint) * RoleMult(role)
           nb == average * BurstMult(endpoint) * RoleMult(role)
<1>1. /\ Unit \in Nat \ {0}
      /\ GlobalFloorBytes \in Nat
      /\ AbsoluteCeilingBytes \in Nat
  BY ThresholdAssumption DEF ThresholdAssumption
<1>2. U2 \in Nat \ {0} /\ U3 \in Nat \ {0}
  BY <1>1
<1>3. nf \in Int /\ nc \in Int /\ nb \in Int
  BY <1>1, Mults, TimesInt
<1>4. ASSUME NoNegativeMult(endpoint, role)
      PROVE  nf \in Nat /\ nc \in Nat /\ nb \in Nat
  <2>1. /\ FloorMult(endpoint) \in Nat
        /\ CeilingMult(endpoint) \in Nat
        /\ BurstMult(endpoint) \in Nat
        /\ RoleMult(role) \in Nat
    BY <1>4, Mults DEF NoNegativeMult
  <2> QED BY <1>1, <2>1, TimesNat
<1> HIDE DEF U2, U3, nf, nc, nb
<1>5. Trunc(nf, U2) \in Int /\ Trunc(nc, U2) \in Int /\ Trunc(nb, U3) \in Int
  BY <1>2, <1>3, TruncType
<1>6. NoNegativeMult(endpoint, role) =>
        Trunc(nf, U2) \in Nat /\ Trunc(nc, U2) \in Nat /\ Trunc(nb, U3) \in Nat
  BY <1>2, <1>3, <1>4, TruncType
<1> QED BY <1>5, <1>6
        DEF U2, U3, nf, nc, nb, EffectiveFloor, EffectiveCeiling, BurstAllowed

\* Engine.Evaluate returns a decision whatever multipliers the endpoint and the
\* role have; where none is negative, which Validate does not see to, its limits
\* are amounts of bytes.
THEOREM EvaluateType ==
  ASSUME NEW stats \in Stats, NEW endpoint, NEW role, NEW rate \in Nat
  PROVE  LET d == Evaluate(stats, endpoint, role, rate)
         IN  /\ d \in Decision
             /\ NoNegativeMult(endpoint, role) =>
                  d.allowed \in Nat /\ d.floor \in Nat /\ d.ceiling \in Nat
<1> DEFINE floor   == EffectiveFloor(endpoint, role)
           ceiling == EffectiveCeiling(endpoint, role)
           burst   == BurstAllowed(stats.average, endpoint, role)
<1>1. stats.average \in Nat /\ stats.isNewUser \in BOOLEAN
  BY DEF Stats
<1>2. /\ floor \in Int /\ ceiling \in Int /\ burst \in Int
      /\ NoNegativeMult(endpoint, role) =>
           floor \in Nat /\ ceiling \in Nat /\ burst \in Nat
  BY <1>1, EffectiveType
<1> HIDE DEF floor, ceiling, burst
<1>3. /\ AdaptiveLimit(floor, burst, ceiling) \in Int
      /\ NoNegativeMult(endpoint, role) =>
           AdaptiveLimit(floor, burst, ceiling) \in Nat
  BY <1>2 DEF AdaptiveLimit
<1>4. LacksHistory(stats) \in BOOLEAN
  BY DEF LacksHistory
<1> QED BY <1>1, <1>2, <1>3, <1>4
    DEF Evaluate, Decision, floor, ceiling, burst

\* A user with history is held within the ceiling, and where the floor is
\* below the ceiling gets at least the floor a new user gets.
THEOREM HistoryWithinLimits ==
  ASSUME NEW stats \in Stats, NEW endpoint, NEW role, NEW rate \in Nat,
         ~LacksHistory(stats)
  PROVE  LET d == Evaluate(stats, endpoint, role, rate)
         IN  /\ d.allowed <= d.ceiling
             /\ d.floor <= d.ceiling => d.floor <= d.allowed
<1> DEFINE floor   == EffectiveFloor(endpoint, role)
           ceiling == EffectiveCeiling(endpoint, role)
           burst   == BurstAllowed(stats.average, endpoint, role)
<1>1. stats.average \in Nat
  BY DEF Stats
<1>2. floor \in Int /\ ceiling \in Int /\ burst \in Int
  BY <1>1, EffectiveType
<1> HIDE DEF floor, ceiling, burst
<1>3. /\ AdaptiveLimit(floor, burst, ceiling) <= ceiling
      /\ floor <= ceiling => floor <= AdaptiveLimit(floor, burst, ceiling)
  BY <1>2 DEF AdaptiveLimit
<1> QED BY <1>3 DEF Evaluate, floor, ceiling, burst

-----------------------------------------------------------------------------
\* The stream monitor.
USE DEF incoming, ledger, Cancel, Forward, Permits, Recorded

-----------------------------------------------------------------------------
\* The statistics the loop invents are statistics.
LEMMA AssumedStatsType ==
  ASSUME NEW d \in Decision
  PROVE  AssumedStats(d) \in Stats
<1>1. d.average \in Nat /\ d.average \div 10 \in Nat
  BY DivNat DEF Decision
<1> QED BY <1>1 DEF AssumedStats, Stats

\* Counting a chunk keeps a monitor a monitor, and moves nothing but the
\* totals and the anomaly flag.
LEMMA ObservedType ==
  ASSUME NEW m \in MonitorState, NEW req, NEW size \in Nat, NEW rate \in Nat
  PROVE  LET o == Observed(m, req, size, rate)
         IN  /\ o \in MonitorState
             /\ o.totalBytes = m.totalBytes + size
             /\ o.chunkCount = m.chunkCount + 1
             /\ o.decision.allowed = m.decision.allowed
             /\ o.decision.ceiling = m.decision.ceiling
             /\ o.throttled = m.throttled
             /\ o.softBreachHandled = m.softBreachHandled
             /\ o.killed = m.killed
<1> DEFINE e == Evaluate(AssumedStats(m.decision), req.endpoint, req.role, rate)
<1>1. m.decision \in Decision
  BY DEF MonitorState
<1>2. e \in Decision
  BY <1>1, AssumedStatsType, EvaluateType
<1>3. e.anomaly \in BOOLEAN
  BY <1>2 DEF Decision
<1> HIDE DEF e
<1>4. Observed(m, req, size, rate) =
        [m EXCEPT !.totalBytes = @ + size,
                  !.chunkCount = @ + 1,
                  !.decision.anomaly = e.anomaly]
  BY DEF Observed, e
<1> DEFINE d == [m.decision EXCEPT !.anomaly = e.anomaly]
<1>5. /\ d \in Decision
      /\ d.allowed = m.decision.allowed
      /\ d.ceiling = m.decision.ceiling
  BY <1>1, <1>3 DEF Decision
<1>6. Observed(m, req, size, rate) =
        [decision |-> d,
         totalBytes |-> m.totalBytes + size,
         chunkCount |-> m.chunkCount + 1,
         throttled |-> m.throttled,
         softBreachHandled |-> m.softBreachHandled,
         killed |-> m.killed]
  BY <1>4 DEF MonitorState
<1>7. /\ m.totalBytes + size \in Nat /\ m.chunkCount + 1 \in Nat
      /\ m.throttled \in BOOLEAN /\ m.softBreachHandled \in BOOLEAN
      /\ m.killed \in BOOLEAN
  BY DEF MonitorState
<1> HIDE DEF d
<1> QED BY <1>5, <1>6, <1>7 DEF MonitorState

\* The throttle check moves only the throttle.
LEMMA ThrottleCheckType ==
  ASSUME NEW m \in MonitorState
  PROVE  LET o == AfterThrottleCheck(m)
         IN  /\ o \in MonitorState
             /\ o.totalBytes = m.totalBytes
             /\ o.chunkCount = m.chunkCount
             /\ o.decision = m.decision
             /\ o.softBreachHandled = m.softBreachHandled
             /\ o.killed = m.killed
<1>1. m.throttled \/ ShouldThrottle(m.totalBytes, m.decision) \in BOOLEAN
  BY DEF MonitorState, ShouldThrottle
<1> QED BY <1>1 DEF AfterThrottleCheck, MonitorState, ShouldThrottle

\* So does a grade.
LEMMA GradedType ==
  ASSUME NEW m \in MonitorState, NEW g
  PROVE  LET o == Graded(m, g)
         IN  /\ o \in MonitorState
             /\ o.totalBytes = m.totalBytes
             /\ o.chunkCount = m.chunkCount
             /\ o.decision = m.decision
             /\ o.softBreachHandled = m.softBreachHandled
             /\ o.killed = m.killed
  BY DEF Graded, MonitorState

\* A new monitor is one.
LEMMA NewMonitorType ==
  ASSUME NEW d \in Decision
  PROVE  NewMonitor(d) \in MonitorState
  BY DEF NewMonitor, MonitorState

LEMMA UniformDecisionType ==
  ASSUME NEW limit \in Nat
  PROVE  UniformDecision(limit) \in Decision
  BY DEF UniformDecision, Decision

\* The chunk a handler holds has a size.
LEMMA ChunkSize ==
  ASSUME TypeOK, NEW s \in Streams
  PROVE  chunk[s].size \in Nat
<1>1. chunk[s] \in Chunks
  BY DEF TypeOK
<1>2. chunk[s].size \in ChunkSizes \cup {0}
  BY <1>1 DEF Chunks
<1>3. \A n \in ChunkSizes \cup {0} : n \in Nat
  BY MonitorAssumption DEF MonitorAssumption
<1> QED BY <1>2, <1>3

-----------------------------------------------------------------------------
\* Every state is well typed.
LEMMA TypeInit == Init => TypeOK
<1>1. NewMonitor(UniformDecision(0)) \in MonitorState
  BY NewMonitorType, UniformDecisionType
<1> QED BY <1>1 DEF Init, TypeOK, Chunks, Running

LEMMA TypeNext == TypeOK /\ [Next]_vars => TypeOK'
<1> SUFFICES ASSUME TypeOK, [Next]_vars
             PROVE  TypeOK'
  OBVIOUS
<1> USE DEF TypeOK
<1>1. ASSUME NEW s \in Streams, NEW h \in Histories, StartEnforced(s, h)
      PROVE  TypeOK'
  <2>1. Evaluate(h, request[s].endpoint, request[s].role, 0) \in Decision
    BY MonitorAssumption, EvaluateType DEF MonitorAssumption
  <2>2. NewMonitor(Evaluate(h, request[s].endpoint, request[s].role, 0))
          \in MonitorState
    BY <2>1, NewMonitorType
  <2> QED BY <1>1, <2>2 DEF StartEnforced, Running
<1>2. ASSUME NEW s \in Streams, StartBypassed(s)
      PROVE  TypeOK'
  <2>1. NewMonitor(UniformDecision(NoLimit)) \in MonitorState
    BY MonitorAssumption, NewMonitorType, UniformDecisionType
    DEF MonitorAssumption
  <2> QED BY <1>2, <2>1 DEF StartBypassed, Running
<1>3. ASSUME NEW s \in Streams, BackendUnavailable(s)
      PROVE  TypeOK'
  BY <1>3 DEF BackendUnavailable
<1>4. ASSUME NEW s \in Streams, ClientDisconnect(s)
      PROVE  TypeOK'
  BY <1>4 DEF ClientDisconnect
<1>5. ASSUME NEW s \in Streams, SelectClientGone(s)
      PROVE  TypeOK'
  BY <1>5 DEF SelectClientGone, LeaveLoop, Running
<1>6. ASSUME NEW s \in Streams, SelectDefault(s)
      PROVE  TypeOK'
  BY <1>6 DEF SelectDefault, Running
<1>7. ASSUME NEW s \in Streams, RecvEOF(s) \/ RecvError(s)
      PROVE  TypeOK'
  BY <1>7 DEF RecvEOF, RecvError, LeaveLoop, Running
<1>8. ASSUME NEW s \in Streams, NEW size \in ChunkSizes,
             NEW last \in BOOLEAN, NEW rate \in Rates,
             RecvChunk(s, size, last, rate)
      PROVE  TypeOK'
  <2> DEFINE m == Observed(monitor[s], request[s], size, rate)
  <2>1. size \in Nat /\ rate \in Nat /\ monitor[s] \in MonitorState
    BY MonitorAssumption DEF MonitorAssumption
  <2>2. m \in MonitorState
    BY <2>1, ObservedType
  <2>3. AfterThrottleCheck(m) \in MonitorState
    BY <2>2, ThrottleCheckType
  <2>4. Charged(m) \in MonitorState /\ [m EXCEPT !.killed = TRUE] \in MonitorState
    BY <2>2 DEF MonitorState, Charged
  <2>5. /\ chunk' \in [Streams -> Chunks]
        /\ UNCHANGED <<request, grade, clientGone, delivered, recorded>>
    BY <1>8 DEF RecvChunk, Chunks
  <2>6. \/ HardKill(s, m)
        \/ /\ monitor' = [monitor EXCEPT ![s] = Charged(m)]
           /\ pc' = [pc EXCEPT ![s] = "evaluate"]
           /\ UNCHANGED <<outcome, cancelled>>
        \/ /\ monitor' = [monitor EXCEPT ![s] = AfterThrottleCheck(m)]
           /\ pc' = [pc EXCEPT ![s] = "write"]
           /\ UNCHANGED <<outcome, cancelled>>
    BY <1>8 DEF RecvChunk
  <2> HIDE DEF m
  <2>7. monitor' \in [Streams -> MonitorState]
    BY <2>3, <2>4, <2>6 DEF HardKill
  <2>8. /\ pc' \in [Streams -> Running \cup {"idle", "refused", "done"}]
        /\ outcome' \in [Streams -> {"none", "complete", "client_disconnect",
                                     "grpc_error", "write_error", "killed"}]
        /\ cancelled' \in [Streams -> BOOLEAN]
    BY <2>6 DEF HardKill, LeaveLoop, Running
  <2> QED BY <2>5, <2>7, <2>8
<1>9. ASSUME NEW s \in Streams, NEW g \in Grades, EvaluateReturn(s, g)
      PROVE  TypeOK'
  <2>1. monitor[s] \in MonitorState
    OBVIOUS
  <2>2. AfterThrottleCheck(Graded(monitor[s], g)) \in MonitorState
    BY <2>1, GradedType, ThrottleCheckType
  <2>3. [monitor[s] EXCEPT !.killed = TRUE] \in MonitorState
    BY <2>1 DEF MonitorState
  <2>4. monitor' \in [Streams -> MonitorState]
    BY <1>9, <2>2, <2>3 DEF EvaluateReturn, HardKill
  <2>5. /\ pc' \in [Streams -> Running \cup {"idle", "refused", "done"}]
        /\ outcome' \in [Streams -> {"none", "complete", "client_disconnect",
                                     "grpc_error", "write_error", "killed"}]
        /\ cancelled' \in [Streams -> BOOLEAN]
    BY <1>9 DEF EvaluateReturn, HardKill, LeaveLoop, Running
  <2>6. /\ grade' \in [Streams -> Grades \cup {"none"}]
        /\ UNCHANGED <<request, chunk, clientGone, delivered, recorded>>
    BY <1>9 DEF EvaluateReturn
  <2> QED BY <2>4, <2>5, <2>6
<1>10. ASSUME NEW s \in Streams, WriteOk(s)
       PROVE  TypeOK'
  <2>1. chunk[s].size \in Nat
    BY ChunkSize
  <2> QED BY <1>10, <2>1 DEF WriteOk, LeaveLoop, Running
<1>11. ASSUME NEW s \in Streams, NEW n \in 0 .. chunk[s].size, WriteFail(s, n)
       PROVE  TypeOK'
  BY <1>11 DEF WriteFail, LeaveLoop, Running
<1>12. ASSUME NEW s \in Streams, Finalize(s)
       PROVE  TypeOK'
  BY <1>12 DEF Finalize, MonitorState, Running
<1>13. CASE AllServed \/ UNCHANGED vars
  BY <1>13 DEF AllServed, vars
<1> QED
  BY <1>1, <1>2, <1>3, <1>4, <1>5, <1>6, <1>7, <1>8, <1>9, <1>10, <1>11,
     <1>12, <1>13
  DEF Next, Start, Recv, Write

\* The state of every stream stays well typed, whatever the streams do.
THEOREM TypeCorrect == Spec => []TypeOK
<1>1. Init => TypeOK
  BY TypeInit
<1>2. TypeOK /\ [Next]_vars => TypeOK'
  BY TypeNext
<1> QED BY <1>1, <1>2, PTL DEF Spec

-----------------------------------------------------------------------------
\* Where the received bytes are, at every place of the loop.  Between two
\* chunks all of them were delivered; while a chunk is held it is what
\* separates the two totals, and the sum is within the ceiling already.  The
\* limits may be negative: nothing is within them but the want of any chunk.
Accounting(s) ==
  /\ pc[s] \in {"idle", "refused"} =>
       monitor[s].totalBytes = 0 /\ delivered[s] = 0
  /\ pc[s] \in {"select", "recv"} =>
       /\ delivered[s] = monitor[s].totalBytes
       /\ monitor[s].totalBytes > 0 =>
            monitor[s].totalBytes <= monitor[s].decision.ceiling
  /\ pc[s] \in {"evaluate", "write"} =>
       /\ delivered[s] + chunk[s].size = monitor[s].totalBytes
       /\ monitor[s].totalBytes <= monitor[s].decision.ceiling
  /\ pc[s] \in {"finalize", "done"} =>
       /\ delivered[s] <= monitor[s].totalBytes
       /\ monitor[s].totalBytes <= delivered[s] + chunk[s].size
       /\ delivered[s] > 0 => delivered[s] <= monitor[s].decision.ceiling
  /\ recorded[s] = IF pc[s] = "done" THEN monitor[s].totalBytes ELSE 0

\* What is known of the violation at every place of the loop: a chunk over
\* the limit is held for writing only by a graded stream.
Pardoned(s) == grade[s] \in {"log_only", "throttle"}

Grading(s) ==
  /\ pc[s] \in {"idle", "refused"} =>
       ~monitor[s].softBreachHandled /\ grade[s] = "none"
  /\ pc[s] \in {"select", "recv", "write"} =>
       /\ monitor[s].softBreachHandled => Pardoned(s)
       /\ ~monitor[s].softBreachHandled =>
            /\ grade[s] = "none"
            /\ monitor[s].totalBytes > 0 \/ pc[s] = "write" =>
                 monitor[s].totalBytes <= monitor[s].decision.allowed
  /\ pc[s] = "evaluate" =>
       /\ monitor[s].softBreachHandled
       /\ grade[s] = "none"
       /\ delivered[s] > 0 => delivered[s] <= monitor[s].decision.allowed
       /\ monitor[s].decision.allowed < monitor[s].totalBytes
  /\ /\ pc[s] \in {"finalize", "done"}
     /\ delivered[s] > 0
     /\ delivered[s] > monitor[s].decision.allowed
     => monitor[s].softBreachHandled /\ Pardoned(s)
  /\ monitor[s].killed =>
       /\ pc[s] \in {"finalize", "done"}
       /\ \/ monitor[s].totalBytes > monitor[s].decision.ceiling
          \/ /\ monitor[s].totalBytes > monitor[s].decision.allowed
             /\ grade[s] = "terminate"

StreamInv == \A s \in Streams : Accounting(s) /\ Grading(s)

\* The numbers of a stream are numbers.
LEMMA StreamNumbers ==
  ASSUME TypeOK, NEW s \in Streams
  PROVE  /\ monitor[s] \in MonitorState
         /\ monitor[s].totalBytes \in Nat
         /\ monitor[s].decision \in Decision
         /\ monitor[s].decision.allowed \in Int
         /\ monitor[s].decision.ceiling \in Int
         /\ chunk[s].size \in Nat
         /\ delivered[s] \in Nat
         /\ recorded[s] \in Nat
<1>1. monitor[s] \in MonitorState /\ delivered[s] \in Nat /\ recorded[s] \in Nat
  BY DEF TypeOK
<1>2. monitor[s].totalBytes \in Nat /\ monitor[s].decision \in Decision
  BY <1>1 DEF MonitorState
<1>3. monitor[s].decision.allowed \in Int /\ monitor[s].decision.ceiling \in Int
  BY <1>2 DEF Decision
<1> QED BY <1>1, <1>2, <1>3, ChunkSize

\* A step leaves stream t alone.
Untouched(t) ==
  /\ pc'[t] = pc[t] /\ monitor'[t] = monitor[t] /\ chunk'[t] = chunk[t]
  /\ grade'[t] = grade[t] /\ delivered'[t] = delivered[t]
  /\ recorded'[t] = recorded[t]

\* What is known of a stream that a step leaves alone stays known.
LEMMA UntouchedInv ==
  ASSUME NEW t \in Streams, Accounting(t) /\ Grading(t), Untouched(t)
  PROVE  (Accounting(t) /\ Grading(t))'
  BY DEF Untouched, Accounting, Grading, Pardoned

\* So a step of one stream preserves the invariant when it does for it.
LEMMA OneStream ==
  ASSUME StreamInv, NEW s \in Streams,
         \A t \in Streams \ {s} : Untouched(t),
         Accounting(s)', Grading(s)'
  PROVE  StreamInv'
  BY UntouchedInv DEF StreamInv

\* At admission nothing was received or delivered.
LEMMA StartInv ==
  ASSUME TypeOK, StreamInv, NEW s \in Streams, NEW d \in Decision,
         pc[s] = "idle",
         monitor' = [monitor EXCEPT ![s] = NewMonitor(d)],
         pc' = [pc EXCEPT ![s] = "select"],
         UNCHANGED <<chunk, grade, delivered, recorded>>
  PROVE  StreamInv'
<1>1. /\ pc'[s] = "select" /\ monitor'[s] = NewMonitor(d)
      /\ \A t \in Streams \ {s} : Untouched(t)
  BY DEF TypeOK, Untouched
<1>2. d.ceiling \in Int /\ d.allowed \in Int
  BY DEF Decision
<1>3. Accounting(s) /\ Grading(s)
  BY DEF StreamInv
<1>4. Accounting(s)'
  BY <1>1, <1>2, <1>3 DEF Accounting, NewMonitor
<1>5. Grading(s)'
  BY <1>1, <1>2, <1>3 DEF Grading, NewMonitor
<1> QED BY <1>1, <1>4, <1>5, OneStream

\* Leaving the loop between two chunks, everything received was delivered.
LEMMA LeaveInv ==
  ASSUME TypeOK, StreamInv, NEW s \in Streams,
         pc[s] \in {"select", "recv"},
         pc' = [pc EXCEPT ![s] = "finalize"],
         UNCHANGED <<monitor, chunk, grade, delivered, recorded>>
  PROVE  StreamInv'
<1>1. pc'[s] = "finalize" /\ \A t \in Streams \ {s} : Untouched(t)
  BY DEF TypeOK, Untouched
<1>2. Accounting(s) /\ Grading(s)
  BY DEF StreamInv
<1>3. Accounting(s)'
  BY <1>1, <1>2, StreamNumbers DEF Accounting
<1>4. Grading(s)'
  BY <1>1, <1>2, StreamNumbers DEF Accounting, Grading, Pardoned
<1> QED BY <1>1, <1>3, <1>4, OneStream

\* A chunk arrives: it is held, and it puts the stream over its ceiling,
\* over its limit for the first time, or neither.
LEMMA RecvChunkInv ==
  ASSUME TypeOK, StreamInv, NEW s \in Streams, NEW size \in ChunkSizes,
         NEW last \in BOOLEAN, NEW rate \in Rates,
         RecvChunk(s, size, last, rate)
  PROVE  StreamInv'
<1> DEFINE m == Observed(monitor[s], request[s], size, rate)
           d == monitor[s].decision
<1>1. size \in Nat /\ rate \in Nat
  BY MonitorAssumption DEF MonitorAssumption
<1>2. /\ m \in MonitorState
      /\ m.totalBytes = monitor[s].totalBytes + size
      /\ m.decision.allowed = d.allowed
      /\ m.decision.ceiling = d.ceiling
      /\ m.softBreachHandled = monitor[s].softBreachHandled
      /\ m.killed = monitor[s].killed
  BY <1>1, StreamNumbers, ObservedType
<1>3. /\ pc[s] = "recv"
      /\ chunk' = [chunk EXCEPT ![s] = [size |-> size, last |-> last]]
      /\ UNCHANGED <<grade, delivered, recorded>>
      /\ \/ ShouldKill(m.totalBytes, m.decision) = "hard" /\ HardKill(s, m)
         \/ /\ ShouldKill(m.totalBytes, m.decision) = "soft"
            /\ ~m.softBreachHandled
            /\ monitor' = [monitor EXCEPT ![s] = Charged(m)]
            /\ pc' = [pc EXCEPT ![s] = "evaluate"]
         \/ /\ \/ ShouldKill(m.totalBytes, m.decision) = "none"
               \/ /\ ShouldKill(m.totalBytes, m.decision) = "soft"
                  /\ m.softBreachHandled
            /\ monitor' = [monitor EXCEPT ![s] = AfterThrottleCheck(m)]
            /\ pc' = [pc EXCEPT ![s] = "write"]
  BY DEF RecvChunk
<1>4. Accounting(s) /\ Grading(s)
  BY DEF StreamInv
<1>5. /\ delivered[s] = monitor[s].totalBytes
      /\ monitor[s].totalBytes > 0 => monitor[s].totalBytes <= d.ceiling
      /\ recorded[s] = 0
      /\ ~monitor[s].killed
      /\ monitor[s].softBreachHandled => Pardoned(s)
      /\ ~monitor[s].softBreachHandled =>
           /\ grade[s] = "none"
           /\ monitor[s].totalBytes > 0 => monitor[s].totalBytes <= d.allowed
  BY <1>3, <1>4 DEF Accounting, Grading
<1>6. /\ chunk'[s].size = size
      /\ delivered'[s] = delivered[s]
      /\ recorded'[s] = 0
      /\ grade'[s] = grade[s]
  BY <1>3, <1>5 DEF TypeOK
<1>7. \A t \in Streams \ {s} : Untouched(t)
  BY <1>3 DEF TypeOK, Untouched, HardKill, LeaveLoop
<1>8. /\ d.allowed \in Int /\ d.ceiling \in Int
      /\ monitor[s].totalBytes \in Nat
  BY StreamNumbers
<1> HIDE DEF m, d
<1>9. CASE ShouldKill(m.totalBytes, m.decision) = "hard" /\ HardKill(s, m)
  <2>1. /\ pc'[s] = "finalize"
        /\ monitor'[s] = [m EXCEPT !.killed = TRUE]
    BY <1>9 DEF HardKill, LeaveLoop, TypeOK
  <2>2. /\ monitor'[s].totalBytes = m.totalBytes
        /\ monitor'[s].decision = m.decision
        /\ monitor'[s].softBreachHandled = m.softBreachHandled
    BY <1>2, <2>1 DEF MonitorState
  <2>3. m.totalBytes > d.ceiling
    BY <1>2, <1>9 DEF ShouldKill
  <2>4. Accounting(s)'
    BY <1>1, <1>2, <1>5, <1>6, <1>8, <2>1, <2>2 DEF Accounting
  <2>5. Grading(s)'
    BY <1>1, <1>2, <1>5, <1>6, <1>8, <2>1, <2>2, <2>3 DEF Grading, Pardoned
  <2> QED BY <1>7, <2>4, <2>5, OneStream
<1>10. CASE /\ ShouldKill(m.totalBytes, m.decision) = "soft"
            /\ ~m.softBreachHandled
            /\ monitor' = [monitor EXCEPT ![s] = Charged(m)]
            /\ pc' = [pc EXCEPT ![s] = "evaluate"]
  <2>1. pc'[s] = "evaluate" /\ monitor'[s] = Charged(m)
    BY <1>10 DEF TypeOK
  <2>2. /\ monitor'[s].totalBytes = m.totalBytes
        /\ monitor'[s].decision = m.decision
        /\ monitor'[s].softBreachHandled
        /\ monitor'[s].killed = m.killed
    BY <1>2, <2>1 DEF MonitorState, Charged
  <2>3. m.totalBytes <= d.ceiling /\ m.totalBytes > d.allowed
    BY <1>1, <1>2, <1>8, <1>10 DEF ShouldKill
  <2>4. Accounting(s)'
    BY <1>1, <1>2, <1>5, <1>6, <1>8, <2>1, <2>2, <2>3 DEF Accounting
  <2>5. Grading(s)'
    BY <1>1, <1>2, <1>5, <1>6, <1>8, <1>10, <2>1, <2>2, <2>3
    DEF Grading, Pardoned
  <2> QED BY <1>7, <2>4, <2>5, OneStream
<1>11. CASE /\ \/ ShouldKill(m.totalBytes, m.decision) = "none"
               \/ /\ ShouldKill(m.totalBytes, m.decision) = "soft"
                  /\ m.softBreachHandled
            /\ monitor' = [monitor EXCEPT ![s] = AfterThrottleCheck(m)]
            /\ pc' = [pc EXCEPT ![s] = "write"]
  <2>1. pc'[s] = "write" /\ monitor'[s] = AfterThrottleCheck(m)
    BY <1>11 DEF TypeOK
  <2>2. /\ monitor'[s].totalBytes = m.totalBytes
        /\ monitor'[s].decision = m.decision
        /\ monitor'[s].softBreachHandled = m.softBreachHandled
        /\ monitor'[s].killed = m.killed
    BY <1>2, <2>1, ThrottleCheckType
  <2>3. /\ m.totalBytes <= d.ceiling
        /\ m.totalBytes > d.allowed => m.softBreachHandled
    BY <1>1, <1>2, <1>8, <1>11 DEF ShouldKill
  <2>4. Accounting(s)'
    BY <1>1, <1>2, <1>5, <1>6, <1>8, <2>1, <2>2, <2>3 DEF Accounting
  <2>5. Grading(s)'
    BY <1>1, <1>2, <1>5, <1>6, <1>8, <2>1, <2>2, <2>3 DEF Grading, Pardoned
  <2> QED BY <1>7, <2>4, <2>5, OneStream
<1> QED BY <1>3, <1>9, <1>10, <1>11

\* The grade of a held chunk arrives: it may be written, or the stream is
\* killed.
LEMMA EvaluateReturnInv ==
  ASSUME TypeOK, StreamInv, NEW s \in Streams, NEW g \in Grades,
         EvaluateReturn(s, g)
  PROVE  StreamInv'
<1> DEFINE m == monitor[s]
<1>1. /\ pc[s] = "evaluate"
      /\ grade' = [grade EXCEPT ![s] = g]
      /\ UNCHANGED <<chunk, delivered, recorded>>
      /\ \/ /\ g \in {"log_only", "throttle"}
            /\ monitor' = [monitor EXCEPT ![s] = AfterThrottleCheck(Graded(m, g))]
            /\ pc' = [pc EXCEPT ![s] = "write"]
         \/ g \notin {"log_only", "throttle"} /\ HardKill(s, m)
  BY DEF EvaluateReturn
<1>2. Accounting(s) /\ Grading(s)
  BY DEF StreamInv
<1>3. \A t \in Streams \ {s} : Untouched(t)
  BY <1>1 DEF TypeOK, Untouched, HardKill, LeaveLoop
<1>4. grade'[s] = g /\ chunk'[s] = chunk[s]
      /\ delivered'[s] = delivered[s] /\ recorded'[s] = recorded[s]
  BY <1>1 DEF TypeOK
<1>5. /\ m \in MonitorState /\ chunk[s].size \in Nat /\ delivered[s] \in Nat
      /\ m.totalBytes \in Nat
      /\ m.decision.allowed \in Int /\ m.decision.ceiling \in Int
  BY StreamNumbers
<1>6. CASE /\ g \in {"log_only", "throttle"}
           /\ monitor' = [monitor EXCEPT ![s] = AfterThrottleCheck(Graded(m, g))]
           /\ pc' = [pc EXCEPT ![s] = "write"]
  <2>1. pc'[s] = "write" /\ monitor'[s] = AfterThrottleCheck(Graded(m, g))
    BY <1>6 DEF TypeOK
  <2>2. /\ monitor'[s].totalBytes = m.totalBytes
        /\ monitor'[s].decision = m.decision
        /\ monitor'[s].softBreachHandled = m.softBreachHandled
        /\ monitor'[s].killed = m.killed
    BY <1>5, <2>1, GradedType, ThrottleCheckType
  <2>3. Accounting(s)'
    BY <1>1, <1>2, <1>4, <2>1, <2>2 DEF Accounting
  <2>4. Grading(s)'
    BY <1>1, <1>2, <1>4, <1>6, <2>1, <2>2 DEF Grading, Pardoned
  <2> QED BY <1>3, <2>3, <2>4, OneStream
<1>7. CASE g \notin {"log_only", "throttle"} /\ HardKill(s, m)
  <2>1. /\ pc'[s] = "finalize"
        /\ monitor'[s] = [m EXCEPT !.killed = TRUE]
    BY <1>7 DEF HardKill, LeaveLoop, TypeOK
  <2>2. /\ monitor'[s].totalBytes = m.totalBytes
        /\ monitor'[s].decision = m.decision
        /\ monitor'[s].softBreachHandled = m.softBreachHandled
    BY <1>5, <2>1 DEF MonitorState
  <2>3. g = "terminate"
    BY <1>7 DEF Grades
  <2>4. Accounting(s)'
    BY <1>1, <1>2, <1>4, <1>5, <2>1, <2>2 DEF Accounting
  <2>5. Grading(s)'
    BY <1>1, <1>2, <1>4, <1>5, <2>1, <2>2, <2>3 DEF Grading, Pardoned
  <2> QED BY <1>3, <2>4, <2>5, OneStream
<1> QED BY <1>1, <1>6, <1>7

\* The chunk goes out, and everything received was delivered again.
LEMMA WriteOkInv ==
  ASSUME TypeOK, StreamInv, NEW s \in Streams, WriteOk(s)
  PROVE  StreamInv'
<1>1. /\ pc[s] = "write"
      /\ pc'[s] \in {"select", "finalize"}
      /\ delivered'[s] = delivered[s] + chunk[s].size
      /\ UNCHANGED <<monitor, chunk, grade, recorded>>
      /\ \A t \in Streams \ {s} : Untouched(t)
  BY DEF WriteOk, LeaveLoop, TypeOK, Untouched
<1>2. Accounting(s) /\ Grading(s)
  BY DEF StreamInv
<1>3. Accounting(s)'
  BY <1>1, <1>2, StreamNumbers DEF Accounting
<1>4. Grading(s)'
  BY <1>1, <1>2, StreamNumbers DEF Accounting, Grading, Pardoned
<1> QED BY <1>1, <1>3, <1>4, OneStream

\* Part of the chunk goes out, and the rest never will.
LEMMA WriteFailInv ==
  ASSUME TypeOK, StreamInv, NEW s \in Streams, NEW n \in 0 .. chunk[s].size,
         WriteFail(s, n)
  PROVE  StreamInv'
<1>1. /\ pc[s] = "write"
      /\ pc'[s] = "finalize"
      /\ delivered'[s] = delivered[s] + n
      /\ UNCHANGED <<monitor, chunk, grade, recorded>>
      /\ \A t \in Streams \ {s} : Untouched(t)
  BY DEF WriteFail, LeaveLoop, TypeOK, Untouched
<1>2. Accounting(s) /\ Grading(s)
  BY DEF StreamInv
<1>3. n \in Nat /\ n <= chunk[s].size
  BY StreamNumbers
<1>4. Accounting(s)'
  BY <1>1, <1>2, <1>3, StreamNumbers DEF Accounting
<1>5. Grading(s)'
  BY <1>1, <1>2, <1>3, StreamNumbers DEF Accounting, Grading, Pardoned
<1> QED BY <1>1, <1>4, <1>5, OneStream

\* The stream is recorded.
LEMMA FinalizeInv ==
  ASSUME TypeOK, StreamInv, NEW s \in Streams, Finalize(s)
  PROVE  StreamInv'
<1>1. /\ pc[s] = "finalize"
      /\ pc'[s] = "done"
      /\ recorded'[s] = IF monitor[s].totalBytes > 0
                        THEN monitor[s].totalBytes ELSE recorded[s]
      /\ UNCHANGED <<monitor, chunk, grade, delivered>>
      /\ \A t \in Streams \ {s} : Untouched(t)
  BY DEF Finalize, TypeOK, Untouched
<1>2. Accounting(s) /\ Grading(s)
  BY DEF StreamInv
<1>3. Accounting(s)'
  BY <1>1, <1>2, StreamNumbers DEF Accounting
<1>4. Grading(s)'
  BY <1>1, <1>2, StreamNumbers DEF Grading, Pardoned
<1> QED BY <1>1, <1>3, <1>4, OneStream

-----------------------------------------------------------------------------
LEMMA StreamInvInit == Init => StreamInv
  BY DEF Init, StreamInv, Accounting, Grading, Pardoned, NewMonitor

LEMMA StreamInvNext == TypeOK /\ StreamInv /\ [Next]_vars => StreamInv'
<1> SUFFICES ASSUME TypeOK, StreamInv, [Next]_vars
             PROVE  StreamInv'
  OBVIOUS
<1>1. ASSUME NEW s \in Streams, NEW h \in Histories, StartEnforced(s, h)
      PROVE  StreamInv'
  <2>1. Evaluate(h, request[s].endpoint, request[s].role, 0) \in Decision
    BY MonitorAssumption, EvaluateType DEF MonitorAssumption
  <2> QED BY <1>1, <2>1, StartInv DEF StartEnforced
<1>2. ASSUME NEW s \in Streams, StartBypassed(s)
      PROVE  StreamInv'
  <2>1. UniformDecision(NoLimit) \in Decision
    BY MonitorAssumption, UniformDecisionType DEF MonitorAssumption
  <2> QED BY <1>2, <2>1, StartInv DEF StartBypassed
<1>3. ASSUME NEW s \in Streams, BackendUnavailable(s)
      PROVE  StreamInv'
  <2>1. /\ pc[s] = "idle" /\ pc'[s] = "refused"
        /\ UNCHANGED <<monitor, chunk, grade, delivered, recorded>>
        /\ \A t \in Streams \ {s} : Untouched(t)
    BY <1>3 DEF BackendUnavailable, TypeOK, Untouched
  <2>2. Accounting(s) /\ Grading(s)
    BY DEF StreamInv
  <2>3. Accounting(s)' /\ Grading(s)'
    BY <2>1, <2>2 DEF Accounting, Grading, Pardoned
  <2> QED BY <2>1, <2>3, OneStream
<1>4. ASSUME NEW s \in Streams, ClientDisconnect(s)
      PROVE  StreamInv'
  BY <1>4 DEF ClientDisconnect, StreamInv, Accounting, Grading, Pardoned
<1>5. ASSUME NEW s \in Streams,
             SelectClientGone(s) \/ RecvEOF(s) \/ RecvError(s)
      PROVE  StreamInv'
  BY <1>5, LeaveInv DEF SelectClientGone, RecvEOF, RecvError, LeaveLoop
<1>6. ASSUME NEW s \in Streams, SelectDefault(s)
      PROVE  StreamInv'
  <2>1. /\ pc[s] = "select" /\ pc'[s] = "recv"
        /\ UNCHANGED <<monitor, chunk, grade, delivered, recorded>>
        /\ \A t \in Streams \ {s} : Untouched(t)
    BY <1>6 DEF SelectDefault, TypeOK, Untouched
  <2>2. Accounting(s) /\ Grading(s)
    BY DEF StreamInv
  <2>3. Accounting(s)' /\ Grading(s)'
    BY <2>1, <2>2 DEF Accounting, Grading, Pardoned
  <2> QED BY <2>1, <2>3, OneStream
<1>7. CASE AllServed \/ UNCHANGED vars
  BY <1>7 DEF AllServed, vars, StreamInv, Accounting, Grading, Pardoned
<1> QED
  BY <1>1, <1>2, <1>3, <1>4, <1>5, <1>6, <1>7, RecvChunkInv,
     EvaluateReturnInv, WriteOkInv, WriteFailInv, FinalizeInv
  DEF Next, Start, Recv, Write

LEMMA StreamInvariant == Spec => [](TypeOK /\ StreamInv)
<1>1. Init => TypeOK /\ StreamInv
  BY TypeInit, StreamInvInit
<1>2. TypeOK /\ StreamInv /\ [Next]_vars => (TypeOK /\ StreamInv)'
  BY TypeNext, StreamInvNext
<1> QED BY <1>1, <1>2, PTL DEF Spec

-----------------------------------------------------------------------------
\* No stream delivers a byte past its ceiling: Monitor.Stream looks at the
\* total before it writes.
THEOREM CeilingTheorem == Spec => []CeilingHolds
<1>1. TypeOK /\ StreamInv => CeilingHolds
  BY StreamNumbers DEF TypeOK, StreamInv, Accounting, CeilingHolds, Running
<1> QED BY <1>1, StreamInvariant, PTL

\* Bytes past the limit go out only after a log_only or throttle grade.
THEOREM OverLimitTheorem == Spec => []OverLimitOnlyIfGraded
<1>1. TypeOK /\ StreamInv => OverLimitOnlyIfGraded
  BY StreamNumbers
  DEF TypeOK, StreamInv, Accounting, Grading, Pardoned, Running,
      OverLimitOnlyIfGraded
<1> QED BY <1>1, StreamInvariant, PTL

\* hardKill runs only for a stream over its ceiling, or over its limit and
\* graded terminate.
THEOREM KillTheorem == Spec => []KillJustified
<1>1. StreamInv => KillJustified
  BY DEF StreamInv, Grading, KillJustified
<1> QED BY <1>1, StreamInvariant, PTL

\* What finalize records covers what was delivered, on every way out.
THEOREM HistoryTheorem == Spec => []HistoryCoversDelivery
<1>1. StreamInv => HistoryCoversDelivery
  BY DEF StreamInv, Accounting, HistoryCoversDelivery
<1> QED BY <1>1, StreamInvariant, PTL

-----------------------------------------------------------------------------
SameLimits(s) ==
  /\ monitor'[s].decision.allowed = monitor[s].decision.allowed
  /\ monitor'[s].decision.ceiling = monitor[s].decision.ceiling

\* The three things RecvChunk and EvaluateReturn make of a monitor keep its
\* limits.
LEMMA SuccessorLimits ==
  ASSUME NEW m \in MonitorState
  PROVE  /\ [m EXCEPT !.killed = TRUE].decision = m.decision
         /\ Charged(m).decision = m.decision
         /\ AfterThrottleCheck(m).decision = m.decision
         /\ \A g : AfterThrottleCheck(Graded(m, g)).decision = m.decision
<1>1. [m EXCEPT !.killed = TRUE].decision = m.decision
  BY DEF MonitorState
<1>2. Charged(m).decision = m.decision
  BY DEF MonitorState, Charged
<1>3. AfterThrottleCheck(m).decision = m.decision
  BY ThrottleCheckType
<1>4. \A g : AfterThrottleCheck(Graded(m, g)).decision = m.decision
  BY GradedType, ThrottleCheckType
<1> QED BY <1>1, <1>2, <1>3, <1>4

\* A step changes the limits only of a stream that is admitted by it.
LEMMA LimitsStep ==
  ASSUME TypeOK, [Next]_vars, NEW t \in Streams, pc[t] \in Running
  PROVE  SameLimits(t)
<1>1. ASSUME NEW s \in Streams, Start(s)
      PROVE  SameLimits(t)
  BY <1>1 DEF Start, StartEnforced, StartBypassed, BackendUnavailable,
              TypeOK, Running, SameLimits
<1>2. ASSUME NEW s \in Streams, NEW size \in ChunkSizes,
             NEW last \in BOOLEAN, NEW rate \in Rates,
             RecvChunk(s, size, last, rate)
      PROVE  SameLimits(t)
  <2> DEFINE m == Observed(monitor[s], request[s], size, rate)
  <2>1. size \in Nat /\ rate \in Nat
    BY MonitorAssumption DEF MonitorAssumption
  <2>2. /\ m \in MonitorState
        /\ m.decision.allowed = monitor[s].decision.allowed
        /\ m.decision.ceiling = monitor[s].decision.ceiling
    BY <2>1, StreamNumbers, ObservedType
  <2>3. \/ monitor' = [monitor EXCEPT ![s] = [m EXCEPT !.killed = TRUE]]
        \/ monitor' = [monitor EXCEPT ![s] = Charged(m)]
        \/ monitor' = [monitor EXCEPT ![s] = AfterThrottleCheck(m)]
    BY <1>2 DEF RecvChunk, HardKill
  <2> HIDE DEF m
  <2>4. t # s => monitor'[t] = monitor[t]
    BY <2>3 DEF TypeOK
  <2>5. monitor'[s].decision = m.decision
    BY <2>2, <2>3, SuccessorLimits DEF TypeOK
  <2> QED BY <2>2, <2>4, <2>5 DEF SameLimits
<1>3. ASSUME NEW s \in Streams, NEW g \in Grades, EvaluateReturn(s, g)
      PROVE  SameLimits(t)
  <2>1. monitor[s] \in MonitorState
    BY StreamNumbers
  <2>2. \/ monitor' = [monitor EXCEPT ![s] =
                         AfterThrottleCheck(Graded(monitor[s], g))]
        \/ monitor' = [monitor EXCEPT ![s] = [monitor[s] EXCEPT !.killed = TRUE]]
    BY <1>3 DEF EvaluateReturn, HardKill
  <2> DEFINE a == AfterThrottleCheck(Graded(monitor[s], g))
             b == [monitor[s] EXCEPT !.killed = TRUE]
  <2>5. a.decision = monitor[s].decision /\ b.decision = monitor[s].decision
    BY <2>1, SuccessorLimits
  <2>6. \/ monitor' = [monitor EXCEPT ![s] = a]
        \/ monitor' = [monitor EXCEPT ![s] = b]
    BY <2>2
  <2> HIDE DEF a, b
  <2>3. monitor'[s].decision = monitor[s].decision
    BY <2>5, <2>6 DEF TypeOK
  <2>4. t # s => monitor'[t] = monitor[t]
    BY <2>2 DEF TypeOK
  <2> QED BY <2>3, <2>4 DEF SameLimits
<1>4. ASSUME UNCHANGED monitor
      PROVE  SameLimits(t)
  BY <1>4 DEF SameLimits
<1> QED
  BY <1>1, <1>2, <1>3, <1>4
  DEF Next, Recv, Write, ClientDisconnect, SelectClientGone, SelectDefault,
      RecvEOF, RecvError, WriteOk, WriteFail, Finalize, AllServed, vars

\* A running stream keeps the limits it was admitted with: re-evaluating them
\* on every chunk moves only the anomaly flag.
THEOREM LimitsTheorem == Spec => LimitsFixed
<1>1. TypeOK /\ [Next]_vars =>
        [\A s \in Streams :
           pc[s] \in Running =>
             /\ monitor'[s].decision.allowed = monitor[s].decision.allowed
             /\ monitor'[s].decision.ceiling = monitor[s].decision.ceiling]_vars
  BY LimitsStep DEF SameLimits
<1> QED BY <1>1, TypeCorrect, PTL DEF Spec, LimitsFixed

\* Only a chunk over the limit brings a stream to the enforcer, and only where
\* no violation was charged before.
LEMMA EvaluatedOnce ==
  ASSUME TypeOK, StreamInv, [Next]_vars, NEW t \in Streams,
         pc[t] # "evaluate", pc'[t] = "evaluate"
  PROVE  grade[t] = "none"
<1>1. ASSUME NEW s \in Streams, NEW size \in ChunkSizes, NEW last \in BOOLEAN,
             NEW rate \in Rates, RecvChunk(s, size, last, rate)
      PROVE  grade[t] = "none"
  <2> DEFINE m == Observed(monitor[s], request[s], size, rate)
  <2>1. monitor[s] \in MonitorState /\ size \in Nat /\ rate \in Nat
    BY StreamNumbers, MonitorAssumption DEF MonitorAssumption
  <2>2. m.softBreachHandled = monitor[s].softBreachHandled
    BY <2>1, ObservedType
  <2> HIDE DEF m
  <2>3. t = s
    BY <1>1 DEF RecvChunk, HardKill, LeaveLoop, TypeOK
  <2>4. pc[s] = "recv" /\ ~m.softBreachHandled
    BY <1>1, <2>3 DEF RecvChunk, HardKill, LeaveLoop, TypeOK, m
  <2> QED BY <2>2, <2>3, <2>4 DEF StreamInv, Grading
<1>2. CASE \A s \in Streams, size \in ChunkSizes, last \in BOOLEAN, rate \in Rates :
             ~RecvChunk(s, size, last, rate)
  <2> QED
    BY <1>2
    DEF Next, Start, StartEnforced, StartBypassed, BackendUnavailable,
        ClientDisconnect, SelectClientGone, SelectDefault, Recv, RecvEOF,
        RecvError, EvaluateReturn, HardKill, Write, WriteOk, WriteFail,
        Finalize, LeaveLoop, AllServed, vars, TypeOK
<1> QED BY <1>1, <1>2

\* GradedOnce: a stream charges its user at most one violation.
THEOREM GradedOnceTheorem == Spec => GradedOnce
<1>1. TypeOK /\ StreamInv /\ [Next]_vars =>
        [\A s \in Streams :
           (pc[s] # "evaluate" /\ pc'[s] = "evaluate") => grade[s] = "none"]_vars
  BY EvaluatedOnce
<1> QED BY <1>1, StreamInvariant, PTL DEF Spec, GradedOnce

-----------------------------------------------------------------------------
\* What is known of the pace: a stream graded throttle stays throttled, and a
\* held chunk past 70% of the limit is held by a throttled stream or one that
\* was graded log_only.
Pacing(s) ==
  /\ pc[s] \in {"select", "recv", "write"} /\ grade[s] = "throttle"
       => monitor[s].throttled
  /\ /\ pc[s] = "write"
     /\ monitor[s].totalBytes > ThrottlePoint(monitor[s].decision)
     => monitor[s].throttled \/ grade[s] = "log_only"

PacingInv == \A s \in Streams : Pacing(s)

\* After the check a stream is throttled if it was, or if it is between 70% of
\* its limit and the limit.
LEMMA ThrottleChecked ==
  ASSUME NEW m \in MonitorState
  PROVE  AfterThrottleCheck(m).throttled =
           (m.throttled \/ ShouldThrottle(m.totalBytes, m.decision))
  BY DEF AfterThrottleCheck, MonitorState

\* A stream that goes on to write is within its limit or was graded; the check
\* sees to the first, the grade to the second.
LEMMA ForwardPace ==
  ASSUME TypeOK, NEW s \in Streams, NEW m \in MonitorState, Forward(s, m),
         m.totalBytes > m.decision.allowed =>
           grade'[s] \in {"log_only", "throttle"},
         grade'[s] = "throttle" => m.throttled
  PROVE  Pacing(s)'
<1>1. pc'[s] = "write" /\ monitor'[s] = AfterThrottleCheck(m)
  BY DEF TypeOK
<1>2. /\ monitor'[s].totalBytes = m.totalBytes
      /\ monitor'[s].decision = m.decision
      /\ monitor'[s].throttled =
           (m.throttled \/ ShouldThrottle(m.totalBytes, m.decision))
  BY <1>1, ThrottleCheckType, ThrottleChecked
<1>3. m.totalBytes \in Nat /\ m.decision.allowed \in Int
  BY DEF MonitorState, Decision
<1>4. CASE m.totalBytes <= m.decision.allowed
  BY <1>1, <1>2, <1>4 DEF Pacing, ShouldThrottle
<1>5. CASE m.totalBytes > m.decision.allowed
  BY <1>1, <1>2, <1>5 DEF Pacing
<1> QED BY <1>3, <1>4, <1>5

\* What a step leaves alone keeps its pace.
LEMMA UntouchedPace ==
  ASSUME NEW t \in Streams, Pacing(t),
         pc'[t] = pc[t], monitor'[t] = monitor[t], grade'[t] = grade[t]
  PROVE  Pacing(t)'
  BY DEF Pacing

\* A chunk that goes on was not over the limit, or is of a graded stream.
LEMMA RecvChunkPace ==
  ASSUME TypeOK, StreamInv, PacingInv, NEW s \in Streams,
         NEW size \in ChunkSizes, NEW last \in BOOLEAN, NEW rate \in Rates,
         RecvChunk(s, size, last, rate), NEW t \in Streams
  PROVE  Pacing(t)'
<1> DEFINE m == Observed(monitor[s], request[s], size, rate)
<1>1. Pacing(t) /\ Pacing(s) /\ Grading(s)
  BY DEF PacingInv, StreamInv
<1>2. size \in Nat /\ rate \in Nat
  BY MonitorAssumption DEF MonitorAssumption
<1>3. /\ m \in MonitorState
      /\ m.throttled = monitor[s].throttled
      /\ m.softBreachHandled = monitor[s].softBreachHandled
  BY <1>2, StreamNumbers, ObservedType
<1>4. /\ pc[s] = "recv" /\ grade' = grade
      /\ \/ HardKill(s, m)
         \/ /\ monitor' = [monitor EXCEPT ![s] = Charged(m)]
            /\ pc' = [pc EXCEPT ![s] = "evaluate"]
         \/ /\ \/ ShouldKill(m.totalBytes, m.decision) = "none"
               \/ m.softBreachHandled
            /\ Forward(s, m)
  BY DEF RecvChunk
<1> HIDE DEF m
<1>5. CASE t # s
  BY <1>1, <1>4, <1>5, UntouchedPace DEF HardKill, LeaveLoop, TypeOK
<1>6. CASE t = s /\ (HardKill(s, m) \/ pc' = [pc EXCEPT ![s] = "evaluate"])
  BY <1>6 DEF HardKill, LeaveLoop, TypeOK, Pacing
<1>7. CASE /\ t = s
           /\ \/ ShouldKill(m.totalBytes, m.decision) = "none"
              \/ m.softBreachHandled
           /\ Forward(s, m)
  <2>1. m.softBreachHandled => grade'[s] \in {"log_only", "throttle"}
    BY <1>1, <1>3, <1>4 DEF Grading, Pardoned
  <2>2. ShouldKill(m.totalBytes, m.decision) = "none" =>
          ~(m.totalBytes > m.decision.allowed)
    BY DEF ShouldKill
  <2>3. grade'[s] = "throttle" => m.throttled
    BY <1>1, <1>3, <1>4 DEF Pacing
  <2> QED BY <1>3, <1>7, <2>1, <2>2, <2>3, ForwardPace
<1> QED BY <1>4, <1>5, <1>6, <1>7

\* A stream that was graded goes on at the pace of its grade.
LEMMA EvaluateReturnPace ==
  ASSUME TypeOK, PacingInv, NEW s \in Streams, NEW g \in Grades,
         EvaluateReturn(s, g), NEW t \in Streams
  PROVE  Pacing(t)'
<1> DEFINE m == Graded(monitor[s], g)
<1>1. monitor[s] \in MonitorState /\ Pacing(t)
  BY StreamNumbers DEF PacingInv
<1>2. /\ grade' = [grade EXCEPT ![s] = g]
      /\ \/ g \in {"log_only", "throttle"} /\ Forward(s, m)
         \/ HardKill(s, monitor[s])
  BY DEF EvaluateReturn
<1>3. m \in MonitorState
  BY <1>1, GradedType
<1>4. m.throttled = (g = "throttle")
  BY <1>1 DEF Graded, MonitorState
<1> HIDE DEF m
<1>5. CASE t # s
  BY <1>1, <1>2, <1>5, UntouchedPace DEF HardKill, LeaveLoop, TypeOK
<1>6. CASE t = s /\ HardKill(s, monitor[s])
  BY <1>6 DEF HardKill, LeaveLoop, TypeOK, Pacing
<1>7. CASE t = s /\ g \in {"log_only", "throttle"} /\ Forward(s, m)
  <2>1. grade'[s] = g
    BY <1>2 DEF TypeOK
  <2> QED BY <1>3, <1>4, <1>7, <2>1, ForwardPace
<1> QED BY <1>2, <1>5, <1>6, <1>7

LEMMA PacingInit == Init => PacingInv
  BY DEF Init, PacingInv, Pacing

LEMMA PacingNext == TypeOK /\ StreamInv /\ PacingInv /\ [Next]_vars => PacingInv'
<1> SUFFICES ASSUME TypeOK, StreamInv, PacingInv, [Next]_vars, NEW t \in Streams
             PROVE  Pacing(t)'
  BY DEF PacingInv
<1>1. Pacing(t) /\ Grading(t)
  BY DEF PacingInv, StreamInv
<1>2. ASSUME NEW s \in Streams, Start(s)
      PROVE  Pacing(t)'
  BY <1>1, <1>2
  DEF Start, StartEnforced, StartBypassed, BackendUnavailable, TypeOK, Pacing,
      Grading
<1>3. ASSUME NEW s \in Streams,
             \/ SelectClientGone(s) \/ RecvEOF(s) \/ RecvError(s) \/ Finalize(s)
             \/ \E n \in 0 .. chunk[s].size : WriteFail(s, n)
      PROVE  Pacing(t)'
  <2>1. /\ monitor' = monitor /\ grade' = grade
        /\ pc'[t] \in {pc[t], "finalize", "done"}
    BY <1>3 DEF SelectClientGone, RecvEOF, RecvError, Finalize, WriteFail,
                LeaveLoop, TypeOK
  <2> QED BY <1>1, <2>1 DEF Pacing
<1>4. ASSUME NEW s \in Streams, SelectDefault(s) \/ WriteOk(s)
      PROVE  Pacing(t)'
  <2>1. /\ monitor' = monitor /\ grade' = grade
        /\ \/ pc'[t] = pc[t]
           \/ pc[t] = "select" /\ pc'[t] = "recv"
           \/ pc[t] = "write" /\ pc'[t] \in {"select", "finalize"}
    BY <1>4 DEF SelectDefault, WriteOk, LeaveLoop, TypeOK
  <2> QED BY <1>1, <2>1 DEF Pacing
<1>5. ASSUME pc' = pc, monitor' = monitor, grade' = grade
      PROVE  Pacing(t)'
  BY <1>1, <1>5 DEF Pacing
<1> QED
  BY <1>2, <1>3, <1>4, <1>5, RecvChunkPace, EvaluateReturnPace
  DEF Next, Recv, Write, ClientDisconnect, AllServed, vars

\* Past 70% of its limit a stream is written at full speed only after the
\* grade log_only: Monitor.Stream checks the throttle before every write, and
\* evaluateSoftBreach sets it where the check no longer does.
THEOREM ThrottleTheorem == Spec => []ThrottledPastPoint
<1>1. Init => PacingInv
  BY PacingInit
<1>2. TypeOK /\ StreamInv /\ PacingInv /\ [Next]_vars => PacingInv'
  BY PacingNext
<1>3. PacingInv => ThrottledPastPoint
  BY DEF PacingInv, Pacing, ThrottledPastPoint
<1> QED BY <1>1, <1>2, <1>3, StreamInvariant, PTL DEF Spec
-----------------------------------------------------------------------------
LEMMA StepsLeftValues ==
  /\ StepsLeft["idle"] = 6 /\ StepsLeft["recv"] = 5 /\ StepsLeft["evaluate"] = 4
  /\ StepsLeft["write"] = 3 /\ StepsLeft["select"] = 2
  /\ StepsLeft["finalize"] = 1 /\ StepsLeft["refused"] = 0
  /\ StepsLeft["done"] = 0
  BY DEF StepsLeft

\* The handler of a client that has gone stays where it is, or goes on.
GoesOn(s) ==
  \/ StepsLeft[pc'[s]] < StepsLeft[pc[s]]
  \/ /\ pc'[s] = pc[s] /\ monitor'[s] = monitor[s]
     /\ delivered'[s] = delivered[s] /\ recorded'[s] = recorded[s]

LEMMA LeavingStep ==
  ASSUME TypeOK, [Next]_vars, NEW t \in Streams, clientGone[t]
  PROVE  GoesOn(t)
<1> USE StepsLeftValues DEF TypeOK, GoesOn
<1>1. ASSUME NEW s \in Streams, Start(s)
      PROVE  GoesOn(t)
  BY <1>1 DEF Start, StartEnforced, StartBypassed, BackendUnavailable
<1>2. ASSUME NEW s \in Streams,
             ClientDisconnect(s) \/ SelectClientGone(s) \/ SelectDefault(s)
      PROVE  GoesOn(t)
  BY <1>2 DEF ClientDisconnect, SelectClientGone, SelectDefault, LeaveLoop
<1>3. ASSUME NEW s \in Streams, NEW size \in ChunkSizes, NEW last \in BOOLEAN,
             NEW rate \in Rates, RecvChunk(s, size, last, rate)
      PROVE  GoesOn(t)
  <2>1. pc[s] = "recv" /\ UNCHANGED ledger
    BY <1>3 DEF RecvChunk
  <2>2. \E p \in {"finalize", "evaluate", "write"} : pc' = [pc EXCEPT ![s] = p]
    BY <1>3, Zenon DEF RecvChunk, HardKill, LeaveLoop
  <2>3. \E m : monitor' = [monitor EXCEPT ![s] = m]
    BY <1>3, Zenon DEF RecvChunk, HardKill
  <2> QED BY <2>1, <2>2, <2>3
<1>4. ASSUME NEW s \in Streams, RecvEOF(s) \/ RecvError(s)
      PROVE  GoesOn(t)
  BY <1>4 DEF RecvEOF, RecvError, LeaveLoop
<1>5. ASSUME NEW s \in Streams, NEW g \in Grades, EvaluateReturn(s, g)
      PROVE  GoesOn(t)
  <2>1. pc[s] = "evaluate" /\ UNCHANGED ledger
    BY <1>5 DEF EvaluateReturn
  <2>2. \E p \in {"finalize", "write"} : pc' = [pc EXCEPT ![s] = p]
    BY <1>5, Zenon DEF EvaluateReturn, HardKill, LeaveLoop
  <2>3. \E m : monitor' = [monitor EXCEPT ![s] = m]
    BY <1>5, Zenon DEF EvaluateReturn, HardKill
  <2> QED BY <2>1, <2>2, <2>3
<1>6. ASSUME NEW s \in Streams, Write(s)
      PROVE  GoesOn(t)
  <2>1. CASE WriteOk(s)
    BY <2>1 DEF WriteOk, LeaveLoop
  <2>2. ASSUME NEW n \in 0 .. chunk[s].size, WriteFail(s, n)
        PROVE  GoesOn(t)
    BY <2>2 DEF WriteFail, LeaveLoop
  <2> QED BY <1>6, <2>1, <2>2 DEF Write
<1>7. ASSUME NEW s \in Streams, Finalize(s)
      PROVE  GoesOn(t)
  BY <1>7 DEF Finalize
<1>8. CASE AllServed \/ UNCHANGED vars
  BY <1>8 DEF AllServed, vars
<1> HIDE StepsLeftValues DEF TypeOK, GoesOn
<1> QED BY <1>1, <1>2, <1>3, <1>4, <1>5, <1>6, <1>7, <1>8, Zenon
        DEF Next, Recv

\* What is left of DisconnectEndsHandler without fairness: once the client is
\* gone every step of its handler is one of at most five, and of the backend's
\* chunks it takes one at most.
THEOREM LeavingTheorem == Init /\ [][Next]_vars => OneMoreChunk
<1>1. Init => TypeOK
  BY TypeInit
<1>2. TypeOK /\ [Next]_vars => TypeOK'
  BY TypeNext
<1>3. TypeOK /\ [Next]_vars =>
        [\A s \in Streams :
           clientGone[s] =>
             \/ StepsLeft[pc'[s]] < StepsLeft[pc[s]]
             \/ /\ pc'[s] = pc[s] /\ monitor'[s] = monitor[s]
                /\ delivered'[s] = delivered[s] /\ recorded'[s] = recorded[s]]_vars
  BY LeavingStep DEF GoesOn
<1> QED BY <1>1, <1>2, <1>3, PTL DEF OneMoreChunk

-----------------------------------------------------------------------------
\* All of it together, and without fairness: what any system has whose steps,
\* seen from its streams, are steps of Monitor.
StreamsSafe ==
  /\ [](/\ CeilingHolds /\ OverLimitOnlyIfGraded /\ KillJustified
        /\ ThrottledPastPoint /\ HistoryCoversDelivery)
  /\ LimitsFixed
  /\ GradedOnce
  /\ OneMoreChunk

\* What the handler and the loop guarantee of a stream depends on no fairness:
\* limits, grades, throttle and history are right of one that never ends, too.
THEOREM MonitorSafety == Init /\ [][Next]_vars => StreamsSafe
<1> DEFINE Inv == TypeOK /\ StreamInv /\ PacingInv
<1>1. Init => Inv
  BY TypeInit, StreamInvInit, PacingInit
<1>2. Inv /\ [Next]_vars => Inv'
  BY TypeNext, StreamInvNext, PacingNext
<1>3. Inv => /\ CeilingHolds /\ OverLimitOnlyIfGraded /\ KillJustified
             /\ ThrottledPastPoint /\ HistoryCoversDelivery
  <2>1. Inv => CeilingHolds /\ OverLimitOnlyIfGraded
    BY StreamNumbers
    DEF TypeOK, StreamInv, Accounting, Grading, Pardoned, Running,
        CeilingHolds, OverLimitOnlyIfGraded
  <2>2. Inv => KillJustified /\ ThrottledPastPoint
    BY DEF StreamInv, Grading, KillJustified, PacingInv, Pacing,
           ThrottledPastPoint
  <2>3. Inv => HistoryCoversDelivery
    BY StreamNumbers DEF StreamInv, Accounting, HistoryCoversDelivery
  <2> HIDE DEF Inv
  <2> QED BY <2>1, <2>2, <2>3
<1>4. Inv /\ [Next]_vars =>
        [\A s \in Streams :
           pc[s] \in Running =>
             /\ monitor'[s].decision.allowed = monitor[s].decision.allowed
             /\ monitor'[s].decision.ceiling = monitor[s].decision.ceiling]_vars
  BY LimitsStep DEF SameLimits
<1>5. Inv /\ [Next]_vars =>
        [\A s \in Streams :
           (pc[s] # "evaluate" /\ pc'[s] = "evaluate") => grade[s] = "none"]_vars
  BY EvaluatedOnce
<1> HIDE DEF Inv
<1> QED BY <1>1, <1>2, <1>3, <1>4, <1>5, LeavingTheorem, PTL
        DEF StreamsSafe, LimitsFixed, GradedOnce
=============================================================================
