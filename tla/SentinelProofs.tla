---------------------------- MODULE SentinelProofs ----------------------------
(***************************************************************************)
(* Theorems about the streams of one user and the Redis they share, for    *)
(* any number of streams, any outages, retries and clients that leave.     *)
(***************************************************************************)
EXTENDS Sentinel, RefinementProofs, SequenceTheorems, FiniteSetTheorems,
        FunctionTheorems

USE DEF incoming, ledger, Cancel, Forward, Permits, Recorded

Local == [seen : 0 .. MaxTime, stamp : 0 .. MaxTime, count : Nat,
          tries : 0 .. MaxRetries]

LEMMA NoLocalsType ==
  /\ G!NoLocals \in Local
  /\ \A n \in 0 .. MaxTime : [G!NoLocals EXCEPT !.stamp = n] \in Local
  BY SentinelAssumption DEF SentinelAssumption, G!NoLocals, Local

LEMMA LocalUpdates ==
  ASSUME NEW l \in Local
  PROVE  /\ \A n \in 0 .. MaxTime : [l EXCEPT !.seen = n] \in Local
         /\ \A n \in Nat : [l EXCEPT !.count = n] \in Local
         /\ l.tries < MaxRetries => [l EXCEPT !.tries = @ + 1] \in Local
<1>1. /\ \A n \in 0 .. MaxTime : [l EXCEPT !.seen = n] \in Local
      /\ \A n \in Nat : [l EXCEPT !.count = n] \in Local
  BY DEF Local
<1>2. ASSUME l.tries < MaxRetries
      PROVE  [l EXCEPT !.tries = @ + 1] \in Local
  <2>1. l.tries + 1 \in 0 .. MaxRetries
    BY <1>2, SentinelAssumption DEF Local, SentinelAssumption
  <2> QED BY <2>1 DEF Local
<1> QED BY <1>1, <1>2

-----------------------------------------------------------------------------
\* The steps of an evaluation after its first.
Evaluation(s) ==
  \/ G!GetFirst(s) \/ G!KeepWindow(s) \/ G!ResetWindow(s)
  \/ G!DelCount(s) \/ G!DelFirst(s) \/ G!ResetReply(s) \/ G!LoseReset(s)
  \/ G!CheckReturns(s)
  \/ G!BeginIncrement(s)
  \/ G!Incr(s) \/ G!ExpireCount(s) \/ G!SetFirst(s) \/ G!ExpireFirst(s)
  \/ G!Reply(s)
  \/ G!FailCall(s) \/ G!HandleError(s) \/ G!Resend(s)

\* The steps of the world around the streams.
Weather ==
  \/ G!Tick \/ G!KeysExpire
  \/ /\ G!RedisDown \/ G!RedisRecovers
     /\ UNCHANGED <<enforcer, grade>>

LEMMA Steps ==
  ASSUME SentinelNext
  PROVE  \/ \E s \in Streams :
              \/ AskHistory(s) \/ HistoryArrives(s) \/ Loop(s)
              \/ AskRecord(s) \/ Finish(s)
              \/ AskGrade(s) \/ GradeArrives(s)
              \/ Answer(s)
              \/ Evaluation(s) /\ UNCHANGED handler
         \/ Weather /\ UNCHANGED handler
         \/ UNCHANGED svars
<1>1. CASE \E s \in Streams : Handler(s) \/ Answer(s)
  BY <1>1, Zenon DEF Handler
<1>2. ASSUME NEW s \in Streams, GradeCall(s)
      PROVE  Evaluation(s) /\ UNCHANGED handler
  <2>1. UNCHANGED handler
    BY <1>2 DEF GradeCall
  <2>2. G!InEvaluate(s) \/ G!Resend(s)
    BY <1>2, Zenon DEF GradeCall
  <2> QED BY <2>1, <2>2, Zenon
          DEF G!InEvaluate, G!ResetLost, G!CallFails, Evaluation
<1>3. CASE World
  <2>1. Weather
    BY <1>3 DEF World, G!Environment, Weather, enforcer, G!keys
  <2> QED BY <1>3, <2>1 DEF World
<1>4. CASE Served
  BY <1>4 DEF Served, AllServed, vars, svars, handler
<1> QED BY <1>1, <1>2, <1>3, <1>4, Zenon DEF SentinelNext

-----------------------------------------------------------------------------
\* What is known of a stream's evaluation: it runs while the handler waits for
\* a grade, only a stream that was charged has one, and a count that was read
\* is of one strike at least.
Counted(s) ==
  /\ phase[s] = "charge"
  /\ call[s] = "answered" \/ (call[s] = "inner" /\ cmd[s] # "incr")

Evaluating(s) ==
  /\ phase[s] # "idle" => pc[s] = "evaluate"
  /\ grade[s] # "none" => monitor[s].softBreachHandled
  /\ Counted(s) => local[s].count >= 1

SharedInv ==
  /\ SentinelTypeOK
  /\ StreamInv
  /\ \A s \in Streams : Evaluating(s)

LEMMA SharedInit == SentinelInit => SharedInv
<1> SUFFICES ASSUME SentinelInit PROVE SharedInv
  OBVIOUS
<1>1. TypeOK /\ StreamInv
  BY TypeInit, StreamInvInit DEF SentinelInit
<1>2. G!GraceTypeOK
  <2>1. G!FailOpenTypeOK
    BY SentinelAssumption
    DEF SentinelAssumption, SentinelInit, G!GraceInit, G!FailOpenInit,
        G!FailOpenTypeOK, G!CallStates
  <2>2. <<>> \in Seq(1 .. MaxTime)
    OBVIOUS
  <2> QED BY <2>1, <2>2, NoLocalsType, SentinelAssumption
    DEF SentinelAssumption, SentinelInit, G!GraceInit, G!GraceTypeOK,
        G!NoTTL, Local
<1>3. ASSUME NEW s \in Streams PROVE Evaluating(s)
  BY DEF SentinelInit, Init, G!GraceInit, Evaluating, Counted
<1>4. unanswered \subseteq Streams
  BY DEF SentinelInit
<1> QED BY <1>1, <1>2, <1>3, <1>4 DEF SharedInv, SentinelTypeOK

-----------------------------------------------------------------------------
\* Every step keeps the keys, the clock and the calls well typed.
LEMMA EvaluationType ==
  ASSUME G!GraceTypeOK, NEW s \in Streams, Evaluation(s)
  PROVE  G!GraceTypeOK'
<1>0. local \in [Streams -> Local] /\ local[s] \in Local /\ now \in 0 .. MaxTime
  BY DEF G!GraceTypeOK, Local
<1> USE SentinelAssumption
    DEF SentinelAssumption, G!GraceTypeOK, G!FailOpenTypeOK, G!CallStates,
        G!Goes, G!Runs, G!At, G!Then, G!fvars, G!keys, G!NoTTL
<1>1. CASE \/ G!ResetWindow(s) \/ G!KeepWindow(s) \/ G!LoseReset(s)
           \/ G!ResetReply(s)
           \/ G!CheckReturns(s) \/ G!Reply(s) \/ G!FailCall(s)
  BY <1>1
  DEF G!ResetWindow, G!KeepWindow, G!LoseReset, G!CheckReturns, G!Reply,
      G!ResetReply, G!FailCall, G!InnerOk, G!InnerFail, G!AfterError, G!Return
<1>2. CASE G!HandleError(s)
  BY <1>2 DEF G!HandleError, G!PingOk, G!PingFail, G!MarkUnavailable,
              G!AfterFailedPing
<1>3. CASE G!GetFirst(s)
  BY <1>3 DEF G!GetFirst
<1>4. CASE G!DelCount(s)
  BY <1>4 DEF G!DelCount
<1>5. CASE G!DelFirst(s)
  BY <1>5 DEF G!DelFirst
<1>6. CASE G!BeginIncrement(s)
  <2>1. local' = [local EXCEPT ![s] = [G!NoLocals EXCEPT !.stamp = now]]
    BY <1>6 DEF G!BeginIncrement
  <2>2. local' \in [Streams -> Local]
    BY <1>0, <2>1, NoLocalsType
  <2> QED BY <1>6, <2>2 DEF G!BeginIncrement, G!Enter, Local
<1>7. CASE G!Incr(s)
  <2>1. strikes' = Append(strikes, now)
    BY <1>7 DEF G!Incr
  <2>2. strikes' \in Seq(1 .. MaxTime) /\ Len(strikes') \in Nat
    BY <2>1, AppendProperties, LenProperties
  <2>3. local' = [local EXCEPT ![s] = [local[s] EXCEPT !.count = Len(strikes')]]
    BY <1>7 DEF G!Incr
  <2>4. local' \in [Streams -> Local]
    BY <1>0, <2>2, <2>3, LocalUpdates
  <2>5. countUntil' \in 0 .. G!NoTTL
    <3>1. countUntil' \in {countUntil, G!NoTTL}
      BY <1>7 DEF G!Incr
    <3>2. countUntil \in 0 .. G!NoTTL /\ G!NoTTL \in 0 .. G!NoTTL
      OBVIOUS
    <3> HIDE DEF G!NoTTL
    <3> QED BY <3>1, <3>2
  <2> QED BY <1>7, <2>2, <2>4, <2>5 DEF G!Incr, Local
<1>8. CASE G!ExpireCount(s)
  BY <1>8 DEF G!ExpireCount, G!Renewed
<1>9. CASE G!SetFirst(s)
  BY <1>9 DEF G!SetFirst, G!Opened
<1>10. CASE G!ExpireFirst(s)
  BY <1>10 DEF G!ExpireFirst, G!Renewed
<1>11. CASE G!Resend(s)
  <2>1. /\ local' = [local EXCEPT ![s] = [local[s] EXCEPT !.tries = @ + 1]]
        /\ local[s].tries < MaxRetries
    BY <1>11 DEF G!Resend, G!MayResend
  <2>2. local' \in [Streams -> Local]
    BY <1>0, <2>1, LocalUpdates
  <2> QED BY <1>11, <2>2 DEF G!Resend, G!Resetting, Local
<1> QED BY <1>1, <1>2, <1>3, <1>4, <1>5, <1>6, <1>7, <1>8, <1>9, <1>10, <1>11
        DEF Evaluation

LEMMA WeatherType ==
  ASSUME G!GraceTypeOK, Weather
  PROVE  G!GraceTypeOK'
<1> USE SentinelAssumption
    DEF SentinelAssumption, G!GraceTypeOK, G!FailOpenTypeOK, G!CallStates,
        G!fvars, G!keys, G!NoTTL
<1>1. CASE G!Tick
  BY <1>1 DEF G!Tick
<1>2. CASE G!KeysExpire
  <2>1. PICK gone : G!Expire(gone)
    BY <1>2 DEF G!KeysExpire
  <2>2. <<>> \in Seq(1 .. MaxTime)
    OBVIOUS
  <2>3. strikes' \in Seq(1 .. MaxTime) /\ first' \in 0 .. MaxTime
    <3>1. strikes' \in {<<>>, strikes} /\ first' \in {0, first}
      BY <2>1 DEF G!Expire
    <3>2. 0 \in 0 .. MaxTime
      OBVIOUS
    <3> QED BY <2>2, <3>1, <3>2, Zenon
  <2> QED BY <2>1, <2>3, Zenon DEF G!Expire
<1>3. CASE (G!RedisDown \/ G!RedisRecovers) /\ UNCHANGED <<enforcer, grade>>
  <2>1. CASE G!RedisDown
    <3>1. outages' \in 0 .. MaxOutages
      BY <2>1, SMT DEF G!RedisDown
    <3> QED BY <1>3, <2>1, <3>1, Zenon DEF G!RedisDown, enforcer
  <2>2. CASE G!RedisRecovers
    BY <1>3, <2>2, Zenon DEF G!RedisRecovers, enforcer
  <2> QED BY <1>3, <2>1, <2>2
<1> QED BY <1>1, <1>2, <1>3 DEF Weather

\* The calls the handler makes and gets answered.
LEMMA HandlerType ==
  ASSUME TypeOK, G!GraceTypeOK, NEW s \in Streams,
         \/ AskHistory(s) \/ AskRecord(s) \/ Answer(s) \/ AskGrade(s)
         \/ HistoryArrives(s) \/ Finish(s) \/ GradeArrives(s)
         \/ Loop(s),
         TypeOK'
  PROVE  G!GraceTypeOK'
<1> USE DEF G!GraceTypeOK, G!FailOpenTypeOK, G!CallStates, G!Goes, G!Then,
            G!keys, client, enforcer
<1>0. grade' \in [Streams -> G!GraceGrades \cup {"none"}]
  BY DEF TypeOK, Grades, G!GraceGrades
<1>1. CASE AskHistory(s) \/ AskRecord(s) \/ Answer(s)
  BY <1>0, <1>1
  DEF AskHistory, AskRecord, Ask, Answer, G!Enter, G!InnerOk, G!InnerFail,
      G!AfterError
<1>2. CASE AskGrade(s)
  <2>1. local' = [local EXCEPT ![s] = G!NoLocals]
    BY <1>2 DEF AskGrade, G!BeginEvaluate
  <2>2. local' \in [Streams -> Local]
    BY <2>1, NoLocalsType DEF Local
  <2> QED BY <1>0, <1>2, <2>2 DEF AskGrade, G!BeginEvaluate, G!Enter, Local
<1>3. CASE HistoryArrives(s) \/ Finish(s)
  BY <1>0, <1>3 DEF HistoryArrives, Finish, G!Return
<1>4. CASE GradeArrives(s)
  <2>1. local' = [local EXCEPT ![s] = G!NoLocals]
    BY <1>4 DEF GradeArrives, G!EndEvaluate
  <2>2. local' \in [Streams -> Local]
    BY <2>1, NoLocalsType DEF Local
  <2> QED BY <1>0, <1>4, <2>2 DEF GradeArrives, G!EndEvaluate, G!Return, Local
<1>5. CASE Loop(s)
  BY <1>0, <1>5 DEF Loop
<1> QED BY <1>1, <1>2, <1>3, <1>4, <1>5

-----------------------------------------------------------------------------
\* gradeFromCount of a count of one or more is a grade.
LEMMA GradeOfCount ==
  ASSUME NEW n \in Nat, n >= 1
  PROVE  /\ G!GradeFromCount(n) \in Grades
         /\ G!GradeFromCount(n) = "terminate" => n > ThrottleCount
         /\ G!GradeFromCount(n) = "log_only" <=> n <= LogOnlyCount
  BY SentinelAssumption DEF SentinelAssumption, G!GradeFromCount, Grades

\* What EndEvaluate grades a stream by.
Judged(s) == IF call[s] = "answered" THEN local[s].count ELSE 1

LEMMA GradeArrivesGrade ==
  ASSUME SharedInv, NEW s \in Streams, GradeArrives(s)
  PROVE  /\ pc[s] = "evaluate" /\ phase[s] = "charge"
         /\ call[s] \in {"answered", "defaulted"}
         /\ Judged(s) \in Nat /\ Judged(s) >= 1
         /\ grade' = [grade EXCEPT ![s] = G!GradeFromCount(Judged(s))]
         /\ grade'[s] = G!GradeFromCount(Judged(s))
         /\ grade'[s] \in Grades
         /\ EvaluateReturn(s, grade'[s])
<1>1. /\ phase[s] = "charge" /\ call[s] \in {"answered", "defaulted"}
      /\ grade' = [grade EXCEPT ![s] = G!GradeFromCount(Judged(s))]
      /\ EvaluateReturn(s, grade'[s])
  BY DEF GradeArrives, G!EndEvaluate, Judged
<1>2. local[s].count \in Nat
  BY DEF SharedInv, SentinelTypeOK, G!GraceTypeOK
<1>3. Evaluating(s) /\ TypeOK
  BY DEF SharedInv, SentinelTypeOK
<1>4. Judged(s) \in Nat /\ Judged(s) >= 1
  BY <1>1, <1>2, <1>3 DEF Judged, Evaluating, Counted
<1>5. grade'[s] = G!GradeFromCount(Judged(s))
  BY <1>1, <1>3 DEF TypeOK
<1> QED BY <1>1, <1>3, <1>4, <1>5, GradeOfCount DEF Evaluating

\* To the monitor every step is one of its own, or none.
LEMMA MonitorStep ==
  ASSUME SharedInv, [SentinelNext]_svars
  PROVE  [Next]_vars
<1>1. ASSUME NEW s \in Streams, HistoryArrives(s)
      PROVE  Next
  <2>1. (\E h \in Histories : StartEnforced(s, h)) \/ BackendUnavailable(s)
    BY <1>1, SentinelAssumption DEF HistoryArrives, SentinelAssumption
  <2> QED BY <2>1, Zenon DEF Next, Start
<1>2. ASSUME NEW s \in Streams, Loop(s)
      PROVE  Next
  BY <1>2, Zenon DEF Loop, Next
<1>3. ASSUME NEW s \in Streams, GradeArrives(s)
      PROVE  Next
  BY <1>3, GradeArrivesGrade, Zenon DEF Next
<1>4. ASSUME NEW s \in Streams, Finish(s)
      PROVE  Next
  BY <1>4, Zenon DEF Finish, Next
<1>5. ASSUME NEW s \in Streams, AskHistory(s) \/ AskRecord(s) \/ Answer(s)
      PROVE  UNCHANGED vars
  BY <1>5 DEF AskHistory, AskRecord, Answer, Ask, handler, vars
<1>6. ASSUME NEW s \in Streams, AskGrade(s)
      PROVE  UNCHANGED vars
  BY <1>6 DEF AskGrade, G!BeginEvaluate, handler, vars
<1>7. ASSUME NEW s \in Streams, Evaluation(s), UNCHANGED handler
      PROVE  UNCHANGED vars
  BY <1>7
  DEF Evaluation, handler, vars, G!GetFirst, G!KeepWindow, G!ResetWindow,
      G!DelCount, G!DelFirst, G!ResetReply, G!LoseReset, G!CheckReturns,
      G!BeginIncrement,
      G!Incr, G!ExpireCount, G!SetFirst, G!ExpireFirst, G!Reply, G!FailCall,
      G!HandleError, G!Resend
<1>8. ASSUME Weather, UNCHANGED handler
      PROVE  UNCHANGED vars
  BY <1>8 DEF Weather, handler, vars, G!Tick, G!KeysExpire, G!Expire
<1>9. CASE UNCHANGED svars
  BY <1>9 DEF svars, handler, vars
<1> QED BY <1>1, <1>2, <1>3, <1>4, <1>5, <1>6, <1>7, <1>8, <1>9, Steps, Zenon

-----------------------------------------------------------------------------
\* A step leaves alone what is known of the evaluation of t.
Aside(t) ==
  /\ pc'[t] = pc[t] /\ grade'[t] = grade[t]
  /\ phase'[t] = phase[t] /\ call'[t] = call[t] /\ cmd'[t] = cmd[t]
  /\ local'[t] = local[t]

\* A charged stream stays charged.
LEMMA ChargedStays ==
  ASSUME TypeOK, StreamInv, [Next]_vars, NEW t \in Streams,
         monitor[t].softBreachHandled
  PROVE  monitor'[t].softBreachHandled
<1>1. ASSUME NEW s \in Streams, Start(s)
      PROVE  monitor'[t].softBreachHandled
  <2>1. CASE t = s
    <3>1. pc[s] = "idle"
      BY <1>1 DEF Start, StartEnforced, StartBypassed, BackendUnavailable
    <3> QED BY <2>1, <3>1 DEF StreamInv, Grading
  <2>2. CASE t # s
    BY <1>1, <2>2
    DEF Start, StartEnforced, StartBypassed, BackendUnavailable, TypeOK
  <2> QED BY <2>1, <2>2
<1>2. ASSUME NEW s \in Streams, NEW size \in ChunkSizes,
             NEW last \in BOOLEAN, NEW rate \in Rates,
             RecvChunk(s, size, last, rate)
      PROVE  monitor'[t].softBreachHandled
  <2> DEFINE m == Observed(monitor[s], request[s], size, rate)
  <2>1. size \in Nat /\ rate \in Nat
    BY MonitorAssumption DEF MonitorAssumption
  <2>2. /\ m \in MonitorState
        /\ m.softBreachHandled = monitor[s].softBreachHandled
    BY <2>1, StreamNumbers, ObservedType
  <2>3. \/ monitor' = [monitor EXCEPT ![s] = [m EXCEPT !.killed = TRUE]]
        \/ monitor' = [monitor EXCEPT ![s] = Charged(m)]
        \/ monitor' = [monitor EXCEPT ![s] = AfterThrottleCheck(m)]
    BY <1>2 DEF RecvChunk, HardKill
  <2> HIDE DEF m
  <2>4. /\ [m EXCEPT !.killed = TRUE].softBreachHandled = m.softBreachHandled
        /\ Charged(m).softBreachHandled
        /\ AfterThrottleCheck(m).softBreachHandled = m.softBreachHandled
    BY <2>2, ThrottleCheckType DEF MonitorState, Charged
  <2>5. t # s => monitor'[t] = monitor[t]
    BY <2>3 DEF TypeOK
  <2>6. monitor'[s] \in {[m EXCEPT !.killed = TRUE], Charged(m),
                         AfterThrottleCheck(m)}
    BY <2>3 DEF TypeOK
  <2> QED BY <2>2, <2>4, <2>5, <2>6
<1>3. ASSUME NEW s \in Streams, NEW g \in Grades, EvaluateReturn(s, g)
      PROVE  monitor'[t].softBreachHandled
  <2> DEFINE a == AfterThrottleCheck(Graded(monitor[s], g))
             b == [monitor[s] EXCEPT !.killed = TRUE]
  <2>1. monitor[s] \in MonitorState
    BY StreamNumbers
  <2>2. /\ a.softBreachHandled = monitor[s].softBreachHandled
        /\ b.softBreachHandled = monitor[s].softBreachHandled
    BY <2>1, GradedType, ThrottleCheckType DEF MonitorState
  <2>3. \/ monitor' = [monitor EXCEPT ![s] = a]
        \/ monitor' = [monitor EXCEPT ![s] = b]
    BY <1>3 DEF EvaluateReturn, HardKill
  <2> HIDE DEF a, b
  <2>4. monitor'[t] = monitor[t] \/ (t = s /\ monitor'[t] \in {a, b})
    BY <2>3 DEF TypeOK
  <2> QED BY <2>2, <2>4
<1>4. ASSUME UNCHANGED monitor
      PROVE  monitor'[t].softBreachHandled
  BY <1>4
<1> QED
  BY <1>1, <1>2, <1>3, <1>4
  DEF Next, Recv, Write, ClientDisconnect, SelectClientGone, SelectDefault,
      RecvEOF, RecvError, WriteOk, WriteFail, Finalize, AllServed, vars

LEMMA AsideEvaluating ==
  ASSUME SharedInv, [Next]_vars, NEW t \in Streams, Aside(t)
  PROVE  Evaluating(t)'
<1>1. Evaluating(t)
  BY DEF SharedInv
<1>2. monitor[t].softBreachHandled => monitor'[t].softBreachHandled
  BY ChargedStays DEF SharedInv, SentinelTypeOK
<1> QED BY <1>1, <1>2 DEF Evaluating, Counted, Aside

\* A step of s is aside of every other stream.
LEMMA OthersAside ==
  ASSUME SharedInv, NEW s \in Streams, NEW t \in Streams \ {s},
         \/ AskHistory(s) \/ HistoryArrives(s) \/ Loop(s)
         \/ AskRecord(s) \/ Finish(s)
         \/ AskGrade(s) \/ GradeArrives(s)
         \/ Answer(s)
         \/ Evaluation(s) /\ UNCHANGED handler
  PROVE  Aside(t)
<1>0. /\ DOMAIN pc = Streams /\ DOMAIN grade = Streams
      /\ DOMAIN phase = Streams /\ DOMAIN call = Streams
      /\ DOMAIN cmd = Streams /\ DOMAIN local = Streams
  BY DEF SharedInv, SentinelTypeOK, TypeOK, G!GraceTypeOK, G!FailOpenTypeOK
<1> USE <1>0 DEF Aside, handler, client, enforcer, G!fvars, G!keys, G!Goes,
                 G!Then
<1>1. CASE AskHistory(s) \/ AskRecord(s) \/ Answer(s)
  BY <1>1 DEF AskHistory, AskRecord, Ask, Answer, G!Enter, G!InnerOk, G!InnerFail
<1>2. CASE AskGrade(s)
  BY <1>2 DEF AskGrade, G!BeginEvaluate, G!Enter
<1>3. CASE HistoryArrives(s)
  BY <1>3 DEF HistoryArrives, G!Return, StartEnforced, BackendUnavailable
<1>4. CASE Finish(s)
  BY <1>4 DEF Finish, G!Return, Finalize
<1>5. CASE GradeArrives(s)
  BY <1>5 DEF GradeArrives, G!EndEvaluate, G!Return, EvaluateReturn, HardKill,
              LeaveLoop
<1>6. CASE Loop(s)
  BY <1>6 DEF Loop, SelectClientGone, SelectDefault, Recv, RecvChunk, RecvEOF,
              RecvError, Write, WriteOk, WriteFail, ClientDisconnect, LeaveLoop,
              HardKill
<1>7. CASE Evaluation(s) /\ UNCHANGED handler
  <2>1. CASE G!GetFirst(s) \/ G!KeepWindow(s) \/ G!ResetWindow(s)
             \/ G!DelCount(s) \/ G!DelFirst(s) \/ G!ResetReply(s)
             \/ G!LoseReset(s)
    BY <1>7, <2>1
    DEF G!GetFirst, G!KeepWindow, G!ResetWindow, G!DelCount, G!DelFirst,
        G!ResetReply, G!LoseReset, G!InnerOk
  <2>2. CASE G!CheckReturns(s) \/ G!BeginIncrement(s)
    BY <1>7, <2>2 DEF G!CheckReturns, G!BeginIncrement, G!Return, G!Enter
  <2>3. CASE \/ G!Incr(s) \/ G!ExpireCount(s) \/ G!SetFirst(s)
             \/ G!ExpireFirst(s) \/ G!Reply(s)
    BY <1>7, <2>3
    DEF G!Incr, G!ExpireCount, G!SetFirst, G!ExpireFirst, G!Reply, G!InnerOk
  <2>4. CASE G!FailCall(s) \/ G!Resend(s)
    BY <1>7, <2>4 DEF G!FailCall, G!Resend, G!InnerFail
  <2>5. CASE G!HandleError(s)
    BY <1>7, <2>5 DEF G!HandleError, G!PingOk, G!PingFail, G!MarkUnavailable
  <2> QED BY <1>7, <2>1, <2>2, <2>3, <2>4, <2>5 DEF Evaluation
<1> QED BY <1>1, <1>2, <1>3, <1>4, <1>5, <1>6, <1>7

\* The world is aside of every stream.
LEMMA WeatherAside ==
  ASSUME Weather, UNCHANGED handler, NEW t \in Streams
  PROVE  Aside(t)
  BY DEF Weather, G!Tick, G!KeysExpire, G!Expire, G!RedisDown, G!RedisRecovers,
         Aside, handler, enforcer, G!fvars

\* In an evaluation only INCR's reply is a count.
LEMMA EvaluationEvaluating ==
  ASSUME SharedInv, NEW s \in Streams, Evaluation(s), UNCHANGED handler
  PROVE  Evaluating(s)'
<1> USE DEF G!Goes, G!Then, G!At, G!Runs, handler, G!fvars, G!keys
<1>1. /\ SentinelTypeOK /\ Evaluating(s)
      /\ phase[s] # "idle" => pc[s] = "evaluate"
      /\ grade[s] # "none" => monitor[s].softBreachHandled
  BY DEF SharedInv, Evaluating
<1>2. UNCHANGED grade
  BY DEF Evaluation, G!GetFirst, G!KeepWindow, G!ResetWindow,
     G!DelCount, G!DelFirst, G!ResetReply, G!LoseReset, G!CheckReturns,
     G!BeginIncrement,
     G!Incr, G!ExpireCount, G!SetFirst, G!ExpireFirst, G!Reply, G!FailCall,
     G!HandleError, G!Resend
<1>3. SUFFICES ASSUME phase'[s] # "idle"
               PROVE  /\ phase[s] # "idle"
                      /\ Counted(s)' => local'[s].count >= 1
  BY <1>1, <1>2 DEF Evaluating, Counted
<1> USE DEF SentinelTypeOK, G!GraceTypeOK, G!FailOpenTypeOK
<1>4. CASE G!GetFirst(s) \/ G!ResetWindow(s) \/ G!DelCount(s)
  BY <1>1, <1>4 DEF G!GetFirst, G!ResetWindow, G!DelCount, Counted
<1>5. CASE \/ G!KeepWindow(s) \/ G!DelFirst(s) \/ G!ResetReply(s)
           \/ G!LoseReset(s)
  BY <1>1, <1>5
  DEF G!KeepWindow, G!DelFirst, G!ResetReply, G!LoseReset, G!Resetting,
      G!InnerOk, Counted
<1>6. CASE G!CheckReturns(s) \/ G!FailCall(s) \/ G!HandleError(s)
  BY <1>1, <1>3, <1>6
  DEF G!CheckReturns, G!FailCall, G!HandleError, G!Return, G!InnerFail,
      G!AfterError, G!PingOk, G!PingFail, G!MarkUnavailable, G!AfterFailedPing,
      Counted
<1>7. CASE G!BeginIncrement(s) \/ G!Resend(s)
  BY <1>1, <1>7
  DEF G!BeginIncrement, G!Resend, G!Resetting, G!Enter, Counted
<1>8. CASE G!Incr(s)
  <2>1. strikes' = Append(strikes, now) /\ phase[s] = "charge"
        /\ local'[s].count = Len(strikes')
    BY <1>1, <1>8 DEF G!Incr
  <2>2. Len(strikes') = Len(strikes) + 1 /\ Len(strikes) \in Nat
    BY <1>1, <2>1, AppendProperties, LenProperties
  <2> QED BY <2>1, <2>2
<1>9. CASE G!ExpireCount(s) \/ G!SetFirst(s) \/ G!ExpireFirst(s) \/ G!Reply(s)
  BY <1>1, <1>9
  DEF G!ExpireCount, G!SetFirst, G!ExpireFirst, G!Reply, G!InnerOk, Counted,
      Evaluating
<1> QED BY <1>4, <1>5, <1>6, <1>7, <1>8, <1>9 DEF Evaluation

LEMMA HandlerEvaluating ==
  ASSUME SharedInv, [Next]_vars, NEW s \in Streams,
         \/ AskHistory(s) \/ HistoryArrives(s) \/ Loop(s)
         \/ AskRecord(s) \/ Finish(s)
         \/ AskGrade(s) \/ GradeArrives(s)
         \/ Answer(s)
  PROVE  Evaluating(s)'
<1>1. /\ TypeOK /\ G!GraceTypeOK /\ Evaluating(s) /\ Grading(s)
      /\ phase[s] # "idle" => pc[s] = "evaluate"
      /\ grade[s] # "none" => monitor[s].softBreachHandled
      /\ monitor[s].softBreachHandled => monitor'[s].softBreachHandled
  BY ChargedStays DEF SharedInv, SentinelTypeOK, Evaluating, StreamInv
<1> USE DEF handler, client, enforcer
<1>2. CASE AskHistory(s) \/ AskRecord(s) \/ Answer(s)
  <2>1. phase[s] = "idle" /\ UNCHANGED <<handler, grade, phase>>
    BY <1>1, <1>2 DEF AskHistory, AskRecord, Ask, Answer
  <2> QED BY <1>1, <2>1 DEF Evaluating, Counted
<1>3. CASE HistoryArrives(s) \/ Finish(s)
  <2>1. phase[s] = "idle" /\ UNCHANGED <<grade, phase>>
    BY <1>1, <1>3
    DEF HistoryArrives, Finish, StartEnforced, BackendUnavailable, Finalize
  <2> QED BY <1>1, <2>1 DEF Evaluating, Counted
<1>4. CASE AskGrade(s)
  <2>1. /\ pc'[s] = "evaluate" /\ UNCHANGED grade
        /\ phase' = [phase EXCEPT ![s] = "check"]
    BY <1>4 DEF AskGrade, G!BeginEvaluate
  <2> QED BY <1>1, <2>1 DEF Evaluating, Counted, G!GraceTypeOK
<1>5. CASE GradeArrives(s)
  <2>1. pc[s] = "evaluate" /\ phase' = [phase EXCEPT ![s] = "idle"]
    BY <1>5, GradeArrivesGrade DEF GradeArrives, G!EndEvaluate
  <2>2. monitor'[s].softBreachHandled
    BY <1>1, <2>1 DEF Grading
  <2> QED BY <1>1, <2>1, <2>2 DEF Evaluating, Counted, G!GraceTypeOK
<1>6. CASE Loop(s)
  <2>1. /\ UNCHANGED <<grade, phase, call, cmd, local>>
        /\ pc[s] = "evaluate" => pc'[s] = "evaluate"
    BY <1>6
    DEF Loop, SelectClientGone, SelectDefault, Recv, RecvChunk, RecvEOF,
        RecvError, Write, WriteOk, WriteFail, ClientDisconnect
  <2> QED BY <1>1, <2>1 DEF Evaluating, Counted
<1> QED BY <1>2, <1>3, <1>4, <1>5, <1>6

\* Only the end of its own evaluation decides whether t was answered.
LEMMA UnansweredStays ==
  ASSUME [SentinelNext]_svars
  PROVE  /\ \A t : ~(t \in Streams /\ GradeArrives(t))
                     => (t \in unanswered' <=> t \in unanswered)
         /\ unanswered' \ unanswered \subseteq Streams
<1>1. ASSUME NEW s \in Streams, GradeArrives(s)
      PROVE  unanswered' = unanswered \cup {t \in {s} : call[t] = "defaulted"}
  BY <1>1 DEF GradeArrives
<1>2. ASSUME NEW s \in Streams,
             \/ AskHistory(s) \/ HistoryArrives(s) \/ Loop(s)
             \/ AskRecord(s) \/ Finish(s) \/ AskGrade(s)
             \/ Answer(s) \/ GradeCall(s)
      PROVE  UNCHANGED unanswered
  BY <1>2
  DEF AskHistory, HistoryArrives, Loop, AskRecord, Finish, AskGrade, Answer,
      Ask, GradeCall
<1>3. CASE World \/ Served \/ UNCHANGED svars
  <2>1. UNCHANGED unanswered
    BY <1>3 DEF World, Served, svars
  <2> QED BY <2>1
<1>4. CASE \E s \in Streams : Handler(s) \/ Answer(s) \/ GradeCall(s)
  <2>1. PICK s \in Streams : Handler(s) \/ Answer(s) \/ GradeCall(s)
    BY <1>4
  <2>2. UNCHANGED unanswered \/ GradeArrives(s)
    BY <1>2, <2>1 DEF Handler
  <2> QED BY <1>1, <2>2
<1> QED BY <1>3, <1>4 DEF SentinelNext

LEMMA SharedNext == SharedInv /\ [SentinelNext]_svars => SharedInv'
<1> SUFFICES ASSUME SharedInv, [SentinelNext]_svars
             PROVE  SharedInv'
  OBVIOUS
<1>1. [Next]_vars /\ TypeOK /\ G!GraceTypeOK /\ StreamInv
  BY MonitorStep DEF SharedInv, SentinelTypeOK
<1>2. TypeOK' /\ StreamInv'
  BY <1>1, TypeNext, StreamInvNext
<1>3. G!GraceTypeOK'
  <2>1. CASE UNCHANGED svars
    BY <1>1, <2>1
    DEF svars, client, enforcer, G!GraceTypeOK, G!FailOpenTypeOK, G!NoTTL
  <2> QED
    BY <1>1, <1>2, <2>1, Steps, EvaluationType, WeatherType, HandlerType, Zenon
<1>4. ASSUME NEW t \in Streams PROVE Evaluating(t)'
  <2>1. ASSUME NEW s \in Streams,
               \/ AskHistory(s) \/ HistoryArrives(s) \/ Loop(s)
               \/ AskRecord(s) \/ Finish(s)
               \/ AskGrade(s) \/ GradeArrives(s)
               \/ Answer(s)
               \/ Evaluation(s) /\ UNCHANGED handler
        PROVE  Evaluating(t)'
    <3>1. CASE t = s
      BY <1>1, <2>1, <3>1, HandlerEvaluating, EvaluationEvaluating
    <3>2. CASE t # s
      <4>1. Aside(t)
        BY <2>1, <3>2, OthersAside
      <4> QED BY <1>1, <4>1, AsideEvaluating
    <3> QED BY <3>1, <3>2
  <2>2. ASSUME Weather, UNCHANGED handler PROVE Evaluating(t)'
    BY <1>1, <2>2, WeatherAside, AsideEvaluating
  <2>3. CASE UNCHANGED svars
    BY <1>1, <2>3, AsideEvaluating
    DEF svars, handler, client, enforcer, Aside
  <2> QED BY <2>1, <2>2, <2>3, Steps, Zenon
<1>5. (unanswered \subseteq Streams)'
  BY UnansweredStays DEF SharedInv, SentinelTypeOK
<1> QED BY <1>2, <1>3, <1>4, <1>5 DEF SharedInv, SentinelTypeOK

LEMMA SharedInvariant == SentinelSpec => []SharedInv
  BY SharedInit, SharedNext, PTL DEF SentinelSpec

\* The handlers, the fail-open client, the keys and the clock stay well typed,
\* whatever Redis, the clients and the backend do.
THEOREM SentinelTypeTheorem == SentinelSpec => []SentinelTypeOK
<1>1. SharedInv => SentinelTypeOK
  BY DEF SharedInv
<1> QED BY <1>1, SharedInvariant, PTL

-----------------------------------------------------------------------------
\* The tries of a pipeline whose INCR Redis may have run: all but those an
\* evaluation still has to send.
Tries == 0 .. MaxRetries

Sent(t, k) ==
  \/ grade[t] # "none"
  \/ /\ phase[t] = "charge"
     /\ \/ call[t] \in {"ping", "store", "answered", "defaulted"}
        \/ /\ call[t] = "inner"
           /\ \/ k < local[t].tries
              \/ k = local[t].tries /\ cmd[t] # "incr"

AllSent == {x \in Streams \X Tries : Sent(x[1], x[2])}

\* Every strike was sent in a try of a stream, and no two in one.
Traced == \E f \in [1 .. Len(strikes) -> AllSent] :
            \A i, j \in 1 .. Len(strikes) : f[i] = f[j] => i = j

\* What the counter can reach.
Reach == (MaxRetries + 1) * Cardinality(ChargedStreams)

LEMMA ProductGrows ==
  ASSUME NEW a \in Nat, NEW b \in Nat, NEW c \in Nat, b <= c
  PROVE  a * b <= a * c
<1>1. PICK d \in Nat : c = b + d
  <2>1. c - b \in Nat /\ c = b + (c - b)
    OBVIOUS
  <2> QED BY <2>1
<1>2. a * c = a * b + a * d /\ a * d \in Nat /\ a * b \in Nat
  BY <1>1
<1> QED BY <1>2

LEMMA ChargedFinite ==
  /\ IsFiniteSet(ChargedStreams)
  /\ Cardinality(ChargedStreams) \in Nat
  /\ Reach \in Nat
<1>1. IsFiniteSet(ChargedStreams)
  BY SentinelAssumption, FS_Subset DEF SentinelAssumption, ChargedStreams
<1>2. Cardinality(ChargedStreams) \in Nat
  BY <1>1, FS_CardinalityType
<1> QED BY <1>1, <1>2, SentinelAssumption DEF SentinelAssumption, Reach

LEMMA ReachGrows ==
  ASSUME SharedInv, [Next]_vars
  PROVE  Reach <= Reach'
<1>1. ChargedStreams \subseteq ChargedStreams'
  BY ChargedStays DEF SharedInv, SentinelTypeOK, ChargedStreams
<1>2. IsFiniteSet(ChargedStreams')
  BY SentinelAssumption, FS_Subset DEF SentinelAssumption, ChargedStreams
<1>3. Cardinality(ChargedStreams) <= Cardinality(ChargedStreams')
  BY <1>1, <1>2, FS_Subset
<1>4. Cardinality(ChargedStreams') \in Nat /\ MaxRetries + 1 \in Nat
  BY <1>2, FS_CardinalityType, SentinelAssumption DEF SentinelAssumption
<1> QED BY <1>3, <1>4, ChargedFinite, ProductGrows DEF Reach

\* Only a charged stream sends.
LEMMA SentCharged ==
  ASSUME SharedInv, NEW t \in Streams, NEW k, Sent(t, k)
  PROVE  t \in ChargedStreams
<1>1. Evaluating(t) /\ Grading(t)
  BY DEF SharedInv, StreamInv
<1> QED BY <1>1 DEF Sent, Evaluating, Grading, ChargedStreams

\* So the counter does not run ahead of the charged streams' tries.
LEMMA CounterReach ==
  ASSUME SharedInv, Traced
  PROVE  Len(strikes) <= Reach
<1> DEFINE n == Len(strikes)
           C == ChargedStreams
<1>1. n \in Nat
  BY LenProperties DEF SharedInv, SentinelTypeOK, G!GraceTypeOK
<1>2. PICK f \in [1 .. n -> AllSent] : \A i, j \in 1 .. n : f[i] = f[j] => i = j
  BY DEF Traced
<1>3. AllSent \subseteq C \X Tries
  BY SentCharged DEF AllSent
<1> HIDE DEF n, C
<1>4. f \in Injection(1 .. n, C \X Tries)
  <2>1. f \in [1 .. n -> C \X Tries]
    BY <1>2, <1>3
  <2> QED BY <1>2, <2>1, Fun_IsInj
<1>5. IsFiniteSet(Tries) /\ Cardinality(Tries) = MaxRetries + 1
  BY FS_Interval, SentinelAssumption DEF SentinelAssumption, Tries
<1>6. /\ IsFiniteSet(C \X Tries)
      /\ Cardinality(C \X Tries) = Cardinality(C) * (MaxRetries + 1)
  BY <1>5, ChargedFinite, FS_Product DEF C
<1>7. Cardinality(1 .. n) = n
  BY <1>1, FS_Interval
<1>8. Cardinality(1 .. n) <= Cardinality(C \X Tries)
  BY <1>4, <1>6, FS_Injection
<1>9. Cardinality(C) * (MaxRetries + 1) = Reach
  BY ChargedFinite, SentinelAssumption DEF SentinelAssumption, Reach, C
<1> QED BY <1>6, <1>7, <1>8, <1>9 DEF n

\* What was sent stays sent.
LEMMA SentStays ==
  ASSUME SharedInv, [SentinelNext]_svars, NEW t \in Streams, NEW k \in Tries,
         Sent(t, k)
  PROVE  Sent(t, k)'
<1>1. SentinelTypeOK /\ Evaluating(t)
  BY DEF SharedInv
<1>2. ASSUME Aside(t) PROVE Sent(t, k)'
  BY <1>2 DEF Aside, Sent
<1>3. CASE GradeArrives(t)
  BY <1>3, GradeArrivesGrade DEF Sent, Grades
<1>4. CASE \/ AskHistory(t) \/ HistoryArrives(t) \/ Loop(t)
           \/ AskRecord(t) \/ Finish(t) \/ AskGrade(t) \/ Answer(t)
  <2>1. CASE grade[t] # "none"
    <3>1. UNCHANGED grade
      BY <1>4
      DEF AskHistory, HistoryArrives, Loop, AskRecord, Finish, AskGrade, Answer,
          Ask, G!BeginEvaluate, StartEnforced, BackendUnavailable, Finalize,
          SelectClientGone, SelectDefault, Recv, RecvChunk, RecvEOF, RecvError,
          Write, WriteOk, WriteFail, ClientDisconnect
    <3> QED BY <2>1, <3>1 DEF Sent
  <2>2. CASE phase[t] = "charge"
    <3>1. pc[t] = "evaluate" /\ phase[t] # "idle"
      BY <1>1, <2>2 DEF Evaluating
    <3>2. Loop(t)
      BY <1>4, <2>2, <3>1
      DEF AskHistory, HistoryArrives, StartEnforced, BackendUnavailable,
          AskRecord, Finish, Finalize, AskGrade, G!BeginEvaluate, Answer
    <3>3. UNCHANGED <<grade, phase, call, cmd, local>>
      BY <3>2
      DEF Loop, client, enforcer, SelectClientGone, SelectDefault, Recv,
          RecvChunk, RecvEOF, RecvError, Write, WriteOk, WriteFail,
          ClientDisconnect
    <3> QED BY <3>3 DEF Sent
  <2> QED BY <2>1, <2>2 DEF Sent
<1>5. CASE Evaluation(t) /\ UNCHANGED handler
  <2> USE DEF G!Goes, G!Then, G!At, G!Runs, G!fvars, G!keys, SentinelTypeOK,
              G!GraceTypeOK, G!FailOpenTypeOK, G!CallStates
  <2>1. CASE \/ G!GetFirst(t) \/ G!ResetWindow(t) \/ G!DelCount(t)
             \/ G!KeepWindow(t) \/ G!DelFirst(t) \/ G!ResetReply(t)
             \/ G!LoseReset(t) \/ G!CheckReturns(t)
    BY <2>1
    DEF G!GetFirst, G!ResetWindow, G!DelCount, G!KeepWindow, G!DelFirst,
        G!ResetReply, G!LoseReset, G!Resetting, G!CheckReturns, Sent
  <2>2. CASE G!BeginIncrement(t)
    BY <2>2 DEF G!BeginIncrement, G!Enter, Sent
  <2>3. CASE G!Incr(t) \/ G!ExpireCount(t) \/ G!SetFirst(t) \/ G!ExpireFirst(t)
    <3>1. /\ UNCHANGED <<grade, phase, call>> /\ cmd'[t] # "incr"
          /\ local'[t].tries = local[t].tries
      BY <1>1, <2>3 DEF G!Incr, G!ExpireCount, G!SetFirst, G!ExpireFirst
    <3> QED BY <3>1 DEF Sent
  <2>4. CASE G!Reply(t) \/ G!FailCall(t) \/ G!HandleError(t)
    BY <1>1, <2>4
    DEF G!Reply, G!FailCall, G!HandleError, G!InnerOk, G!InnerFail,
        G!AfterError, G!PingOk, G!PingFail, G!MarkUnavailable,
        G!AfterFailedPing, Sent
  <2>5. CASE G!Resend(t)
    <3>1. /\ UNCHANGED <<grade, phase, call>>
          /\ local'[t].tries = local[t].tries + 1
      BY <1>1, <2>5 DEF G!Resend
    <3>2. k \in Nat /\ local[t].tries \in Nat
      BY <1>1, SentinelAssumption DEF Tries, SentinelAssumption
    <3> QED BY <3>1, <3>2 DEF Sent
  <2> QED BY <1>5, <2>1, <2>2, <2>3, <2>4, <2>5 DEF Evaluation
<1>6. CASE UNCHANGED svars
  BY <1>2, <1>6 DEF svars, handler, client, enforcer, Aside
<1>7. CASE Weather /\ UNCHANGED handler
  BY <1>2, <1>7, WeatherAside
<1> QED BY <1>2, <1>3, <1>4, <1>5, <1>6, <1>7, Steps, OthersAside, Zenon

\* The counter moves by INCR, by DEL and by expiry.
LEMMA StrikesStep ==
  ASSUME [SentinelNext]_svars
  PROVE  \/ UNCHANGED strikes
         \/ strikes' = <<>>
         \/ \E s \in Streams : G!Incr(s) /\ UNCHANGED handler
<1> USE DEF enforcer, G!keys
<1>1. ASSUME NEW s \in Streams,
             \/ AskHistory(s) \/ HistoryArrives(s) \/ Loop(s)
             \/ AskRecord(s) \/ Finish(s) \/ Answer(s)
      PROVE  UNCHANGED strikes
  BY <1>1
  DEF AskHistory, HistoryArrives, Loop, AskRecord, Finish, Answer, Ask
<1>2. ASSUME NEW s \in Streams, AskGrade(s) \/ GradeArrives(s)
      PROVE  UNCHANGED strikes
  BY <1>2 DEF AskGrade, GradeArrives, G!BeginEvaluate, G!EndEvaluate
<1>3. ASSUME NEW s \in Streams, Evaluation(s)
      PROVE  UNCHANGED strikes \/ strikes' = <<>> \/ G!Incr(s)
  BY <1>3
  DEF Evaluation, G!GetFirst, G!KeepWindow, G!ResetWindow, G!DelCount,
      G!DelFirst, G!ResetReply, G!LoseReset, G!CheckReturns, G!BeginIncrement,
      G!ExpireCount, G!SetFirst, G!ExpireFirst, G!Reply, G!FailCall,
      G!HandleError, G!Resend
<1>4. ASSUME Weather
      PROVE  UNCHANGED strikes \/ strikes' = <<>>
  BY <1>4 DEF Weather, G!Tick, G!KeysExpire, G!Expire
<1>5. CASE UNCHANGED svars
  BY <1>5 DEF svars
<1> QED BY <1>1, <1>2, <1>3, <1>4, <1>5, Steps, Zenon

LEMMA AllSentStays ==
  ASSUME SharedInv, [SentinelNext]_svars
  PROVE  AllSent \subseteq AllSent'
  BY SentStays DEF AllSent

\* INCR is a try of its own.
LEMMA IncrSends ==
  ASSUME SharedInv, NEW s \in Streams, G!Incr(s)
  PROVE  <<s, local[s].tries>> \in AllSent' \ AllSent
<1> DEFINE k == local[s].tries
<1>1. /\ phase[s] = "charge" /\ cmd[s] = "incr" /\ call[s] = "inner"
      /\ UNCHANGED <<grade, phase, call>>
      /\ cmd' = [cmd EXCEPT ![s] = "expireCount"]
      /\ local' = [local EXCEPT ![s].count = Len(strikes')]
  BY DEF G!Incr, G!Runs, G!At, G!Then, G!fvars
<1>2. /\ TypeOK /\ G!GraceTypeOK /\ Evaluating(s) /\ Grading(s)
  BY DEF SharedInv, SentinelTypeOK, StreamInv
<1>3. grade[s] = "none"
  BY <1>1, <1>2 DEF Evaluating, Grading
<1>4. k \in Tries /\ local'[s].tries = k /\ cmd'[s] # "incr"
  BY <1>1, <1>2 DEF G!GraceTypeOK, Tries
<1>5. ~Sent(s, k)
  BY <1>1, <1>3, <1>4, SentinelAssumption DEF Sent, SentinelAssumption, Tries
<1>6. Sent(s, k)'
  BY <1>1, <1>4 DEF Sent
<1> QED BY <1>4, <1>5, <1>6 DEF AllSent

LEMMA TracedInit == SentinelInit => Traced
<1> SUFFICES ASSUME SentinelInit PROVE Traced
  OBVIOUS
<1>1. strikes = <<>>
  BY DEF SentinelInit, G!GraceInit
<1>2. 1 .. Len(strikes) = {}
  BY <1>1
<1>3. [i \in {} |-> 0] \in [{} -> AllSent]
  OBVIOUS
<1> QED BY <1>2, <1>3, Zenon DEF Traced

LEMMA TracedNext ==
  ASSUME SharedInv, Traced, [SentinelNext]_svars
  PROVE  Traced'
<1>1. AllSent \subseteq AllSent'
  BY AllSentStays
<1>2. PICK f \in [1 .. Len(strikes) -> AllSent] :
         \A i, j \in 1 .. Len(strikes) : f[i] = f[j] => i = j
  BY DEF Traced
<1>3. CASE UNCHANGED strikes
  BY <1>1, <1>2, <1>3 DEF Traced
<1>4. CASE strikes' = <<>>
  <2>1. 1 .. Len(strikes') = {}
    BY <1>4
  <2>2. [i \in {} |-> 0] \in [{} -> AllSent']
    OBVIOUS
  <2> QED BY <2>1, <2>2, Zenon DEF Traced
<1>5. ASSUME NEW s \in Streams, G!Incr(s) PROVE Traced'
  <2> DEFINE n == Len(strikes)
             x == <<s, local[s].tries>>
             g == [i \in 1 .. n + 1 |-> IF i = n + 1 THEN x ELSE f[i]]
  <2>1. x \in AllSent' /\ x \notin AllSent
    BY <1>5, IncrSends
  <2>2. strikes \in Seq(1 .. MaxTime) /\ strikes' = Append(strikes, now)
        /\ now \in 1 .. MaxTime
    BY <1>5 DEF SharedInv, SentinelTypeOK, G!GraceTypeOK, G!Incr
  <2>3. n \in Nat /\ Len(strikes') = n + 1
    BY <2>2, AppendProperties, LenProperties
  <2> HIDE DEF n, x
  <2>4. f \in [1 .. n -> AllSent] /\ \A i, j \in 1 .. n : f[i] = f[j] => i = j
    BY <1>2 DEF n
  <2>5. g \in [1 .. n + 1 -> AllSent']
    BY <1>1, <2>1, <2>3, <2>4
  <2>6. ASSUME NEW i \in 1 .. n + 1, NEW j \in 1 .. n + 1, g[i] = g[j]
        PROVE  i = j
    BY <2>1, <2>3, <2>4, <2>6
  <2> HIDE DEF g
  <2> QED BY <2>3, <2>5, <2>6 DEF Traced
<1> QED BY <1>3, <1>4, <1>5, StrikesStep, Zenon

\* A stream's count is the one INCR gave it.
LEMMA CountedStep ==
  ASSUME SharedInv, [SentinelNext]_svars, NEW t \in Streams, Counted(t)'
  PROVE  \/ Counted(t) /\ local'[t].count = local[t].count
         \/ G!Incr(t) /\ local'[t].count = Len(strikes')
<1>1. SentinelTypeOK /\ Evaluating(t)
  BY DEF SharedInv
<1>2. ASSUME Aside(t)
      PROVE  Counted(t) /\ local'[t].count = local[t].count
  BY <1>2 DEF Aside, Counted
<1>3. CASE \/ AskHistory(t) \/ HistoryArrives(t) \/ Loop(t)
           \/ AskRecord(t) \/ Finish(t) \/ Answer(t)
  <2>1. UNCHANGED <<phase, cmd, local>>
    BY <1>3
    DEF AskHistory, HistoryArrives, Loop, AskRecord, Finish, Answer, Ask,
        enforcer
  <2>2. phase[t] = "charge"
    BY <2>1 DEF Counted
  <2>3. pc[t] = "evaluate" /\ phase[t] # "idle"
    BY <1>1, <2>2 DEF Evaluating
  <2>4. UNCHANGED call
    BY <1>3, <2>2, <2>3
    DEF AskHistory, HistoryArrives, Loop, AskRecord, Finish, Answer,
        StartEnforced, BackendUnavailable, Finalize, client
  <2> QED BY <2>1, <2>4 DEF Counted
<1>4. CASE AskGrade(t) \/ GradeArrives(t)
  <2>1. phase'[t] \in {"check", "idle"}
    BY <1>1, <1>4
    DEF AskGrade, GradeArrives, G!BeginEvaluate, G!EndEvaluate, SentinelTypeOK,
        G!GraceTypeOK
  <2> QED BY <2>1 DEF Counted
<1>5. CASE Evaluation(t) /\ UNCHANGED handler
  <2> USE DEF G!Goes, G!Then, G!At, G!Runs, G!fvars, G!keys, SentinelTypeOK,
              G!GraceTypeOK, G!FailOpenTypeOK, G!CallStates
  <2>1. CASE \/ G!GetFirst(t) \/ G!ResetWindow(t) \/ G!DelCount(t)
             \/ G!KeepWindow(t) \/ G!DelFirst(t) \/ G!ResetReply(t)
             \/ G!LoseReset(t)
    BY <2>1
    DEF G!GetFirst, G!ResetWindow, G!DelCount, G!KeepWindow, G!DelFirst,
        G!ResetReply, G!LoseReset, G!Resetting, Counted
  <2>2. CASE G!CheckReturns(t) \/ G!BeginIncrement(t)
    BY <1>1, <2>2
    DEF G!CheckReturns, G!BeginIncrement, G!Return, G!Enter, Counted
  <2>3. CASE G!Incr(t)
    BY <1>1, <2>3 DEF G!Incr
  <2>4. CASE G!ExpireCount(t) \/ G!SetFirst(t) \/ G!ExpireFirst(t)
    BY <1>1, <2>4 DEF G!ExpireCount, G!SetFirst, G!ExpireFirst, Counted
  <2>5. CASE G!Reply(t)
    BY <1>1, <2>5 DEF G!Reply, G!InnerOk, Counted
  <2>6. CASE G!FailCall(t) \/ G!HandleError(t) \/ G!Resend(t)
    BY <1>1, <2>6
    DEF G!FailCall, G!HandleError, G!InnerFail, G!AfterError, G!PingOk,
        G!PingFail, G!MarkUnavailable, G!AfterFailedPing, G!Resend,
        G!Resetting, Counted
  <2> QED BY <1>5, <2>1, <2>2, <2>3, <2>4, <2>5, <2>6 DEF Evaluation
<1>6. CASE UNCHANGED svars
  BY <1>2, <1>6 DEF svars, handler, client, enforcer, Aside
<1>7. CASE Weather /\ UNCHANGED handler
  BY <1>2, <1>7, WeatherAside
<1> QED BY <1>2, <1>3, <1>4, <1>5, <1>6, <1>7, Steps, OthersAside, Zenon

\* A grade is given by GradeArrives only.
LEMMA GradeStep ==
  ASSUME SharedInv, [SentinelNext]_svars, NEW t \in Streams
  PROVE  grade'[t] = grade[t] \/ GradeArrives(t)
<1>1. ASSUME Aside(t) PROVE grade'[t] = grade[t]
  BY <1>1 DEF Aside
<1>2. CASE \/ AskHistory(t) \/ HistoryArrives(t) \/ Loop(t)
           \/ AskRecord(t) \/ Finish(t) \/ AskGrade(t) \/ Answer(t)
  BY <1>2
  DEF AskHistory, HistoryArrives, Loop, AskRecord, Finish, AskGrade, Answer,
      Ask, G!BeginEvaluate, StartEnforced, BackendUnavailable, Finalize,
      SelectClientGone, SelectDefault, Recv, RecvChunk, RecvEOF, RecvError,
      Write, WriteOk, WriteFail, ClientDisconnect
<1>3. CASE Evaluation(t)
  BY <1>3
  DEF Evaluation, G!GetFirst, G!KeepWindow, G!ResetWindow, G!DelCount,
      G!DelFirst, G!ResetReply, G!LoseReset, G!CheckReturns,
      G!BeginIncrement, G!Incr,
      G!ExpireCount, G!SetFirst, G!ExpireFirst, G!Reply, G!FailCall,
      G!HandleError, G!Resend
<1>4. CASE UNCHANGED svars
  BY <1>4 DEF svars
<1>5. CASE Weather /\ UNCHANGED handler
  BY <1>1, <1>5, WeatherAside
<1> QED BY <1>1, <1>2, <1>3, <1>4, <1>5, Steps, OthersAside, Zenon

\* No count, and no grade, is more than the violations of the streams.
CountsBounded == \A t \in Streams : Counted(t) => local[t].count <= Reach

WithinReach == Len(strikes) <= Reach

LEMMA CounterWithinReach == SharedInv /\ Traced => WithinReach
  BY CounterReach DEF WithinReach

TerminatedInv ==
  /\ SharedInv
  /\ Traced
  /\ CountsBounded
  /\ \A s \in Streams : grade[s] = "terminate" => Reach > ThrottleCount

LEMMA TerminatedInit == SentinelInit => TerminatedInv
<1> SUFFICES ASSUME SentinelInit PROVE TerminatedInv
  OBVIOUS
<1>1. /\ phase = [c \in Streams |-> "idle"]
      /\ grade = [c \in Streams |-> "none"]
  BY DEF SentinelInit, G!GraceInit
<1> QED BY <1>1, SharedInit, TracedInit
        DEF TerminatedInv, CountsBounded, Counted

LEMMA TerminatedNext ==
  TerminatedInv /\ [SentinelNext]_svars => TerminatedInv'
<1> SUFFICES ASSUME TerminatedInv, [SentinelNext]_svars
             PROVE  TerminatedInv'
  OBVIOUS
<1>1. SharedInv /\ Traced
  BY DEF TerminatedInv
<1>2. SharedInv' /\ Traced'
  BY <1>1, SharedNext, TracedNext
<1>3. Reach \in Nat /\ Reach' \in Nat /\ Reach <= Reach'
  <2>1. Reach <= Reach'
    BY <1>1, MonitorStep, ReachGrows
  <2>2. Reach \in Nat
    BY ChargedFinite
  <2>3. IsFiniteSet(ChargedStreams')
    BY SentinelAssumption, FS_Subset DEF SentinelAssumption, ChargedStreams
  <2>4. Cardinality(ChargedStreams') \in Nat
    BY <2>3, FS_CardinalityType
  <2>5. Reach' \in Nat
    BY <2>4, SentinelAssumption DEF SentinelAssumption, Reach
  <2> QED BY <2>1, <2>2, <2>5
<1>4. Len(strikes') <= Reach'
  <2>1. (SharedInv /\ Traced => WithinReach)'
    BY CounterWithinReach, PTL
  <2> QED BY <1>2, <2>1 DEF WithinReach
<1>5. ASSUME NEW t \in Streams, Counted(t)'
      PROVE  local'[t].count <= Reach'
  <2>1. CASE Counted(t) /\ local'[t].count = local[t].count
    <3>1. local[t].count \in Nat /\ local[t].count <= Reach
      BY <1>1, <2>1
      DEF TerminatedInv, CountsBounded, SharedInv, SentinelTypeOK, G!GraceTypeOK
    <3> QED BY <1>3, <2>1, <3>1
  <2>2. CASE G!Incr(t) /\ local'[t].count = Len(strikes')
    BY <1>4, <2>2
  <2> QED BY <1>1, <1>5, <2>1, <2>2, CountedStep
<1>6. ASSUME NEW t \in Streams, grade'[t] = "terminate"
      PROVE  Reach' > ThrottleCount
  <2>1. CASE grade'[t] = grade[t]
    <3>1. Reach > ThrottleCount
      BY <1>6, <2>1 DEF TerminatedInv
    <3> QED BY <1>3, <3>1, SentinelAssumption DEF SentinelAssumption
  <2>2. CASE GradeArrives(t)
    <3>1. /\ phase[t] = "charge" /\ call[t] \in {"answered", "defaulted"}
          /\ Judged(t) \in Nat /\ Judged(t) >= 1
          /\ grade'[t] = G!GradeFromCount(Judged(t))
      BY <1>1, <2>2, GradeArrivesGrade
    <3>2. Judged(t) > ThrottleCount
      BY <1>6, <3>1, GradeOfCount
    <3>3. Judged(t) <= Reach
      <4>1. CASE call[t] = "answered"
        BY <3>1, <4>1 DEF Judged, TerminatedInv, CountsBounded, Counted
      <4>2. CASE call[t] # "answered"
        <5>1. Judged(t) = 1
          BY <4>2 DEF Judged
        <5>2. t \in ChargedStreams
          <6>1. Sent(t, 0)
            BY <3>1 DEF Sent
          <6> QED BY <1>1, <6>1, SentCharged
        <5>3. Cardinality(ChargedStreams) >= 1
          <6>1. Cardinality(ChargedStreams) # 0
            BY <5>2, ChargedFinite, FS_EmptySet
          <6> QED BY <6>1, ChargedFinite
        <5>4. Reach >= 1
          <6>1. /\ MaxRetries + 1 \in Nat /\ MaxRetries + 1 >= 1
                /\ Cardinality(ChargedStreams) \in Nat
            BY ChargedFinite, SentinelAssumption DEF SentinelAssumption
          <6>2. (MaxRetries + 1) * 1
                  <= (MaxRetries + 1) * Cardinality(ChargedStreams)
            BY <5>3, <6>1, ProductGrows
          <6> QED BY <6>1, <6>2 DEF Reach
        <5> QED BY <5>1, <5>4
      <4> QED BY <4>1, <4>2
    <3> QED BY <1>3, <3>1, <3>2, <3>3, SentinelAssumption
            DEF SentinelAssumption
  <2> QED BY <1>1, <2>1, <2>2, GradeStep
<1> QED BY <1>2, <1>5, <1>6 DEF TerminatedInv, CountsBounded

\* A stream within its ceiling is terminated only when the streams of the user
\* were charged more than throttle_count times, the pipelines the Redis library
\* sent again included: no outage, no lost reply and no client that leaves makes
\* a stream pay for more (Enforcer.Evaluate over IncrementViolation).
THEOREM TerminatedTheorem == SentinelSpec => []TerminatedOnlyForViolations
<1>1. TerminatedInv => TerminatedOnlyForViolations
  BY DEF TerminatedInv, TerminatedOnlyForViolations, Reach
<1> QED BY <1>1, TerminatedInit, TerminatedNext, PTL DEF SentinelSpec

-----------------------------------------------------------------------------
\* While the first window lasts the counter only grows: nothing resets it, and it
\* does not expire, whatever fails.
Calm == now <= W

Steady(s) == phase[s] = "check" => cmd[s] \in {"get", "decide", "none"}

Lasting ==
  /\ strikes # <<>> => countUntil > W
  /\ \A s \in Streams : Steady(s)

LEMMA CalmBefore ==
  ASSUME SharedInv, [SentinelNext]_svars, Calm'
  PROVE  Calm
<1>1. now \in Nat /\ W \in Nat
  BY SentinelAssumption
  DEF SharedInv, SentinelTypeOK, G!GraceTypeOK, SentinelAssumption
<1>2. now' = now \/ now' = now + 1
  <2> USE DEF client, enforcer
  <2>1. ASSUME NEW s \in Streams,
               \/ AskHistory(s) \/ HistoryArrives(s) \/ Loop(s)
               \/ AskRecord(s) \/ Finish(s) \/ Answer(s)
        PROVE  UNCHANGED now
    BY <2>1
    DEF AskHistory, HistoryArrives, Loop, AskRecord, Finish, Answer, Ask
  <2>2. ASSUME NEW s \in Streams, AskGrade(s) \/ GradeArrives(s)
        PROVE  UNCHANGED now
    BY <2>2 DEF AskGrade, GradeArrives, G!BeginEvaluate, G!EndEvaluate
  <2>3. ASSUME NEW s \in Streams, Evaluation(s)
        PROVE  UNCHANGED now
    BY <2>3, Zenon
    DEF Evaluation, G!GetFirst, G!KeepWindow, G!ResetWindow, G!DelCount,
        G!DelFirst, G!ResetReply, G!LoseReset, G!CheckReturns,
        G!BeginIncrement, G!Incr, G!ExpireCount, G!SetFirst, G!ExpireFirst,
        G!Reply, G!FailCall, G!HandleError, G!Resend
  <2>4. ASSUME Weather
        PROVE  now' = now \/ now' = now + 1
    BY <2>4 DEF Weather, G!Tick, G!KeysExpire, G!Expire
  <2>5. CASE UNCHANGED svars
    BY <2>5 DEF svars
  <2> QED BY <2>1, <2>2, <2>3, <2>4, <2>5, Steps, Zenon
<1> QED BY <1>1, <1>2 DEF Calm

\* Each step of s leaves s steady: within the first window none finds it over.
LEMMA SteadyStep ==
  ASSUME SharedInv, Lasting, Calm, NEW s \in Streams,
         \/ AskHistory(s) \/ HistoryArrives(s) \/ Loop(s)
         \/ AskRecord(s) \/ Finish(s)
         \/ AskGrade(s) \/ GradeArrives(s)
         \/ Answer(s)
         \/ Evaluation(s) /\ UNCHANGED handler
  PROVE  Steady(s)'
<1>1. G!GraceTypeOK /\ Steady(s)
  BY DEF SharedInv, SentinelTypeOK, Lasting
<1> USE DEF G!GraceTypeOK, G!Then, G!At, G!Runs, G!fvars, G!keys, enforcer,
            Steady
<1>2. CASE \/ AskHistory(s) \/ HistoryArrives(s) \/ Loop(s)
           \/ AskRecord(s) \/ Finish(s) \/ Answer(s)
  <2>1. UNCHANGED <<phase, cmd>>
    BY <1>2
    DEF AskHistory, HistoryArrives, Loop, AskRecord, Finish, Answer, Ask
  <2> QED BY <1>1, <2>1
<1>3. CASE AskGrade(s)
  BY <1>1, <1>3 DEF AskGrade, G!BeginEvaluate
<1>4. CASE GradeArrives(s)
  BY <1>1, <1>4 DEF GradeArrives, G!EndEvaluate
<1>5. CASE Evaluation(s)
  <2>1. CASE G!GetFirst(s) \/ G!KeepWindow(s)
    BY <1>1, <2>1 DEF G!GetFirst, G!KeepWindow
  <2>2. CASE G!ResetWindow(s)
    <3>1. now > local[s].seen + W
      BY <2>2 DEF G!ResetWindow, G!WindowOver
    <3>2. local[s].seen \in Nat /\ now \in Nat /\ now <= W /\ W \in Nat
      BY <1>1, SentinelAssumption DEF SentinelAssumption, Calm
    <3> QED BY <3>1, <3>2
  <2>3. CASE \/ G!DelCount(s) \/ G!DelFirst(s) \/ G!ResetReply(s)
             \/ G!LoseReset(s)
    BY <1>1, <2>3
    DEF G!DelCount, G!DelFirst, G!ResetReply, G!LoseReset, G!Resetting
  <2>4. CASE G!CheckReturns(s)
    BY <1>1, <2>4 DEF G!CheckReturns
  <2>5. CASE \/ G!BeginIncrement(s) \/ G!Incr(s) \/ G!ExpireCount(s)
             \/ G!SetFirst(s) \/ G!ExpireFirst(s) \/ G!Reply(s)
    BY <1>1, <2>5
    DEF G!BeginIncrement, G!Incr, G!ExpireCount, G!SetFirst, G!ExpireFirst,
        G!Reply
  <2>6. CASE G!FailCall(s) \/ G!HandleError(s)
    BY <1>1, <2>6 DEF G!FailCall, G!HandleError
  <2>7. CASE G!Resend(s)
    BY <1>1, <2>7 DEF G!Resend, G!Resetting
  <2> QED BY <1>5, <2>1, <2>2, <2>3, <2>4, <2>5, <2>6, <2>7 DEF Evaluation
<1> QED BY <1>2, <1>3, <1>4, <1>5

\* The first window long, no key expires and no DEL is sent.
LEMMA StrikesGrow ==
  ASSUME SharedInv, Lasting, Calm, [SentinelNext]_svars
  PROVE  \/ UNCHANGED <<strikes, countUntil>>
         \/ UNCHANGED strikes /\ countUntil' = now + W
         \/ \E s \in Streams : /\ G!Incr(s) /\ UNCHANGED handler
                               /\ countUntil' = IF strikes = <<>> THEN G!NoTTL
                                                ELSE countUntil
<1> USE DEF enforcer, G!keys
<1>1. /\ G!GraceTypeOK
      /\ strikes # <<>> => countUntil > W
      /\ \A t \in Streams : Steady(t)
  BY DEF SharedInv, SentinelTypeOK, Lasting
<1>2. ASSUME NEW s \in Streams,
             \/ AskHistory(s) \/ HistoryArrives(s) \/ Loop(s)
             \/ AskRecord(s) \/ Finish(s) \/ Answer(s)
             \/ AskGrade(s) \/ GradeArrives(s)
      PROVE  UNCHANGED <<strikes, countUntil>>
  BY <1>2
  DEF AskHistory, HistoryArrives, Loop, AskRecord, Finish, Answer, Ask,
      AskGrade, GradeArrives, G!BeginEvaluate, G!EndEvaluate
<1>3. ASSUME NEW s \in Streams, Evaluation(s)
      PROVE  \/ UNCHANGED <<strikes, countUntil>>
             \/ UNCHANGED strikes /\ countUntil' = now + W
             \/ /\ G!Incr(s)
                /\ countUntil' = IF strikes = <<>> THEN G!NoTTL ELSE countUntil
  <2>1. ~G!DelCount(s)
    BY <1>1 DEF G!DelCount, G!Runs, G!At, Steady
  <2>2. CASE G!Incr(s)
    BY <2>2 DEF G!Incr
  <2>3. CASE G!ExpireCount(s)
    BY <2>3 DEF G!ExpireCount, G!Renewed
  <2>4. CASE ~G!Incr(s) /\ ~G!ExpireCount(s)
    BY <1>3, <2>1, <2>4
    DEF Evaluation, G!GetFirst, G!KeepWindow, G!ResetWindow, G!DelFirst,
        G!ResetReply, G!LoseReset, G!CheckReturns, G!BeginIncrement,
        G!SetFirst, G!ExpireFirst, G!Reply, G!FailCall, G!HandleError,
        G!Resend
  <2> QED BY <2>2, <2>3, <2>4
<1>4. ASSUME Weather
      PROVE  UNCHANGED <<strikes, countUntil>>
  <2>1. ~G!CountOverdue
    <3>1. now \in Nat /\ W \in Nat /\ now <= W /\ countUntil \in Nat
      BY <1>1, SentinelAssumption
      DEF SentinelAssumption, Calm, G!GraceTypeOK, G!NoTTL
    <3> QED BY <1>1, <3>1 DEF G!CountOverdue
  <2>2. CASE G!KeysExpire
    <3>1. PICK gone \in SUBSET {"first"} : G!Expire(gone)
      BY <2>1, <2>2 DEF G!KeysExpire
    <3> QED BY <3>1 DEF G!Expire
  <2> QED BY <1>4, <2>2 DEF Weather, G!Tick
<1>5. CASE UNCHANGED svars
  BY <1>5 DEF svars
<1> QED BY <1>1, <1>2, <1>3, <1>4, <1>5, Steps, Zenon

LEMMA LastingNext ==
  ASSUME SharedInv, Lasting, Calm, [SentinelNext]_svars
  PROVE  Lasting'
<1>1. /\ G!GraceTypeOK
      /\ strikes # <<>> => countUntil > W
      /\ \A t \in Streams : Steady(t)
  BY DEF SharedInv, SentinelTypeOK, Lasting
<1>2. (strikes # <<>> => countUntil > W)'
  <2>1. now + W > W /\ G!NoTTL > W
    BY <1>1, SentinelAssumption DEF SentinelAssumption, G!NoTTL, G!GraceTypeOK
  <2> HIDE DEF G!NoTTL
  <2> QED BY <1>1, <2>1, StrikesGrow
<1>3. ASSUME NEW t \in Streams, Aside(t) PROVE Steady(t)'
  BY <1>1, <1>3 DEF Aside, Steady
<1>4. ASSUME NEW t \in Streams PROVE Steady(t)'
  <2>1. ASSUME NEW s \in Streams,
               \/ AskHistory(s) \/ HistoryArrives(s) \/ Loop(s)
               \/ AskRecord(s) \/ Finish(s)
               \/ AskGrade(s) \/ GradeArrives(s)
               \/ Answer(s)
               \/ Evaluation(s) /\ UNCHANGED handler
        PROVE  Steady(t)'
    <3>1. CASE t = s
      BY <2>1, <3>1, SteadyStep
    <3>2. CASE t # s
      BY <1>3, <2>1, <3>2, OthersAside
    <3> QED BY <3>1, <3>2
  <2>2. ASSUME Weather, UNCHANGED handler PROVE Steady(t)'
    BY <1>3, <2>2, WeatherAside
  <2>3. CASE UNCHANGED svars
    BY <1>1, <2>3 DEF svars, enforcer, Steady
  <2> QED BY <2>1, <2>2, <2>3, Steps, Zenon
<1> QED BY <1>2, <1>4 DEF Lasting

LEMMA LastingInit == SentinelInit => Lasting
<1> SUFFICES ASSUME SentinelInit PROVE Lasting
  OBVIOUS
<1>1. strikes = <<>> /\ phase = [c \in Streams |-> "idle"]
  BY DEF SentinelInit, G!GraceInit
<1> QED BY <1>1 DEF Lasting, Steady

\* The streams whose violation was counted hold places in the counter, no two
\* the same; a stream's count, and the grade the counter gets it, are its
\* place's.
CounterGraded(s) == grade[s] # "none" /\ s \notin unanswered

Holds(s) == Counted(s) \/ CounterGraded(s)

Placed(s, n) ==
  /\ Holds(s) => n \in 1 .. Len(strikes)
  /\ Counted(s) => local[s].count = n
  /\ CounterGraded(s) => grade[s] = G!GradeFromCount(n)

Places ==
  \E f \in [Streams -> Nat] :
    /\ \A s \in Streams : Placed(s, f[s])
    /\ \A s, t \in Streams : Holds(s) /\ Holds(t) /\ f[s] = f[t] => s = t

\* A stream holds a place by an INCR, and keeps it until it has its grade.
LEMMA HoldsStep ==
  ASSUME SharedInv, [SentinelNext]_svars, NEW t \in Streams,
         NEW n \in Nat, Placed(t, n), ~G!Incr(t)
  PROVE  /\ Holds(t)' => Holds(t)
         /\ Counted(t)' => local'[t].count = n
         /\ CounterGraded(t)' => grade'[t] = G!GradeFromCount(n)
<1>1. Counted(t)' => Counted(t) /\ local'[t].count = local[t].count
  BY CountedStep
<1>2. CASE ~GradeArrives(t)
  <2>1. grade'[t] = grade[t] /\ (t \in unanswered' <=> t \in unanswered)
    BY <1>2, GradeStep, UnansweredStays
  <2> QED BY <1>1, <2>1 DEF Holds, Placed, CounterGraded
<1>3. CASE GradeArrives(t)
  <2>1. /\ phase[t] = "charge" /\ call[t] \in {"answered", "defaulted"}
        /\ grade'[t] = G!GradeFromCount(Judged(t))
    BY <1>3, GradeArrivesGrade
  <2>2. CASE call[t] = "answered"
    <3>1. Counted(t) /\ Judged(t) = n
      BY <2>1, <2>2 DEF Counted, Judged, Placed
    <3> QED BY <1>1, <2>1, <3>1 DEF Holds, Placed
  <2>3. CASE call[t] = "defaulted"
    <3>1. t \in unanswered'
      BY <1>3, <2>3 DEF GradeArrives
    <3> QED BY <1>1, <3>1 DEF Holds, Placed, CounterGraded
  <2> QED BY <2>1, <2>2, <2>3
<1> QED BY <1>2, <1>3

\* INCR gives the place past the last, to a stream that held none.
LEMMA IncrHolds ==
  ASSUME SharedInv, NEW s \in Streams, G!Incr(s)
  PROVE  /\ ~Holds(s)
         /\ grade'[s] = "none"
         /\ local'[s].count = Len(strikes) + 1
         /\ Len(strikes) \in Nat /\ Len(strikes') = Len(strikes) + 1
<1>1. /\ phase[s] = "charge" /\ cmd[s] = "incr" /\ call[s] = "inner"
      /\ UNCHANGED grade
      /\ strikes' = Append(strikes, now)
      /\ local' = [local EXCEPT ![s].count = Len(strikes')]
  BY DEF G!Incr, G!Runs, G!At
<1>2. /\ G!GraceTypeOK /\ Evaluating(s) /\ Grading(s)
  BY DEF SharedInv, SentinelTypeOK, StreamInv
<1>3. grade[s] = "none"
  BY <1>1, <1>2 DEF Evaluating, Grading
<1>4. Len(strikes) \in Nat /\ Len(strikes') = Len(strikes) + 1
  BY <1>1, <1>2, AppendProperties, LenProperties DEF G!GraceTypeOK
<1>5. local'[s].count = Len(strikes')
  BY <1>1, <1>2 DEF G!GraceTypeOK
<1> QED BY <1>1, <1>3, <1>4, <1>5 DEF Holds, Counted, CounterGraded

\* While the counter only grows, the places stay.
LEMMA PlacesNext ==
  ASSUME SharedInv, Lasting, Calm, [SentinelNext]_svars, Places
  PROVE  Places'
<1>1. PICK f \in [Streams -> Nat] :
         /\ \A s \in Streams : Placed(s, f[s])
         /\ \A s, t \in Streams : Holds(s) /\ Holds(t) /\ f[s] = f[t] => s = t
  BY DEF Places
<1>2. G!GraceTypeOK
  BY DEF SharedInv, SentinelTypeOK
<1>3. ASSUME NEW s \in Streams, G!Incr(s), UNCHANGED handler
      PROVE  Places'
  <2>1. /\ ~Holds(s) /\ grade'[s] = "none"
        /\ local'[s].count = Len(strikes) + 1
        /\ Len(strikes) \in Nat /\ Len(strikes') = Len(strikes) + 1
    BY <1>3, IncrHolds
  <2>2. PICK n \in Nat : n = Len(strikes) + 1
    BY <2>1
  <2>3. PICK g \in [Streams -> Nat] :
           /\ g[s] = n
           /\ \A t \in Streams \ {s} : g[t] = f[t]
    <3> WITNESS [f EXCEPT ![s] = n] \in [Streams -> Nat]
    <3> QED OBVIOUS
  <2>4. ASSUME NEW t \in Streams \ {s}
        PROVE  /\ Holds(t)' => Holds(t) /\ g[t] \in 1 .. Len(strikes)
               /\ Placed(t, g[t])'
    <3>1. ~G!Incr(t)
      <4>1. SUFFICES ASSUME G!Incr(t) PROVE FALSE
        OBVIOUS
      <4>2. /\ cmd[t] = "incr" /\ cmd[s] = "incr"
            /\ cmd' = [cmd EXCEPT ![t] = "expireCount"]
            /\ cmd' = [cmd EXCEPT ![s] = "expireCount"]
        BY <1>3, <4>1 DEF G!Incr, G!Runs, G!At, G!Then
      <4> QED BY <1>2, <4>2 DEF G!GraceTypeOK
    <3>2. Placed(t, f[t]) /\ f[t] \in Nat /\ g[t] = f[t]
      BY <1>1, <2>3
    <3>3. /\ Holds(t)' => Holds(t)
          /\ Counted(t)' => local'[t].count = f[t]
          /\ CounterGraded(t)' => grade'[t] = G!GradeFromCount(f[t])
      BY <3>1, <3>2, HoldsStep
    <3>4. Holds(t) => f[t] \in 1 .. Len(strikes) /\ f[t] \in 1 .. Len(strikes')
      BY <2>1, <2>2, <3>2 DEF Placed
    <3> QED BY <3>2, <3>3, <3>4 DEF Placed
  <2>5. Placed(s, g[s])'
    BY <2>1, <2>2, <2>3 DEF Placed, CounterGraded
  <2>6. \A t \in Streams : Placed(t, g[t])'
    BY <2>4, <2>5
  <2>7. ASSUME NEW t \in Streams, NEW u \in Streams,
               Holds(t)', Holds(u)', g[t] = g[u]
        PROVE  t = u
    <3>1. CASE t # s /\ u # s
      BY <1>1, <2>3, <2>4, <2>7, <3>1
    <3>2. CASE t = s /\ u # s
      BY <2>2, <2>3, <2>4, <2>1, <2>7, <3>2
    <3>3. CASE t # s /\ u = s
      BY <2>2, <2>3, <2>4, <2>1, <2>7, <3>3
    <3> QED BY <3>1, <3>2, <3>3
  <2> QED BY <2>3, <2>6, <2>7 DEF Places
<1>4. ASSUME UNCHANGED strikes
      PROVE  Places'
  <2>1. ASSUME NEW t \in Streams
        PROVE  Placed(t, f[t])' /\ (Holds(t)' => Holds(t))
    <3>1. Placed(t, f[t]) /\ f[t] \in Nat
      BY <1>1
    <3>2. ~G!Incr(t)
      BY <1>4, IncrHolds
    <3> QED BY <1>4, <3>1, <3>2, HoldsStep DEF Placed
  <2> QED BY <1>1, <2>1 DEF Places
<1> QED BY <1>3, <1>4, StrikesGrow, Zenon

LEMMA PlacesInit == SentinelInit => Places
<1> SUFFICES ASSUME SentinelInit PROVE Places
  OBVIOUS
<1>1. /\ phase = [c \in Streams |-> "idle"]
      /\ grade = [c \in Streams |-> "none"]
  BY DEF SentinelInit, G!GraceInit
<1>2. /\ [c \in Streams |-> 0] \in [Streams -> Nat]
      /\ \A s \in Streams : ~Holds(s) /\ Placed(s, 0)
  BY <1>1 DEF Holds, Counted, Placed, CounterGraded
<1> QED BY <1>2 DEF Places

\* No more streams are let off by the counter than there are places for it.
LEMMA PlacesLogOnly ==
  ASSUME SharedInv, Places
  PROVE  Cardinality({s \in Streams \ unanswered : grade[s] = "log_only"})
           <= LogOnlyCount
<1> DEFINE L == {s \in Streams \ unanswered : grade[s] = "log_only"}
<1>1. PICK f \in [Streams -> Nat] :
         /\ \A s \in Streams : Placed(s, f[s])
         /\ \A s, t \in Streams : Holds(s) /\ Holds(t) /\ f[s] = f[t] => s = t
  BY DEF Places
<1>2. Len(strikes) \in Nat /\ LogOnlyCount \in Nat
  BY LenProperties, SentinelAssumption
  DEF SentinelAssumption, SharedInv, SentinelTypeOK, G!GraceTypeOK
<1>3. ASSUME NEW s \in L
      PROVE  Holds(s) /\ f[s] \in 1 .. LogOnlyCount
  <2>1. /\ s \in Streams \ unanswered /\ grade[s] = "log_only"
        /\ Placed(s, f[s])
    BY <1>1
  <2>2. Holds(s) /\ CounterGraded(s)
    BY <2>1 DEF Holds, CounterGraded
  <2>3. f[s] \in 1 .. Len(strikes) /\ G!GradeFromCount(f[s]) = "log_only"
    BY <2>1, <2>2 DEF Placed
  <2> QED BY <1>2, <2>2, <2>3, GradeOfCount
<1> DEFINE h == [s \in L |-> f[s]]
<1>4. h \in [L -> 1 .. LogOnlyCount]
  BY <1>3
<1>5. \A s, t \in L : h[s] = h[t] => s = t
  BY <1>1, <1>3
<1> HIDE DEF h, L
<1>6. h \in Injection(L, 1 .. LogOnlyCount)
  BY <1>4, <1>5, Fun_IsInj
<1>7. /\ IsFiniteSet(1 .. LogOnlyCount)
      /\ Cardinality(1 .. LogOnlyCount) = LogOnlyCount
  BY <1>2, FS_Interval
<1>8. Cardinality(L) <= LogOnlyCount
  BY <1>6, <1>7, FS_Injection
<1> QED BY <1>8 DEF L

EscalatesInv == SharedInv /\ (Calm => Lasting /\ Places)

LEMMA EscalatesNext ==
  EscalatesInv /\ [SentinelNext]_svars => EscalatesInv'
<1> SUFFICES ASSUME EscalatesInv, [SentinelNext]_svars
             PROVE  EscalatesInv'
  OBVIOUS
<1>1. SharedInv /\ SharedInv'
  BY SharedNext DEF EscalatesInv
<1>2. ASSUME Calm'
      PROVE  Lasting' /\ Places'
  <2>1. Calm
    BY <1>1, <1>2, CalmBefore
  <2>2. Lasting /\ Places
    BY <2>1 DEF EscalatesInv
  <2> QED BY <1>1, <2>1, <2>2, LastingNext, PlacesNext
<1> QED BY <1>1, <1>2 DEF EscalatesInv

\* While the first window lasts, the counter lets off no more streams than
\* log_only_count with a log line, however their evaluations interleave, fail or
\* are sent again (INCR gives each its own place); what lets off more is the
\* answer of the fail-open client to a stream whose call failed.
THEOREM EscalatesTheorem == SentinelSpec => []Escalates
<1>1. SentinelInit => EscalatesInv
  BY SharedInit, LastingInit, PlacesInit DEF EscalatesInv
<1>2. EscalatesInv => Escalates
  <2> SUFFICES ASSUME EscalatesInv PROVE Escalates
    OBVIOUS
  <2>1. CASE Calm
    <3>1. SharedInv /\ Places
      BY <2>1 DEF EscalatesInv
    <3> QED BY <3>1, PlacesLogOnly DEF Escalates
  <2>2. CASE ~Calm
    <3>1. now \in Nat /\ W \in Nat
      BY SentinelAssumption
      DEF EscalatesInv, SharedInv, SentinelTypeOK, G!GraceTypeOK,
          SentinelAssumption
    <3> QED BY <2>2, <3>1 DEF Calm, Escalates
  <2> QED BY <2>1, <2>2
<1> QED BY <1>1, <1>2, EscalatesNext, PTL DEF SentinelSpec
-----------------------------------------------------------------------------
\* The parts keep their promises in the composition.

\* Each stream does only what Monitor allows: the grade the shared counter
\* gives is one evaluateSoftBreach may return, the history one Redis may.
THEOREM SentinelIsMonitor == SentinelSpec => Init /\ [][Next]_vars
<1>1. SentinelInit => Init
  BY DEF SentinelInit
<1>2. SharedInv /\ [SentinelNext]_svars => [Next]_vars
  BY MonitorStep
<1> QED BY <1>1, <1>2, SharedInvariant, PTL DEF SentinelSpec

\* Outages, lost replies and races for the counter leave limits, throttle and
\* history as they are.
THEOREM SentinelSafety == SentinelSpec => StreamsSafe
  BY SentinelIsMonitor, MonitorSafety, PTL

\* And the streams of a user who share their Redis implement the contract.
THEOREM SentinelContractTheorem ==
  SentinelSpec => Contract!Init /\ [][Contract!CNext]_(Contract!cvars)
<1>1. SharedInv /\ [SentinelNext]_svars => [Contract!CNext]_(Contract!cvars)
  BY MonitorStep, ContractStep DEF SharedInv, SentinelTypeOK
<1>2. SentinelInit => Contract!Init
  BY ContractInit DEF SentinelInit
<1> HIDE DEF Contract!cvars
<1> QED BY <1>1, <1>2, SharedInvariant, PTL DEF SentinelSpec

\* What a step does to the fail-open client.
LEMMA ClientStep ==
  ASSUME [SentinelNext]_svars
  PROVE  [G!FailOpenNext]_(G!fvars)
<1>1. ASSUME NEW s \in Streams,
             \/ AskHistory(s) \/ HistoryArrives(s) \/ AskRecord(s)
             \/ AskGrade(s) \/ GradeArrives(s) \/ Answer(s)
      PROVE  G!FailOpenNext
  <2>1. G!Enter(s) \/ G!CallStep(s)
    BY <1>1, Zenon
    DEF AskHistory, HistoryArrives, AskRecord, AskGrade, GradeArrives, Answer,
        Ask, G!BeginEvaluate, G!EndEvaluate, G!CallStep
  <2> QED BY <2>1, Zenon DEF G!FailOpenNext
<1>2. ASSUME NEW s \in Streams, Finish(s)
      PROVE  G!FailOpenNext \/ UNCHANGED G!fvars
  <2>1. G!Return(s) \/ UNCHANGED client
    BY <1>2, Zenon DEF Finish
  <2>2. CASE G!Return(s)
    BY <2>2, Zenon DEF G!FailOpenNext, G!CallStep
  <2> QED BY <2>1, <2>2 DEF client, G!fvars
<1>3. ASSUME NEW s \in Streams, Loop(s)
      PROVE  UNCHANGED G!fvars
  BY <1>3 DEF Loop, client, G!fvars
<1>4. ASSUME NEW s \in Streams, Evaluation(s)
      PROVE  G!FailOpenNext \/ UNCHANGED G!fvars
  <2>1. CASE \/ G!KeepWindow(s) \/ G!ResetReply(s) \/ G!LoseReset(s)
             \/ G!CheckReturns(s) \/ G!BeginIncrement(s) \/ G!Reply(s)
             \/ G!FailCall(s) \/ G!HandleError(s)
    <3>1. G!Enter(s) \/ G!CallStep(s)
      BY <2>1, Zenon
      DEF G!KeepWindow, G!ResetReply, G!LoseReset, G!CheckReturns,
          G!BeginIncrement, G!Reply, G!FailCall, G!HandleError, G!CallStep
    <3> QED BY <3>1, Zenon DEF G!FailOpenNext
  <2>2. CASE \/ G!GetFirst(s) \/ G!ResetWindow(s) \/ G!DelCount(s)
             \/ G!DelFirst(s) \/ G!Incr(s) \/ G!ExpireCount(s) \/ G!SetFirst(s)
             \/ G!ExpireFirst(s) \/ G!Resend(s)
    BY <2>2, Zenon
    DEF G!GetFirst, G!ResetWindow, G!DelCount, G!DelFirst, G!Incr,
        G!ExpireCount, G!SetFirst, G!ExpireFirst, G!Resend
  <2> QED BY <1>4, <2>1, <2>2, Zenon DEF Evaluation
<1>5. ASSUME Weather
      PROVE  G!FailOpenNext \/ UNCHANGED G!fvars
  BY <1>5, Zenon
  DEF Weather, G!Tick, G!KeysExpire, G!Expire, G!FailOpenNext
<1>6. CASE UNCHANGED svars
  BY <1>6 DEF svars, client, G!fvars
<1> QED BY <1>1, <1>2, <1>3, <1>4, <1>5, <1>6, Steps, Zenon

\* The three callers of a request, and the clients that leave in the middle of
\* a call, use the fail-open client as FailOpen says it is used.
THEOREM SentinelCallsFailOpen ==
  SentinelSpec => G!FailOpenInit /\ [][G!FailOpenNext]_(G!fvars)
<1>1. SentinelInit => G!FailOpenInit
  BY DEF SentinelInit, G!GraceInit
<1>2. [SentinelNext]_svars => [G!FailOpenNext]_(G!fvars)
  BY ClientStep
<1> HIDE DEF G!fvars
<1> QED BY <1>1, <1>2, PTL DEF SentinelSpec

\* What is on its way to the flag was caused by an outage, and no call got past
\* a client that was never made.
BlamelessClient ==
  /\ ~available => outages > 0
  /\ available => inner
  /\ \A s \in Streams :
       /\ call[s] \in {"inner", "ping", "store"} => inner
       /\ call[s] = "store" => outages > 0
  /\ ~redisUp => outages > 0

LEMMA BlamelessStep ==
  ASSUME G!FailOpenTypeOK, BlamelessClient, [G!FailOpenNext]_(G!fvars)
  PROVE  BlamelessClient'
<1>1. outages \in Nat /\ call \in [Streams -> G!CallStates]
  BY SentinelAssumption DEF SentinelAssumption, G!FailOpenTypeOK
<1> USE DEF BlamelessClient, G!Goes
<1>2. CASE G!RedisDown
  BY <1>1, <1>2 DEF G!RedisDown
<1>3. CASE G!RedisRecovers
  BY <1>1, <1>3 DEF G!RedisRecovers
<1>4. ASSUME NEW s \in Streams, G!Enter(s)
      PROVE  BlamelessClient'
  BY <1>1, <1>4 DEF G!Enter
<1>5. ASSUME NEW s \in Streams, G!CallStep(s)
      PROVE  BlamelessClient'
  BY <1>1, <1>5
  DEF G!CallStep, G!InnerOk, G!InnerFail, G!AfterError, G!PingOk, G!PingFail,
      G!AfterFailedPing, G!MarkUnavailable, G!Return
<1>6. CASE UNCHANGED G!fvars
  BY <1>6 DEF G!fvars
<1> QED BY <1>2, <1>3, <1>4, <1>5, <1>6 DEF G!FailOpenNext

\* A client that leaves in the middle of a call, a late reply or a race never
\* degrades the proxy: only an outage does, and no call reaches a client that
\* was never made.
THEOREM SentinelOutageTheorem ==
  SentinelSpec => [](DegradedOnlyByOutage /\ G!NoCallOnNilClient)
<1>1. SentinelInit => BlamelessClient
  BY DEF SentinelInit, G!GraceInit, G!FailOpenInit, BlamelessClient
<1>2. SharedInv /\ BlamelessClient /\ [SentinelNext]_svars => BlamelessClient'
  BY ClientStep, BlamelessStep DEF SharedInv, SentinelTypeOK, G!GraceTypeOK
<1>3. BlamelessClient => DegradedOnlyByOutage /\ G!NoCallOnNilClient
  BY DEF BlamelessClient, DegradedOnlyByOutage, G!DegradedOnlyByOutage,
         G!NoCallOnNilClient
<1> QED BY <1>1, <1>2, <1>3, SharedInvariant, PTL DEF SentinelSpec
-----------------------------------------------------------------------------
\* A proxy that was once degraded stays so, also with streams that share it and
\* clients that leave: whatever its streams ask later is answered with defaults.
THEOREM SentinelDegradedForGood == SentinelSpec => [](~available => []~available)
<1>1. ~available /\ [G!FailOpenNext]_(G!fvars) => ~available'
  BY DEF G!FailOpenNext, G!RedisDown, G!RedisRecovers, G!Enter, G!CallStep,
         G!InnerOk, G!InnerFail, G!PingOk, G!PingFail, G!MarkUnavailable,
         G!Return, G!fvars
<1>2. ~available /\ [SentinelNext]_svars => ~available'
  BY <1>1, ClientStep
<1> QED BY <1>2, PTL DEF SentinelSpec
=============================================================================
