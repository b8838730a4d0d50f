------------------------------ MODULE GraceProofs ------------------------------
(***************************************************************************)
(* Theorems about the fail-open client and about the grace system that is  *)
(* called through it, for any number of callers and pingers, any number of  *)
(* outages, any window and any counts.                                     *)
(***************************************************************************)
EXTENDS Grace, SequenceTheorems, TLAPS

USE DEF AfterError, AfterFailedPing, Pingable

LEMMA FailOpenTypeInit == FailOpenInit => FailOpenTypeOK
  BY FailOpenAssumption
  DEF FailOpenInit, FailOpenTypeOK, FailOpenAssumption, CallStates

LEMMA FailOpenTypeNext ==
  FailOpenTypeOK /\ [FailOpenNext]_fvars => FailOpenTypeOK'
<1> SUFFICES ASSUME FailOpenTypeOK, [FailOpenNext]_fvars
             PROVE  FailOpenTypeOK'
  OBVIOUS
<1> USE FailOpenAssumption
    DEF FailOpenTypeOK, FailOpenAssumption, CallStates
<1>1. CASE RedisDown
  <2>1. outages' \in 0 .. MaxOutages
    BY <1>1, SMT DEF RedisDown
  <2> QED BY <1>1, <2>1, Zenon DEF RedisDown
<1>2. CASE RedisRecovers
  BY <1>2 DEF RedisRecovers
<1>3. ASSUME NEW c \in Callers, Enter(c)
      PROVE  FailOpenTypeOK'
  BY <1>3 DEF Enter, Goes
<1>4. ASSUME NEW c \in Callers, CallStep(c)
      PROVE  FailOpenTypeOK'
  BY <1>4 DEF CallStep, InnerOk, InnerFail, PingOk, PingFail,
              MarkUnavailable, Return, Goes
<1>5. ASSUME NEW p \in Pingers, PingerStep(p)
      PROVE  FailOpenTypeOK'
  BY <1>5 DEF PingerStep, HealthPing, HealthStore
<1>6. CASE UNCHANGED fvars
  BY <1>6 DEF fvars
<1> QED BY <1>1, <1>2, <1>3, <1>4, <1>5, <1>6 DEF FailOpenNext

\* Every state is well typed.
THEOREM FailOpenType == FailOpenSpec => []FailOpenTypeOK
  BY FailOpenTypeInit, FailOpenTypeNext, PTL DEF FailOpenSpec

\* A failure on its way to the flag is one that an outage caused, and only a
\* client that was made is ever available or called.
Blameless ==
  /\ ~redisUp => outages > 0
  /\ ~available => outages > 0
  /\ \A c \in Callers : call[c] = "store" => outages > 0
  /\ \A p \in Pingers : probe[p] = "failed" => outages > 0
  /\ available => inner
  /\ \A c \in Callers : call[c] \in {"inner", "ping", "store"} => inner
  /\ \A p \in Pingers : probe[p] # "none" => inner

LEMMA BlamelessInit == FailOpenInit => Blameless
  BY DEF FailOpenInit, Blameless

LEMMA BlamelessNext ==
  FailOpenTypeOK /\ Blameless /\ [FailOpenNext]_fvars => Blameless'
<1> SUFFICES ASSUME FailOpenTypeOK, Blameless, [FailOpenNext]_fvars
             PROVE  Blameless'
  OBVIOUS
<1> USE DEF FailOpenTypeOK, Blameless, CallStates
<1>1. CASE RedisDown
  BY <1>1 DEF RedisDown
<1>2. CASE RedisRecovers
  BY <1>2 DEF RedisRecovers
<1>3. ASSUME NEW c \in Callers, Enter(c)
      PROVE  Blameless'
  BY <1>3 DEF Enter, Goes
<1>4. ASSUME NEW c \in Callers, CallStep(c)
      PROVE  Blameless'
  BY <1>4 DEF CallStep, InnerOk, InnerFail, PingOk, PingFail,
              MarkUnavailable, Return, Goes
<1>5. ASSUME NEW p \in Pingers, PingerStep(p)
      PROVE  Blameless'
  BY <1>5 DEF PingerStep, HealthPing, HealthStore
<1>6. CASE UNCHANGED fvars
  BY <1>6 DEF fvars
<1> QED BY <1>1, <1>2, <1>3, <1>4, <1>5, <1>6 DEF FailOpenNext

LEMMA BlamelessInvariant == FailOpenSpec => []Blameless
  BY BlamelessInit, BlamelessNext, FailOpenType, PTL DEF FailOpenSpec

\* handleError's second ping: nothing short of an outage degrades the proxy,
\* however many requests are cancelled at once.
THEOREM OutageTheorem == FailOpenSpec => []DegradedOnlyByOutage
<1>1. Blameless => DegradedOnlyByOutage
  BY DEF Blameless, DegradedOnlyByOutage
<1> QED BY <1>1, BlamelessInvariant, PTL

\* No operation, and no Ping, reaches a client that was never made.
THEOREM NilClientTheorem == FailOpenSpec => []NoCallOnNilClient
<1>1. Blameless => NoCallOnNilClient
  BY DEF Blameless, NoCallOnNilClient
<1> QED BY <1>1, BlamelessInvariant, PTL

\* Without a goroutine that pings, and the proxy has none, nothing sets the flag
\* again: a client that was once marked unavailable answers with defaults until
\* the process ends, however long Redis has been back.  The health handler
\* reports this flag; what the README says of it is the subject of the run health.
THEOREM DegradedForGood ==
  ASSUME Pingers = {}
  PROVE  FailOpenSpec => [](~available => []~available)
<1>1. ~available /\ [FailOpenNext]_fvars => ~available'
  BY DEF FailOpenNext, RedisDown, RedisRecovers, Enter, CallStep, InnerOk,
         InnerFail, PingOk, PingFail, MarkUnavailable, Return, fvars
<1> QED BY <1>1, PTL DEF FailOpenSpec

-----------------------------------------------------------------------------
\* The grace system.
CallLocals == [seen : 0 .. MaxTime, stamp : 0 .. MaxTime, count : Nat,
               tries : 0 .. MaxRetries]

LEMMA NoLocalsType ==
  /\ NoLocals \in CallLocals
  /\ \A n \in 0 .. MaxTime : [NoLocals EXCEPT !.stamp = n] \in CallLocals
  BY GraceAssumption DEF GraceAssumption, NoLocals, CallLocals

LEMMA LocalsUpdates ==
  ASSUME NEW l \in CallLocals
  PROVE  /\ \A n \in 0 .. MaxTime : [l EXCEPT !.seen = n] \in CallLocals
         /\ \A n \in Nat : [l EXCEPT !.count = n] \in CallLocals
         /\ l.tries < MaxRetries => [l EXCEPT !.tries = @ + 1] \in CallLocals
<1>1. /\ \A n \in 0 .. MaxTime : [l EXCEPT !.seen = n] \in CallLocals
      /\ \A n \in Nat : [l EXCEPT !.count = n] \in CallLocals
  BY DEF CallLocals
<1>2. ASSUME l.tries < MaxRetries
      PROVE  [l EXCEPT !.tries = @ + 1] \in CallLocals
  <2>1. l.tries + 1 \in 0 .. MaxRetries
    BY <1>2, GraceAssumption DEF CallLocals, GraceAssumption
  <2> QED BY <2>1 DEF CallLocals
<1> QED BY <1>1, <1>2

\* The steps that leave the keys and the locals of the calls alone.
LEMMA CallStepType ==
  ASSUME GraceTypeOK, NEW c \in Callers,
         \/ KeepWindow(c) \/ ResetWindow(c) \/ ResetReply(c) \/ LoseReset(c)
         \/ CheckReturns(c) \/ Reply(c) \/ FailCall(c) \/ HandleError(c)
  PROVE  GraceTypeOK'
<1> USE DEF GraceTypeOK, FailOpenTypeOK, CallStates, Goes, At, Runs, Then,
            fvars, keys
<1>1. CASE KeepWindow(c) \/ ResetWindow(c) \/ ResetReply(c) \/ LoseReset(c)
           \/ Reply(c)
  BY <1>1
  DEF KeepWindow, ResetWindow, ResetReply, LoseReset, Reply, InnerOk, NoTTL
<1>2. CASE CheckReturns(c) \/ FailCall(c)
  BY <1>2 DEF CheckReturns, FailCall, InnerFail, Return, NoTTL
<1>3. CASE HandleError(c)
  BY <1>3 DEF HandleError, PingOk, PingFail, MarkUnavailable, NoTTL
<1> QED BY <1>1, <1>2, <1>3

LEMMA CommandType ==
  ASSUME GraceTypeOK, NEW c \in Callers,
         \/ GetFirst(c) \/ DelCount(c) \/ DelFirst(c)
         \/ Incr(c) \/ ExpireCount(c) \/ SetFirst(c) \/ ExpireFirst(c)
  PROVE  GraceTypeOK'
<1>0. local \in [Callers -> CallLocals] /\ local[c] \in CallLocals
  BY DEF GraceTypeOK, CallLocals
<1> USE GraceAssumption
    DEF GraceAssumption, GraceTypeOK, FailOpenTypeOK, CallStates, Goes, At,
        Runs, Then, fvars, keys
<1>1. CASE GetFirst(c)
  BY <1>1 DEF GetFirst, NoTTL
<1>2. CASE DelCount(c)
  BY <1>2 DEF DelCount, NoTTL
<1>3. CASE DelFirst(c)
  BY <1>3 DEF DelFirst, NoTTL
<1>4. CASE Incr(c)
  <2>1. strikes' = Append(strikes, now)
    BY <1>4 DEF Incr
  <2>2. strikes' \in Seq(1 .. MaxTime) /\ Len(strikes') \in Nat
    BY <2>1, AppendProperties, LenProperties
  <2>3. local' = [local EXCEPT ![c] = [local[c] EXCEPT !.count = Len(strikes')]]
    BY <1>4 DEF Incr
  <2>4. local' \in [Callers -> CallLocals]
    BY <1>0, <2>2, <2>3, LocalsUpdates
  <2>5. countUntil' \in 0 .. NoTTL
    <3>1. countUntil' \in {countUntil, NoTTL}
      BY <1>4 DEF Incr
    <3>2. NoTTL \in Nat
      BY DEF NoTTL
    <3> QED BY <3>1, <3>2
  <2> QED BY <1>4, <2>2, <2>4, <2>5 DEF Incr, CallLocals
<1>5. CASE ExpireCount(c)
  BY <1>5 DEF ExpireCount, Renewed, NoTTL
<1>6. CASE SetFirst(c)
  BY <1>6 DEF SetFirst, Opened, NoTTL
<1>7. CASE ExpireFirst(c)
  BY <1>7 DEF ExpireFirst, Renewed, NoTTL
<1> QED BY <1>1, <1>2, <1>3, <1>4, <1>5, <1>6, <1>7

LEMMA BoundaryType ==
  ASSUME GraceTypeOK, NEW c \in Callers,
         \/ BeginEvaluate(c) \/ BeginIncrement(c) \/ Resend(c) \/ EndEvaluate(c)
  PROVE  GraceTypeOK'
<1>0. local \in [Callers -> CallLocals] /\ local[c] \in CallLocals
      /\ now \in 0 .. MaxTime
  BY DEF GraceTypeOK, CallLocals
<1> USE DEF GraceTypeOK, FailOpenTypeOK, CallStates, Goes, Then, fvars, keys
<1>1. CASE BeginEvaluate(c)
  <2>1. local' \in [Callers -> CallLocals]
    BY <1>0, <1>1, NoLocalsType DEF BeginEvaluate
  <2> QED BY <1>1, <2>1 DEF BeginEvaluate, Enter, NoTTL, CallLocals
<1>2. CASE BeginIncrement(c)
  <2>1. local' \in [Callers -> CallLocals]
    BY <1>0, <1>2, NoLocalsType DEF BeginIncrement
  <2> QED BY <1>2, <2>1 DEF BeginIncrement, Enter, NoTTL, CallLocals
<1>3. CASE Resend(c)
  <2>1. /\ local' = [local EXCEPT ![c] = [local[c] EXCEPT !.tries = @ + 1]]
        /\ local[c].tries < MaxRetries
    BY <1>3 DEF Resend, MayResend
  <2>2. local' \in [Callers -> CallLocals]
    BY <1>0, <2>1, LocalsUpdates
  <2> QED BY <1>3, <2>2 DEF Resend, NoTTL, CallLocals
<1>4. CASE EndEvaluate(c)
  <2>1. local' \in [Callers -> CallLocals]
    BY <1>0, <1>4, NoLocalsType DEF EndEvaluate
  <2>2. grade' \in [Callers -> GraceGrades \cup {"none"}]
    <3>1. \A n : GradeFromCount(n) \in GraceGrades
      BY DEF GradeFromCount, GraceGrades
    <3> HIDE DEF GraceGrades
    <3> QED BY <1>4, <3>1 DEF EndEvaluate
  <2> QED BY <1>4, <2>1, <2>2 DEF EndEvaluate, Return, NoTTL, CallLocals
<1> QED BY <1>1, <1>2, <1>3, <1>4

LEMMA EnvironmentType ==
  ASSUME GraceTypeOK, Environment
  PROVE  GraceTypeOK'
<1> USE GraceAssumption
    DEF GraceAssumption, GraceTypeOK, FailOpenTypeOK, CallStates, fvars, keys
<1>1. CASE Tick
  BY <1>1 DEF Tick, NoTTL
<1>2. CASE KeysExpire
  <2>1. PICK gone : Expire(gone)
    BY <1>2 DEF KeysExpire
  <2>2. <<>> \in Seq(1 .. MaxTime) /\ 0 \in 0 .. MaxTime
    OBVIOUS
  <2>3. strikes' \in {<<>>, strikes} /\ first' \in {0, first}
    BY <2>1 DEF Expire
  <2>4. strikes' \in Seq(1 .. MaxTime) /\ first' \in 0 .. MaxTime
    BY <2>2, <2>3, Zenon
  <2> QED BY <2>1, <2>4, Zenon DEF Expire, NoTTL
<1>3. CASE (RedisDown \/ RedisRecovers)
           /\ UNCHANGED <<now, keys, phase, cmd, local, grade>>
  <2>1. CASE RedisDown
    <3>1. outages' \in 0 .. MaxOutages
      BY <2>1, FailOpenAssumption, SMT DEF RedisDown, FailOpenAssumption
    <3> QED BY <1>3, <2>1, <3>1, Zenon DEF RedisDown, NoTTL
  <2>2. CASE RedisRecovers
    BY <1>3, <2>2, Zenon DEF RedisRecovers, NoTTL
  <2> QED BY <1>3, <2>1, <2>2
<1> QED BY <1>1, <1>2, <1>3 DEF Environment

\* A step is one of these; ResetLost and CallFails keep their guard.
LEMMA GraceSteps ==
  ASSUME [GraceNext]_gvars
  PROVE  \/ Environment
         \/ \E c \in Callers :
              \/ BeginEvaluate(c) \/ BeginIncrement(c) \/ Resend(c)
              \/ EndEvaluate(c)
              \/ GetFirst(c) \/ DelCount(c) \/ DelFirst(c)
              \/ Incr(c) \/ ExpireCount(c) \/ SetFirst(c) \/ ExpireFirst(c)
              \/ KeepWindow(c) \/ ResetWindow(c) \/ ResetReply(c) \/ ResetLost(c)
              \/ CheckReturns(c) \/ Reply(c) \/ CallFails(c) \/ HandleError(c)
         \/ UNCHANGED gvars
  BY Zenon DEF GraceNext, EvaluateStep, InEvaluate, Quiet

LEMMA GraceTypeNext ==
  ASSUME GraceTypeOK, [GraceNext]_gvars
  PROVE  GraceTypeOK'
<1>1. CASE UNCHANGED gvars
  BY <1>1 DEF gvars, fvars, keys, GraceTypeOK, FailOpenTypeOK, CallStates, NoTTL
<1> QED
  BY <1>1, GraceSteps, EnvironmentType, BoundaryType, CommandType, CallStepType,
     Zenon DEF ResetLost, CallFails

LEMMA GraceTypeInit == GraceInit => GraceTypeOK
<1> SUFFICES ASSUME GraceInit PROVE GraceTypeOK
  OBVIOUS
<1>1. FailOpenTypeOK
  BY FailOpenTypeInit DEF GraceInit
<1>2. <<>> \in Seq(1 .. MaxTime)
  OBVIOUS
<1> QED BY <1>1, <1>2, NoLocalsType, GraceAssumption
        DEF GraceAssumption, GraceInit, GraceTypeOK, NoTTL, CallLocals

\* The keys, the clock and every evaluation's locals stay well typed, whatever
\* fails and however often a pipeline is sent.
THEOREM GraceTypeTheorem == GraceSpec => []GraceTypeOK
  BY GraceTypeInit, GraceTypeNext, PTL DEF GraceSpec

-----------------------------------------------------------------------------
\* To the fail-open client a step of an evaluation is a step of a call, or none.
LEMMA GraceStepsFailOpen ==
  ASSUME [GraceNext]_gvars
  PROVE  [FailOpenNext]_fvars
<1>1. CASE Environment
  BY <1>1, Zenon
  DEF Environment, Tick, KeysExpire, Expire, FailOpenNext
<1>2. ASSUME NEW c \in Callers,
             \/ BeginEvaluate(c) \/ BeginIncrement(c)
             \/ EndEvaluate(c) \/ ResetReply(c)
             \/ KeepWindow(c) \/ ResetLost(c)
             \/ CheckReturns(c) \/ Reply(c) \/ CallFails(c) \/ HandleError(c)
      PROVE  FailOpenNext
  <2>1. Enter(c) \/ CallStep(c)
    BY <1>2, Zenon
    DEF BeginEvaluate, BeginIncrement, EndEvaluate, ResetReply, KeepWindow,
        ResetLost, LoseReset, CheckReturns, Reply, CallFails, FailCall,
        HandleError, CallStep
  <2> QED BY <2>1, Zenon DEF FailOpenNext
<1>3. ASSUME NEW c \in Callers,
             \/ Resend(c) \/ GetFirst(c) \/ DelCount(c) \/ DelFirst(c)
             \/ Incr(c) \/ ExpireCount(c) \/ SetFirst(c) \/ ExpireFirst(c)
             \/ ResetWindow(c)
      PROVE  UNCHANGED fvars
  BY <1>3, Zenon
  DEF Resend, GetFirst, DelCount, DelFirst, Incr, ExpireCount, SetFirst,
      ExpireFirst, ResetWindow
<1>4. CASE UNCHANGED gvars
  BY <1>4 DEF gvars
<1> QED BY <1>1, <1>2, <1>3, <1>4, GraceSteps, Zenon

\* The grace system uses the fail-open client as the client is meant to be
\* used: every behaviour of its calls is one of FailOpen's.
THEOREM GraceCallsFailOpen == GraceSpec => FailOpenInit /\ [][FailOpenNext]_fvars
<1>1. GraceInit => FailOpenInit
  BY DEF GraceInit
<1> QED BY <1>1, GraceStepsFailOpen, PTL DEF GraceSpec

\* So the client degrades only in an outage, and is never called before it was
\* made, when what is called is an evaluation of the grace system, too.
THEOREM GraceOutageTheorem ==
  GraceSpec => [](DegradedOnlyByOutage /\ NoCallOnNilClient)
<1>1. Blameless => DegradedOnlyByOutage /\ NoCallOnNilClient
  BY DEF Blameless, DegradedOnlyByOutage, NoCallOnNilClient
<1>2. FailOpenInit => FailOpenTypeOK /\ Blameless
  BY FailOpenTypeInit, BlamelessInit
<1>3. FailOpenTypeOK /\ Blameless /\ [FailOpenNext]_fvars
        => FailOpenTypeOK' /\ Blameless'
  BY FailOpenTypeNext, BlamelessNext
<1> QED BY <1>1, <1>2, <1>3, GraceCallsFailOpen, PTL

-----------------------------------------------------------------------------
\* The steps an evaluation has before it, whatever Redis and the connections do:
\* in the pipeline of a call, after it, and in all.
CmdLeft ==
  [get |-> 5, decide |-> 4, delCount |-> 3, delFirst |-> 2,
   incr |-> 5, expireCount |-> 4, setFirst |-> 3, expireFirst |-> 2,
   reply |-> 1, none |-> 0]

CallLeft(c, commands) ==
  CASE call[c] = "inner" -> 3 + commands
    [] call[c] = "ping"  -> 3
    [] call[c] = "store" -> 2
    [] OTHER             -> 1

ChargeLeft == 5 * MaxRetries + 9

EvaluationLeft(c) ==
  CASE phase[c] = "idle"  -> 0
    [] phase[c] = "check" ->
         ChargeLeft
           + CallLeft(c, 3 * (MaxRetries - local[c].tries) + CmdLeft[cmd[c]])
    [] OTHER              ->
         IF call[c] = "idle" THEN ChargeLeft
         ELSE CallLeft(c, 5 * (MaxRetries - local[c].tries) + CmdLeft[cmd[c]])

Idles(c) == UNCHANGED <<phase[c], cmd[c], call[c], local[c]>>

\* Every step of an evaluation brings it nearer to its end; no step of anybody
\* else, no outage and no second that passes sends it back.
EvaluationGoesOn ==
  [][\A c \in Callers :
       phase[c] # "idle" =>
         Idles(c) \/ EvaluationLeft(c)' < EvaluationLeft(c)]_gvars

\* Which command belongs to which call.
Placed(c) ==
  /\ phase[c] = "idle" => call[c] = "idle"
  /\ phase[c] = "check" =>
       /\ call[c] # "idle"
       /\ call[c] = "inner" => cmd[c] \in {"get", "decide", "delCount",
                                           "delFirst", "reply"}
  /\ phase[c] = "charge" =>
       /\ call[c] = "idle" => cmd[c] = "none"
       /\ call[c] = "inner" => cmd[c] \in {"incr", "expireCount", "setFirst",
                                           "expireFirst", "reply"}

LEMMA CmdLeftValues ==
  /\ CmdLeft["get"] = 5 /\ CmdLeft["decide"] = 4
  /\ CmdLeft["delCount"] = 3 /\ CmdLeft["delFirst"] = 2
  /\ CmdLeft["incr"] = 5 /\ CmdLeft["expireCount"] = 4
  /\ CmdLeft["setFirst"] = 3 /\ CmdLeft["expireFirst"] = 2
  /\ CmdLeft["reply"] = 1 /\ CmdLeft["none"] = 0
  BY DEF CmdLeft

LEMMA OwnStep ==
  ASSUME GraceTypeOK, NEW c \in Callers, Placed(c),
         \/ BeginEvaluate(c) \/ BeginIncrement(c) \/ Resend(c)
         \/ EndEvaluate(c)
         \/ GetFirst(c) \/ DelCount(c) \/ DelFirst(c)
         \/ Incr(c) \/ ExpireCount(c) \/ SetFirst(c) \/ ExpireFirst(c)
         \/ KeepWindow(c) \/ ResetWindow(c) \/ ResetReply(c) \/ ResetLost(c)
         \/ CheckReturns(c) \/ Reply(c) \/ CallFails(c) \/ HandleError(c)
  PROVE  /\ Placed(c)'
         /\ phase[c] # "idle" => EvaluationLeft(c)' < EvaluationLeft(c)
<1>1. /\ call \in [Callers -> CallStates] /\ phase \in [Callers -> {"idle", "check", "charge"}]
      /\ local[c] \in CallLocals /\ local \in [Callers -> CallLocals]
      /\ cmd \in [Callers -> {"none", "get", "decide", "delCount", "delFirst",
                              "incr", "expireCount", "setFirst", "expireFirst",
                              "reply"}]
  BY DEF GraceTypeOK, FailOpenTypeOK, CallLocals
<1>2. /\ MaxRetries \in Nat /\ local[c].tries \in Nat
      /\ local[c].tries <= MaxRetries
  BY <1>1, GraceAssumption DEF GraceAssumption, CallLocals
<1> USE CmdLeftValues
    DEF Placed, EvaluationLeft, CallLeft, ChargeLeft, CallStates, Goes, Then, At,
        Runs
<1>3. CASE BeginEvaluate(c)
  <2>1. /\ phase[c] = "idle" /\ phase'[c] = "check" /\ cmd'[c] = "get"
        /\ call'[c] \in {"inner", "defaulted"}
    BY <1>1, <1>3 DEF BeginEvaluate, Enter
  <2> QED BY <2>1
<1>4. CASE BeginIncrement(c)
  <2>1. /\ phase[c] = "charge" /\ call[c] = "idle"
        /\ call'[c] \in {"inner", "defaulted"} /\ phase'[c] = "charge"
        /\ cmd'[c] = "incr" /\ local'[c].tries = 0
    BY <1>1, <1>4 DEF BeginIncrement, Enter, NoLocals
  <2> QED BY <1>2, <2>1
<1>5. CASE Resend(c)
  <2>1. /\ call[c] = "inner" /\ UNCHANGED <<call, phase>>
        /\ local'[c].tries = local[c].tries + 1
        /\ local[c].tries < MaxRetries
        /\ \/ /\ phase[c] = "charge" /\ cmd'[c] = "incr"
           \/ /\ phase[c] = "check" /\ cmd'[c] = "delCount"
              /\ cmd[c] \in {"delCount", "delFirst", "reply"}
    BY <1>1, <1>5 DEF Resend, Resetting, MayResend, fvars, CallLocals
  <2> QED BY <1>2, <2>1
<1>6. CASE EndEvaluate(c)
  <2>1. /\ phase[c] = "charge" /\ call[c] \in {"answered", "defaulted"}
        /\ call'[c] = "idle" /\ phase'[c] = "idle"
    BY <1>1, <1>6 DEF EndEvaluate, Return
  <2> QED BY <2>1
<1>7. CASE GetFirst(c) \/ ResetWindow(c) \/ DelCount(c) \/ DelFirst(c)
  <2>1. /\ phase[c] = "check" /\ call[c] = "inner"
        /\ call'[c] = "inner" /\ phase'[c] = "check"
        /\ local'[c].tries = local[c].tries
        /\ \/ cmd[c] = "get" /\ cmd'[c] = "decide"
           \/ cmd[c] = "decide" /\ cmd'[c] = "delCount"
           \/ cmd[c] = "delCount" /\ cmd'[c] = "delFirst"
           \/ cmd[c] = "delFirst" /\ cmd'[c] = "reply"
    BY <1>1, <1>7 DEF GetFirst, ResetWindow, DelCount, DelFirst, fvars, CallLocals
  <2> QED BY <1>2, <2>1
<1>8. CASE KeepWindow(c) \/ ResetReply(c) \/ ResetLost(c)
  <2>1. /\ phase[c] = "check" /\ call[c] = "inner"
        /\ call'[c] = "answered" /\ phase'[c] = "check"
        /\ cmd[c] \in {"get", "decide", "delCount", "delFirst", "reply"}
    BY <1>1, <1>8
    DEF KeepWindow, ResetReply, ResetLost, LoseReset, Resetting, InnerOk
  <2> QED BY <1>2, <2>1
<1>9. CASE CheckReturns(c)
  <2>1. /\ phase[c] = "check" /\ call[c] \in {"answered", "defaulted"}
        /\ call'[c] = "idle" /\ phase'[c] = "charge" /\ cmd'[c] = "none"
    BY <1>1, <1>9 DEF CheckReturns, Return
  <2> QED BY <1>2, <2>1
<1>10. CASE Incr(c) \/ ExpireCount(c) \/ SetFirst(c) \/ ExpireFirst(c)
  <2>1. /\ phase[c] = "charge" /\ call[c] = "inner"
        /\ call'[c] = "inner" /\ phase'[c] = "charge"
        /\ local'[c].tries = local[c].tries
        /\ \/ cmd[c] = "incr" /\ cmd'[c] = "expireCount"
           \/ cmd[c] = "expireCount" /\ cmd'[c] = "setFirst"
           \/ cmd[c] = "setFirst" /\ cmd'[c] = "expireFirst"
           \/ cmd[c] = "expireFirst" /\ cmd'[c] = "reply"
    BY <1>1, <1>10 DEF Incr, ExpireCount, SetFirst, ExpireFirst, fvars, CallLocals
  <2> QED BY <1>2, <2>1
<1>11. CASE Reply(c)
  <2>1. /\ phase[c] = "charge" /\ call[c] = "inner"
        /\ call'[c] = "answered" /\ phase'[c] = "charge"
    BY <1>1, <1>11 DEF Reply, InnerOk
  <2> QED BY <1>2, <2>1
<1>12. CASE CallFails(c)
  <2>1. /\ phase[c] \in {"check", "charge"} /\ call[c] = "inner"
        /\ call'[c] = "ping" /\ phase'[c] = phase[c] /\ local' = local
    BY <1>1, <1>12 DEF CallFails, FailCall, InnerFail, AfterError
  <2> QED BY <1>2, <2>1
<1>13. CASE HandleError(c)
  <2>1. /\ phase[c] \in {"check", "charge"}
        /\ phase'[c] = phase[c] /\ UNCHANGED <<cmd, local>>
        /\ \/ call[c] = "ping" /\ call'[c] \in {"store", "defaulted"}
           \/ call[c] = "store" /\ call'[c] = "defaulted"
    BY <1>1, <1>13
    DEF HandleError, PingOk, PingFail, AfterFailedPing, MarkUnavailable
  <2> QED BY <1>2, <2>1
<1> QED BY <1>3, <1>4, <1>5, <1>6, <1>7, <1>8, <1>9, <1>10, <1>11, <1>12, <1>13

\* A step of another evaluation, or of none.
LEMMA OthersIdle ==
  ASSUME GraceTypeOK, NEW c \in Callers,
         \/ Environment \/ UNCHANGED gvars
         \/ \E d \in Callers \ {c} :
              \/ BeginEvaluate(d) \/ BeginIncrement(d) \/ Resend(d)
              \/ EndEvaluate(d)
              \/ GetFirst(d) \/ DelCount(d) \/ DelFirst(d)
              \/ Incr(d) \/ ExpireCount(d) \/ SetFirst(d) \/ ExpireFirst(d)
              \/ KeepWindow(d) \/ ResetWindow(d) \/ ResetReply(d) \/ ResetLost(d)
              \/ CheckReturns(d) \/ Reply(d) \/ CallFails(d) \/ HandleError(d)
  PROVE  Idles(c)
<1> USE DEF Idles, GraceTypeOK, FailOpenTypeOK
<1>1. CASE Environment \/ UNCHANGED gvars
  BY <1>1
  DEF Environment, Tick, KeysExpire, Expire, RedisDown, RedisRecovers, gvars, fvars
<1>2. ASSUME NEW d \in Callers \ {c},
             \/ BeginEvaluate(d) \/ BeginIncrement(d) \/ Resend(d)
             \/ EndEvaluate(d) \/ CheckReturns(d) \/ Reply(d)
      PROVE  Idles(c)
  BY <1>2
  DEF BeginEvaluate, BeginIncrement, Resend, EndEvaluate, CheckReturns, Reply,
      Enter, Return, InnerOk, Goes, Then, fvars
<1>3. ASSUME NEW d \in Callers \ {c},
             \/ GetFirst(d) \/ DelCount(d) \/ DelFirst(d)
             \/ Incr(d) \/ ExpireCount(d) \/ SetFirst(d) \/ ExpireFirst(d)
      PROVE  Idles(c)
  BY <1>3
  DEF GetFirst, DelCount, DelFirst, Incr, ExpireCount, SetFirst, ExpireFirst,
      Then, fvars
<1>4. ASSUME NEW d \in Callers \ {c},
             \/ KeepWindow(d) \/ ResetWindow(d) \/ ResetReply(d) \/ ResetLost(d)
             \/ CallFails(d) \/ HandleError(d)
      PROVE  Idles(c)
  BY <1>4
  DEF KeepWindow, ResetWindow, ResetReply, ResetLost, LoseReset, CallFails, FailCall,
      HandleError, PingOk, PingFail, MarkUnavailable, InnerOk, InnerFail, Goes,
      Then, fvars
<1> QED BY <1>1, <1>2, <1>3, <1>4

LEMMA EvaluationStepForward ==
  ASSUME GraceTypeOK, [GraceNext]_gvars, NEW c \in Callers, Placed(c)
  PROVE  /\ Placed(c)'
         /\ phase[c] # "idle" =>
              Idles(c) \/ EvaluationLeft(c)' < EvaluationLeft(c)
<1>1. ASSUME Idles(c) PROVE Placed(c)'
  BY <1>1 DEF Idles, Placed
<1>2. CASE Environment \/ UNCHANGED gvars
  BY <1>1, <1>2, OthersIdle
<1>3. ASSUME NEW d \in Callers,
             \/ BeginEvaluate(d) \/ BeginIncrement(d) \/ Resend(d)
             \/ EndEvaluate(d)
             \/ GetFirst(d) \/ DelCount(d) \/ DelFirst(d)
             \/ Incr(d) \/ ExpireCount(d) \/ SetFirst(d) \/ ExpireFirst(d)
             \/ KeepWindow(d) \/ ResetWindow(d) \/ ResetReply(d) \/ ResetLost(d)
             \/ CheckReturns(d) \/ Reply(d) \/ CallFails(d) \/ HandleError(d)
      PROVE  /\ Placed(c)'
             /\ phase[c] # "idle" =>
                  Idles(c) \/ EvaluationLeft(c)' < EvaluationLeft(c)
  <2>1. CASE d = c
    BY <1>3, <2>1, OwnStep
  <2>2. CASE d # c
    <3>1. Idles(c)
      BY <1>3, <2>2, OthersIdle
    <3> QED BY <1>1, <3>1
  <2> QED BY <2>1, <2>2
<1> QED BY <1>2, <1>3, GraceSteps, Zenon

\* Evaluate takes at most 8 * MaxRetries + 17 steps, whichever calls fail, are
\* sent again or race: what is left of EvaluateReturns without fairness.
THEOREM EvaluationTheorem ==
  GraceSpec =>
    /\ [](\A c \in Callers : EvaluationLeft(c) \in 0 .. 8 * MaxRetries + 17)
    /\ EvaluationGoesOn
<1> DEFINE Inv == GraceTypeOK /\ \A c \in Callers : Placed(c)
<1>1. GraceInit => Inv
  BY GraceTypeInit DEF GraceInit, FailOpenInit, Placed
<1>2. Inv /\ [GraceNext]_gvars => Inv'
  BY GraceTypeNext, EvaluationStepForward
<1>3. Inv => \A c \in Callers : EvaluationLeft(c) \in 0 .. 8 * MaxRetries + 17
  <2> SUFFICES ASSUME Inv, NEW c \in Callers
               PROVE  EvaluationLeft(c) \in 0 .. 8 * MaxRetries + 17
    OBVIOUS
  <2>1. /\ MaxRetries \in Nat /\ local[c].tries \in Nat
        /\ local[c].tries <= MaxRetries
    BY GraceAssumption DEF GraceAssumption, GraceTypeOK
  <2>2. Placed(c) /\ phase[c] \in {"idle", "check", "charge"}
    BY DEF GraceTypeOK
  <2>3. /\ phase[c] = "check" /\ call[c] = "inner" => CmdLeft[cmd[c]] \in 1 .. 5
        /\ phase[c] = "charge" /\ call[c] = "inner" => CmdLeft[cmd[c]] \in 1 .. 5
    BY <2>2, CmdLeftValues DEF Placed
  <2>4. CASE phase[c] = "idle"
    BY <2>1, <2>4 DEF EvaluationLeft
  <2>5. CASE phase[c] = "check"
    <3>1. 3 * (MaxRetries - local[c].tries) \in 0 .. 3 * MaxRetries
      BY <2>1
    <3>2. CallLeft(c, 3 * (MaxRetries - local[c].tries) + CmdLeft[cmd[c]])
            \in 1 .. 3 * MaxRetries + 8
      BY <2>1, <2>3, <2>5, <3>1 DEF CallLeft
    <3> QED BY <2>1, <2>5, <3>2 DEF EvaluationLeft, ChargeLeft
  <2>6. CASE phase[c] = "charge"
    <3>1. 5 * (MaxRetries - local[c].tries) \in 0 .. 5 * MaxRetries
      BY <2>1
    <3>2. CallLeft(c, 5 * (MaxRetries - local[c].tries) + CmdLeft[cmd[c]])
            \in 1 .. 5 * MaxRetries + 8
      BY <2>1, <2>3, <2>6, <3>1 DEF CallLeft
    <3> QED BY <2>1, <2>6, <3>2 DEF EvaluationLeft, ChargeLeft
  <2> QED BY <2>2, <2>4, <2>5, <2>6
<1>4. Inv /\ [GraceNext]_gvars =>
        [\A c \in Callers :
           phase[c] # "idle" =>
             Idles(c) \/ EvaluationLeft(c)' < EvaluationLeft(c)]_gvars
  BY EvaluationStepForward
<1> HIDE DEF Inv
<1> QED BY <1>1, <1>2, <1>3, <1>4, PTL DEF GraceSpec, EvaluationGoesOn

-----------------------------------------------------------------------------
\* Where StrikesExpire holds: connections do not fail, and no call is so slow,
\* and no TTL so late, that the clock moves inside an evaluation.
Reliable == MaxOutages = 0 /\ Unlucky = {} /\ ~TTLsRace /\ ~SlowCalls

\* No strike, or the first of them is of this second.
Fresh == strikes = <<>> \/ strikes[1] = now

\* The first strike still counts against the user.
Recent == strikes # <<>> => now - strikes[1] <= W

\* The evaluation will leave :first set.
Opening(c) ==
  \/ phase[c] = "check"
  \/ phase[c] = "charge" /\ cmd[c] = "none" /\ call[c] = "idle"
  \/ phase[c] = "charge" /\ cmd[c] \in {"incr", "expireCount", "setFirst"}

\* It has seen to it that the window is not over.
Checked(c) ==
  \/ phase[c] = "charge"
  \/ phase[c] = "check" /\ cmd[c] = "decide" /\ ~WindowOver(c)
  \/ phase[c] = "check" /\ cmd[c] \in {"none", "delFirst", "reply"}

\* It is between the commands that set the keys and their TTLs.
Writing(c) == cmd[c] \in {"expireCount", "setFirst", "expireFirst"}

CallInv(c) ==
  /\ call[c] \in {"idle", "inner", "answered"}
  /\ phase[c] = "idle" => cmd[c] = "none" /\ call[c] = "idle"
  /\ cmd[c] \in {"get", "decide", "delCount", "delFirst"} =>
       phase[c] = "check" /\ call[c] = "inner"
  /\ Writing(c) \/ cmd[c] = "incr" => phase[c] = "charge" /\ call[c] = "inner"
  /\ cmd[c] = "reply" => phase[c] # "idle" /\ call[c] = "inner"
  /\ Writing(c) \/ cmd[c] = "incr" => local[c].stamp = now
  /\ cmd[c] = "delFirst" => Fresh
  /\ Checked(c) => Recent

\* How the two keys and their TTLs go together.  :first may be older than the
\* first strike and may be gone, but a strike of an earlier second has it.
KeysInv ==
  /\ first <= now
  /\ strikes # <<>> =>
       /\ strikes[1] <= now
       /\ strikes[1] < now => first # 0
       /\ first # 0 => first <= strikes[1]
       /\ first # 0 \/ \E c \in Callers : Opening(c)
       /\ countUntil <= now + W \/ \E c \in Callers : cmd[c] = "expireCount"
       /\ first # 0 => countUntil <= firstUntil \/ \E c \in Callers : Writing(c)

\* Redis was there from the start, and no ping fails.
Healthy ==
  /\ redisUp /\ inner /\ available
  /\ \A p \in Pingers : probe[p] # "failed"

QuickInv ==
  /\ GraceTypeOK
  /\ Healthy
  /\ \A c \in Callers : CallInv(c)
  /\ KeysInv

LEMMA QuickInit ==
  ASSUME Reliable, GraceInit
  PROVE  GraceTypeOK => QuickInv
<1>1. /\ strikes = <<>> /\ first = 0 /\ now = 1
      /\ phase = [c \in Callers |-> "idle"]
      /\ cmd = [c \in Callers |-> "none"]
      /\ call = [c \in Callers |-> "idle"]
      /\ probe = [p \in Pingers |-> "none"]
      /\ redisUp \in BOOLEAN /\ outages = (IF redisUp THEN 0 ELSE 1)
      /\ outages <= MaxOutages /\ inner = redisUp /\ available = redisUp
  BY DEF GraceInit, FailOpenInit
<1>2. redisUp
  BY <1>1 DEF Reliable
<1> QED BY <1>1, <1>2 DEF QuickInv, Healthy, KeysInv, CallInv, Checked, Writing

\* The steps of such an evaluation.
Step(c) ==
  \/ BeginEvaluate(c) \/ BeginIncrement(c) \/ EndEvaluate(c)
  \/ GetFirst(c) \/ DelCount(c) \/ DelFirst(c)
  \/ Incr(c) \/ ExpireCount(c) \/ SetFirst(c) \/ ExpireFirst(c)
  \/ KeepWindow(c) \/ ResetWindow(c) \/ ResetReply(c) \/ CheckReturns(c)
  \/ Reply(c)

LEMMA ReliableSteps ==
  ASSUME Reliable, QuickInv, [GraceNext]_gvars
  PROVE  \/ Tick \/ KeysExpire
         \/ \E c \in Callers : Step(c)
         \/ UNCHANGED gvars
<1>1. ~RedisDown /\ ~RedisRecovers
  BY DEF QuickInv, GraceTypeOK, FailOpenTypeOK, Healthy, Reliable, RedisDown,
         RedisRecovers
<1>2. ASSUME NEW c \in Callers
      PROVE  ~Resend(c) /\ ~ResetLost(c) /\ ~CallFails(c)
  BY DEF Reliable, QuickInv, Healthy, MayFail, Resend, ResetLost, CallFails
<1>3. ASSUME NEW c \in Callers
      PROVE  ~HandleError(c)
  BY DEF QuickInv, CallInv, HandleError, PingOk, PingFail, MarkUnavailable, Goes
<1> QED BY <1>1, <1>2, <1>3, GraceSteps, Zenon DEF Environment, Step

\* A step of an evaluation takes no time: what is fresh stays fresh, what is
\* recent recent.
LEMMA FreshStays ==
  ASSUME GraceTypeOK, NEW c \in Callers, Step(c)
  PROVE  /\ now' = now
         /\ Fresh => Fresh'
         /\ Recent => Recent'
<1>1. now' = now
  BY DEF Step, BeginEvaluate, BeginIncrement, EndEvaluate, GetFirst, DelCount,
         DelFirst, Incr, ExpireCount, SetFirst, ExpireFirst, KeepWindow,
         ResetWindow, ResetReply, CheckReturns, Reply
<1>2. \/ UNCHANGED strikes
      \/ strikes' = <<>>
      \/ strikes' = Append(strikes, now)
  BY DEF Step, BeginEvaluate, BeginIncrement, EndEvaluate, GetFirst, DelCount,
         DelFirst, Incr, ExpireCount, SetFirst, ExpireFirst, KeepWindow,
         ResetWindow, ResetReply, CheckReturns, Reply, keys
<1>3. strikes \in Seq(1 .. MaxTime) /\ now \in 1 .. MaxTime /\ W \in Nat
  BY GraceAssumption DEF GraceTypeOK, GraceAssumption
<1>4. ASSUME strikes' = Append(strikes, now)
      PROVE  strikes'[1] = IF strikes = <<>> THEN now ELSE strikes[1]
  BY <1>3, <1>4
<1> QED BY <1>1, <1>2, <1>3, <1>4 DEF Fresh, Recent

\* And it is of no concern to the other evaluations.
LEMMA OtherCalls ==
  ASSUME QuickInv, NEW c \in Callers, Step(c), NEW d \in Callers \ {c}
  PROVE  /\ CallInv(d)'
         /\ Opening(d) => Opening(d)'
         /\ cmd'[d] = cmd[d] /\ (Writing(d) => Writing(d)')
<1>1. GraceTypeOK /\ CallInv(d)
  BY DEF QuickInv
<1>2. /\ phase'[d] = phase[d] /\ call'[d] = call[d] /\ cmd'[d] = cmd[d]
      /\ local'[d] = local[d]
  BY <1>1
  DEF Step, BeginEvaluate, BeginIncrement, EndEvaluate, GetFirst, DelCount,
      DelFirst, Incr, ExpireCount, SetFirst, ExpireFirst, KeepWindow,
      ResetWindow, ResetReply, CheckReturns, Reply, GraceTypeOK, FailOpenTypeOK, Goes, Then,
      Enter, InnerOk, Return, fvars
<1>3. now' = now /\ (Fresh => Fresh') /\ (Recent => Recent')
  BY <1>1, FreshStays
<1> QED BY <1>1, <1>2, <1>3 DEF CallInv, Opening, Checked, Writing, WindowOver

LEMMA KeyNumbers ==
  ASSUME GraceTypeOK
  PROVE  /\ strikes \in Seq(1 .. MaxTime) /\ now \in Nat /\ now >= 1 /\ W \in Nat
         /\ first \in Nat /\ countUntil \in Nat /\ firstUntil \in Nat
         /\ strikes # <<>> => strikes[1] \in Nat
  BY GraceAssumption DEF GraceTypeOK, GraceAssumption, NoTTL

\* The steps that touch no key.
LEMMA QuietStep ==
  ASSUME QuickInv, NEW c \in Callers,
         \/ BeginEvaluate(c) \/ BeginIncrement(c) \/ EndEvaluate(c)
         \/ GetFirst(c) \/ KeepWindow(c) \/ ResetWindow(c) \/ ResetReply(c)
         \/ CheckReturns(c) \/ Reply(c)
  PROVE  CallInv(c)' /\ KeysInv'
<1>1. /\ GraceTypeOK /\ Healthy /\ CallInv(c) /\ KeysInv
      /\ now' = now /\ (Fresh => Fresh') /\ (Recent => Recent')
  BY FreshStays DEF QuickInv, Step
<1>0. now <= first + W \/ first = 0 => Recent
  BY <1>1, KeyNumbers DEF KeysInv, Recent
<1>2. UNCHANGED keys
  BY DEF BeginEvaluate, BeginIncrement, EndEvaluate, GetFirst, KeepWindow,
         ResetWindow, ResetReply, CheckReturns, Reply
<1> USE DEF GraceTypeOK, FailOpenTypeOK, Goes, Then, At, Runs, fvars, CallInv,
            Checked, Opening, Writing
<1>3. CallInv(c)' /\ ~Writing(c) /\ (Opening(c) => Opening(c)')
  <2>1. CASE BeginEvaluate(c)
    BY <1>1, <2>1 DEF BeginEvaluate, Enter, Healthy
  <2>2. CASE BeginIncrement(c)
    <3>1. local'[c].stamp = now
      BY <1>1, <2>2 DEF BeginIncrement, NoLocals
    <3> QED BY <1>1, <2>2, <3>1 DEF BeginIncrement, Enter, Healthy
  <2>3. CASE EndEvaluate(c)
    BY <1>1, <2>3 DEF EndEvaluate, Return
  <2>4. CASE GetFirst(c)
    <3>1. /\ phase'[c] = "check" /\ cmd'[c] = "decide" /\ call'[c] = "inner"
          /\ local'[c].seen = first /\ phase[c] = "check"
          /\ cmd[c] = "get" /\ call[c] = "inner"
      BY <1>1, <2>4 DEF GetFirst
    <3>3. Checked(c)' => Recent'
      BY <1>1, <1>0, <3>1, GraceAssumption DEF WindowOver, GraceAssumption
    <3> HIDE DEF Checked
    <3> QED BY <3>1, <3>3
  <2>5. CASE KeepWindow(c)
    BY <1>1, <2>5 DEF KeepWindow, InnerOk
  <2>6. CASE ResetWindow(c)
    BY <1>1, <2>6 DEF ResetWindow
  <2>7. CASE CheckReturns(c)
    <3>1. cmd[c] = "none" /\ Recent
      BY <1>1, <2>7 DEF CheckReturns, Return
    <3> QED BY <1>1, <2>7, <3>1 DEF CheckReturns, Return
  <2>8. CASE Reply(c) \/ ResetReply(c)
    BY <1>1, <2>8 DEF Reply, ResetReply, InnerOk
  <2> QED BY <2>1, <2>2, <2>3, <2>4, <2>5, <2>6, <2>7, <2>8
<1>4. \A d \in Callers :
        /\ Opening(d) => Opening(d)'
        /\ cmd[d] = "expireCount" => cmd'[d] = "expireCount"
        /\ Writing(d) => Writing(d)'
  BY <1>3, OtherCalls DEF Step
<1> HIDE DEF CallInv, Checked, Opening, Writing
<1>5. KeysInv'
  BY <1>1, <1>2, <1>4 DEF KeysInv, keys
<1> QED BY <1>3, <1>5

\* DEL of the counter, then of :first: the strikes of before are gone, and the
\* evaluation has yet to set :first again.
LEMMA DelStep ==
  ASSUME QuickInv, NEW c \in Callers, DelCount(c) \/ DelFirst(c)
  PROVE  CallInv(c)' /\ KeysInv'
<1>1. /\ GraceTypeOK /\ Healthy /\ CallInv(c) /\ KeysInv
      /\ now' = now /\ (Fresh => Fresh') /\ (Recent => Recent')
  BY FreshStays DEF QuickInv, Step
<1> USE DEF GraceTypeOK, FailOpenTypeOK, Goes, Then, At, Runs, fvars, CallInv,
            Checked, Opening, Writing
<1>2. CASE DelCount(c)
  <2>1. strikes' = <<>> /\ UNCHANGED first
    BY <1>2 DEF DelCount
  <2>2. KeysInv'
    BY <1>1, <2>1 DEF KeysInv
  <2>3. CallInv(c)'
    BY <1>1, <1>2, <2>1 DEF DelCount, Recent, Fresh
  <2> QED BY <2>2, <2>3
<1>3. CASE DelFirst(c)
  <2>1. /\ first' = 0 /\ UNCHANGED <<strikes, countUntil, firstUntil>>
        /\ phase[c] = "check" /\ cmd[c] = "delFirst"
        /\ UNCHANGED phase /\ cmd'[c] = "reply"
    BY <1>1, <1>3 DEF DelFirst
  <2>2. Fresh /\ Opening(c)'
    BY <1>1, <2>1
  <2>3. \A d \in Callers : cmd[d] = "expireCount" => cmd'[d] = "expireCount"
    BY <1>3, <2>1, OtherCalls DEF Step
  <2>4. CallInv(c)'
    BY <1>1, <1>3, <2>1 DEF DelFirst
  <2> HIDE DEF CallInv, Checked, Opening, Writing, GraceTypeOK, FailOpenTypeOK,
               Goes, Then, At, Runs, fvars
  <2>5. strikes' # <<>> => strikes'[1] = now /\ now' = now
    BY <1>1, <2>1, <2>2 DEF Fresh
  <2>6. KeysInv'
    BY <1>1, <2>1, <2>2, <2>3, <2>5, KeyNumbers DEF KeysInv
  <2> QED BY <2>4, <2>6
<1> QED BY <1>2, <1>3

\* The pipeline of IncrementViolation.
LEMMA PipelineStep ==
  ASSUME QuickInv, NEW c \in Callers,
         Incr(c) \/ ExpireCount(c) \/ SetFirst(c) \/ ExpireFirst(c)
  PROVE  CallInv(c)' /\ KeysInv'
<1>1. /\ GraceTypeOK /\ Healthy /\ CallInv(c) /\ KeysInv
      /\ now' = now /\ (Fresh => Fresh') /\ (Recent => Recent')
  BY FreshStays DEF QuickInv, Step
<1>2. /\ strikes \in Seq(1 .. MaxTime) /\ now \in Nat /\ now >= 1 /\ W \in Nat
      /\ first \in Nat /\ countUntil \in Nat /\ firstUntil \in Nat
      /\ strikes # <<>> => strikes[1] \in Nat
  BY <1>1, KeyNumbers
<1>3. \A d \in Callers \ {c} :
        /\ Opening(d) => Opening(d)'
        /\ cmd[d] = "expireCount" => cmd'[d] = "expireCount"
        /\ Writing(d) => Writing(d)'
  BY OtherCalls DEF Step
<1>4. CallInv(c)'
  <2> USE DEF GraceTypeOK, Then, At, Runs, fvars, CallInv, Checked, Writing
  <2>1. Recent
    BY <1>1 DEF Incr, ExpireCount, SetFirst, ExpireFirst
  <2>2. CASE Incr(c)
    <3>1. local'[c].stamp = local[c].stamp
      BY <1>1, <2>2 DEF Incr
    <3> QED BY <1>1, <2>1, <2>2, <3>1 DEF Incr
  <2>3. CASE ExpireCount(c) \/ SetFirst(c) \/ ExpireFirst(c)
    BY <1>1, <2>1, <2>3 DEF ExpireCount, SetFirst, ExpireFirst
  <2> QED BY <2>2, <2>3
<1>5. CASE Incr(c)
  <2>1. /\ strikes' = Append(strikes, now) /\ UNCHANGED <<first, firstUntil>>
        /\ strikes # <<>> => UNCHANGED countUntil
        /\ cmd'[c] = "expireCount" /\ phase'[c] = "charge"
    BY <1>1, <1>5 DEF Incr, Then, Runs, At, GraceTypeOK
  <2>2. Opening(c)' /\ Writing(c)'
    BY <2>1 DEF Opening, Writing
  <2>3. strikes' # <<>> /\ strikes'[1] = IF strikes = <<>> THEN now ELSE strikes[1]
    BY <1>2, <2>1
  <2>4. KeysInv'
    BY <1>1, <1>2, <2>1, <2>2, <2>3 DEF KeysInv
  <2> QED BY <1>4, <2>4
<1>6. CASE ExpireCount(c)
  <2>1. /\ UNCHANGED <<strikes, first, firstUntil>>
        /\ strikes # <<>> => countUntil' = now + W
        /\ cmd'[c] = "setFirst" /\ phase'[c] = "charge"
    BY <1>1, <1>6 DEF ExpireCount, Renewed, Then, Runs, At, GraceTypeOK
  <2>2. Opening(c)' /\ Writing(c)'
    BY <2>1 DEF Opening, Writing
  <2>3. KeysInv'
    BY <1>1, <1>2, <2>1, <2>2 DEF KeysInv
  <2> QED BY <1>4, <2>3
<1>7. CASE SetFirst(c)
  <2>1. /\ UNCHANGED <<strikes, countUntil>>
        /\ first' = IF first = 0 THEN now ELSE first
        /\ cmd[c] = "setFirst" /\ cmd'[c] = "expireFirst"
    BY <1>1, <1>7 DEF SetFirst, Opened, CallInv, Writing, Then, Runs, At, GraceTypeOK
  <2>2. Writing(c)'
    BY <2>1 DEF Writing
  <2>3. KeysInv'
    <3>1. \A d \in Callers : cmd[d] = "expireCount" => cmd'[d] = "expireCount"
      BY <1>3, <2>1
    <3> QED BY <1>1, <1>2, <2>1, <2>2, <3>1 DEF KeysInv
  <2> QED BY <1>4, <2>3
<1>8. CASE ExpireFirst(c)
  <2>1. /\ UNCHANGED <<strikes, countUntil, first>>
        /\ first # 0 => firstUntil' = now + W
        /\ cmd[c] = "expireFirst" /\ ~Opening(c)
    BY <1>1, <1>8 DEF ExpireFirst, Renewed, Opening, CallInv, Writing, Runs, At
  <2>2. \A d \in Callers :
          /\ Opening(d) => Opening(d)'
          /\ cmd[d] = "expireCount" => cmd'[d] = "expireCount" /\ Writing(d)'
    BY <1>3, <2>1 DEF Writing
  <2>3. KeysInv'
    BY <1>1, <1>2, <2>1, <2>2 DEF KeysInv
  <2> QED BY <1>4, <2>3
<1> QED BY <1>5, <1>6, <1>7, <1>8

\* The clock moves, and TTLs end, between evaluations.
LEMMA TimeStep ==
  ASSUME Reliable, QuickInv, Tick \/ KeysExpire
  PROVE  (\A c \in Callers : CallInv(c)') /\ KeysInv'
<1>1. /\ GraceTypeOK /\ KeysInv
      /\ UNCHANGED <<fvars, countUntil, firstUntil, phase, cmd, local>>
      /\ \A c \in Callers : CallInv(c)
  BY DEF QuickInv, Tick, KeysExpire, Expire, keys
<1>2. /\ strikes \in Seq(1 .. MaxTime) /\ now \in Nat /\ now >= 1 /\ W \in Nat
      /\ first \in Nat /\ countUntil \in Nat /\ firstUntil \in Nat
      /\ strikes # <<>> => strikes[1] \in Nat
  BY <1>1, KeyNumbers
<1>3. CASE Tick
  <2>1. /\ now' = now + 1 /\ UNCHANGED keys
        /\ \A c \in Callers : phase[c] = "idle"
    BY <1>3 DEF Tick, Reliable
  <2>2. \A c \in Callers : cmd[c] = "none"
    BY <1>1, <2>1 DEF CallInv
  <2>3. \A c \in Callers : CallInv(c)'
    BY <1>1, <2>1, <2>2 DEF CallInv, Checked, Writing, fvars
  <2>4. \A c \in Callers : ~Opening(c) /\ cmd[c] # "expireCount" /\ ~Writing(c)
    BY <2>1, <2>2 DEF Opening, Writing
  <2>5. KeysInv'
    BY <1>1, <1>2, <2>1, <2>4 DEF KeysInv, keys
  <2> QED BY <2>3, <2>5
<1>4. CASE KeysExpire
  <2>1. /\ \A c \in Callers : ~(phase[c] = "charge" /\ call[c] = "inner")
        /\ strikes' = IF CountOverdue THEN <<>> ELSE strikes
        /\ first' = IF FirstOverdue THEN 0 ELSE first
        /\ UNCHANGED now
    BY <1>4 DEF KeysExpire, Expire, Reliable
  <2>2. \A c \in Callers : ~Writing(c) /\ cmd[c] # "expireCount"
    BY <1>1, <2>1 DEF CallInv, Writing
  <2>3. strikes' # <<>> => strikes' = strikes /\ first' = first
    BY <1>1, <1>2, <2>1, <2>2 DEF KeysInv, CountOverdue, FirstOverdue
  <2>4. (Fresh => Fresh') /\ (Recent => Recent')
    BY <2>1 DEF Fresh, Recent
  <2>5. \A c \in Callers :
          /\ CallInv(c)'
          /\ Opening(c) => Opening(c)'
    BY <1>1, <2>1, <2>4
    DEF CallInv, Checked, Writing, Opening, WindowOver, fvars
  <2>6. KeysInv'
    BY <1>1, <1>2, <2>1, <2>2, <2>3, <2>5 DEF KeysInv
  <2> QED BY <2>5, <2>6
<1> QED BY <1>3, <1>4

LEMMA QuickNext ==
  ASSUME Reliable, QuickInv, [GraceNext]_gvars
  PROVE  QuickInv'
<1>1. /\ GraceTypeOK /\ Healthy /\ KeysInv
      /\ \A c \in Callers : CallInv(c)
  BY DEF QuickInv
<1>2. GraceTypeOK'
  BY <1>1, GraceTypeNext
<1>3. CASE Tick \/ KeysExpire
  <2>1. Healthy'
    BY <1>1, <1>3 DEF Tick, KeysExpire, Expire, fvars, Healthy
  <2> QED BY <1>2, <1>3, <2>1, TimeStep DEF QuickInv
<1>4. ASSUME NEW c \in Callers, Step(c)
      PROVE  QuickInv'
  <2>1. Healthy'
    BY <1>1, <1>4
    DEF Step, BeginEvaluate, BeginIncrement, EndEvaluate, GetFirst, DelCount,
        DelFirst, Incr, ExpireCount, SetFirst, ExpireFirst, KeepWindow,
        ResetWindow, ResetReply, CheckReturns, Reply, Healthy, Enter, InnerOk, Return, fvars
  <2>2. CallInv(c)' /\ KeysInv'
    BY <1>4, QuietStep, DelStep, PipelineStep DEF Step
  <2>3. \A d \in Callers : CallInv(d)'
    BY <1>4, <2>2, OtherCalls
  <2> QED BY <1>2, <2>1, <2>2, <2>3 DEF QuickInv
<1>5. CASE UNCHANGED gvars
  BY <1>1, <1>2, <1>5
  DEF gvars, fvars, keys, QuickInv, Healthy, CallInv, Checked, Writing, Opening,
      Fresh, Recent, WindowOver, KeysInv
<1> QED BY <1>3, <1>4, <1>5, ReliableSteps

\* Between the reset of a window and the increments that race with it strikes
\* may be lost; but an increment never finds a strike older than the window
\* (Evaluate resets, and the pipeline's EXPIREs let the two keys go together),
\* whatever the number of streams and the order of their commands.
THEOREM StrikesTheorem ==
  ASSUME Reliable
  PROVE  GraceSpec => []StrikesExpire
<1>1. GraceInit => GraceTypeOK
  BY GraceTypeInit
<1>2. GraceInit => QuickInv
  BY <1>1, QuickInit
<1>3. QuickInv /\ [GraceNext]_gvars => QuickInv'
  BY QuickNext
<1>4. QuickInv => StrikesExpire
  BY DEF QuickInv, CallInv, Writing, Checked, Recent, StrikesExpire
<1> QED BY <1>2, <1>3, <1>4, PTL DEF GraceSpec

-----------------------------------------------------------------------------
\* One evaluation at a time.  The window the keys describe is the one that the
\* first strike opened: :first is its time, and the keys live to its end.
SoleInv ==
  \A c \in Callers :
    /\ strikes # <<>> =>
         /\ first # 0 => first = strikes[1]
         /\ first # 0 /\ ~Writing(c) => firstUntil = countUntil
         /\ countUntil >= strikes[1] + W
         /\ cmd[c] \in {"setFirst", "expireFirst"} => countUntil = now + W
         /\ cmd[c] # "delFirst"
         /\ cmd[c] = "delCount" => now > strikes[1] + W
         /\ cmd[c] = "decide" /\ local[c].seen > 0 => local[c].seen = strikes[1]
    /\ strikes = <<>> =>
         /\ ~Writing(c)
         /\ cmd[c] # "delFirst" => first = 0

Sole == \E c : Callers = {c}

LEMMA SoleStep ==
  ASSUME QuickInv, NEW c, Callers = {c}, SoleInv, Step(c)
  PROVE  SoleInv'
<1>1. /\ GraceTypeOK /\ KeysInv /\ CallInv(c) /\ c \in Callers
      /\ now' = now
  BY FreshStays DEF QuickInv
<1>2. /\ strikes \in Seq(1 .. MaxTime) /\ now \in Nat /\ now >= 1 /\ W \in Nat
      /\ first \in Nat /\ countUntil \in Nat /\ firstUntil \in Nat
      /\ strikes # <<>> => strikes[1] \in Nat
  BY <1>1, KeyNumbers
<1> USE DEF GraceTypeOK, Then, At, Runs, keys, SoleInv, CallInv, Writing
<1>3. CASE \/ BeginEvaluate(c) \/ BeginIncrement(c) \/ EndEvaluate(c)
           \/ KeepWindow(c) \/ ResetReply(c) \/ CheckReturns(c) \/ Reply(c)
  <2>1. /\ UNCHANGED keys
        /\ cmd'[c] \in {"get", "incr", "none"}
        /\ cmd[c] # "delFirst" /\ ~Writing(c)
    BY <1>1, <1>3
    DEF BeginEvaluate, BeginIncrement, EndEvaluate, KeepWindow, ResetReply,
        CheckReturns, Reply, Enter, InnerOk, Return, Goes
  <2> QED BY <1>1, <1>2, <2>1
<1>4. CASE GetFirst(c)
  <2>1. /\ UNCHANGED keys /\ cmd[c] = "get" /\ cmd'[c] = "decide"
        /\ local'[c].seen = first
    BY <1>1, <1>4 DEF GetFirst
  <2> QED BY <1>1, <2>1
<1>5. CASE ResetWindow(c)
  <2>1. /\ UNCHANGED <<keys, local>> /\ cmd[c] = "decide" /\ cmd'[c] = "delCount"
        /\ local[c].seen > 0 /\ now > local[c].seen + W
    BY <1>1, <1>5 DEF ResetWindow, WindowOver
  <2> QED BY <1>1, <2>1
<1>6. CASE DelCount(c)
  <2>1. strikes' = <<>> /\ cmd'[c] = "delFirst"
    BY <1>1, <1>6 DEF DelCount
  <2> QED BY <1>1, <2>1
<1>7. CASE DelFirst(c)
  <2>1. /\ UNCHANGED <<strikes, countUntil>> /\ first' = 0
        /\ cmd[c] = "delFirst" /\ cmd'[c] = "reply"
    BY <1>1, <1>7 DEF DelFirst
  <2> QED BY <1>1, <2>1
<1>8. CASE Incr(c)
  <2>1. /\ strikes' = Append(strikes, now) /\ UNCHANGED <<first, firstUntil>>
        /\ countUntil' = IF strikes = <<>> THEN NoTTL ELSE countUntil
        /\ cmd[c] = "incr" /\ cmd'[c] = "expireCount"
    BY <1>1, <1>8 DEF Incr
  <2>2. strikes' # <<>> /\ strikes'[1] = IF strikes = <<>> THEN now ELSE strikes[1]
    BY <1>2, <2>1
  <2>3. NoTTL >= now + W
    BY <1>1, GraceAssumption DEF GraceAssumption, NoTTL
  <2> QED BY <1>1, <1>2, <2>1, <2>2, <2>3
<1>9. CASE ExpireCount(c)
  <2>1. /\ UNCHANGED <<strikes, first>> /\ cmd'[c] = "setFirst"
        /\ cmd[c] = "expireCount"
        /\ strikes # <<>> => countUntil' = now + W
    BY <1>1, <1>9 DEF ExpireCount, Renewed
  <2>2. strikes # <<>> => strikes[1] <= now
    BY <1>1 DEF KeysInv
  <2> QED BY <1>1, <1>2, <2>1, <2>2
<1>10. CASE SetFirst(c)
  <2>1. /\ UNCHANGED <<strikes, countUntil>> /\ cmd'[c] = "expireFirst"
        /\ cmd[c] = "setFirst"
        /\ first' = IF first = 0 THEN now ELSE first
    BY <1>1, <1>10 DEF SetFirst, Opened
  <2>2. /\ strikes # <<>> /\ first = 0 => strikes[1] = now
    BY <1>1, <1>2 DEF KeysInv
  <2>3. strikes # <<>>
    BY <1>1, <2>1
  <2> QED BY <1>1, <1>2, <2>1, <2>2, <2>3
<1>11. CASE ExpireFirst(c)
  <2>1. /\ UNCHANGED <<strikes, countUntil, first>> /\ cmd'[c] = "reply"
        /\ cmd[c] = "expireFirst"
        /\ first # 0 => firstUntil' = now + W
    BY <1>1, <1>11 DEF ExpireFirst, Renewed
  <2> QED BY <1>1, <1>2, <2>1
<1> QED BY <1>3, <1>4, <1>5, <1>6, <1>7, <1>8, <1>9, <1>10, <1>11 DEF Step

LEMMA SoleTime ==
  ASSUME Reliable, QuickInv, NEW c, Callers = {c}, SoleInv, Tick \/ KeysExpire
  PROVE  SoleInv'
<1>1. GraceTypeOK /\ KeysInv /\ CallInv(c) /\ UNCHANGED <<cmd, local>>
  BY DEF QuickInv, Tick, KeysExpire, Expire
<1>2. /\ strikes \in Seq(1 .. MaxTime) /\ now \in Nat /\ now >= 1 /\ W \in Nat
      /\ first \in Nat /\ countUntil \in Nat /\ firstUntil \in Nat
      /\ strikes # <<>> => strikes[1] \in Nat
  BY <1>1, KeyNumbers
<1>3. CASE Tick
  <2>1. UNCHANGED keys /\ phase[c] = "idle"
    BY <1>3 DEF Tick, Reliable
  <2>2. cmd[c] = "none" /\ cmd'[c] = "none"
    BY <1>1, <2>1 DEF CallInv
  <2> QED BY <1>1, <2>1, <2>2 DEF SoleInv, Writing, keys
<1>4. CASE KeysExpire
  <2>1. /\ ~(phase[c] = "charge" /\ call[c] = "inner")
        /\ strikes' = IF CountOverdue THEN <<>> ELSE strikes
        /\ first' = IF FirstOverdue THEN 0 ELSE first
        /\ UNCHANGED <<now, countUntil, firstUntil>>
    BY <1>4 DEF KeysExpire, Expire, Reliable
  <2>2. ~Writing(c)
    BY <1>1, <2>1 DEF CallInv, Writing
  <2> QED BY <1>1, <1>2, <2>1, <2>2
          DEF SoleInv, Writing, CountOverdue, FirstOverdue
<1> QED BY <1>3, <1>4

LEMMA SoleNext ==
  ASSUME Reliable, QuickInv, Sole, SoleInv, [GraceNext]_gvars
  PROVE  SoleInv'
<1>1. PICK c : Callers = {c}
  BY DEF Sole
<1>2. CASE \E d \in Callers : Step(d)
  BY <1>1, <1>2, SoleStep
<1>3. CASE Tick \/ KeysExpire
  BY <1>1, <1>3, SoleTime
<1>4. CASE UNCHANGED gvars
  BY <1>4 DEF gvars, keys, SoleInv, Writing
<1> QED BY <1>2, <1>3, <1>4, ReliableSteps

\* Every step is one of the abstract window, or none: INCR opens the window or
\* counts in it; DEL and expiry close it, and neither before its time.
LEMMA WindowStep ==
  ASSUME Reliable, QuickInv, Sole, SoleInv, [GraceNext]_gvars
  PROVE  [Window!Tick \/ Window!Open \/ Window!Count \/ Window!Close]_(Window!wvars)
<1>1. /\ GraceTypeOK /\ KeysInv
      /\ \A c \in Callers : CallInv(c)
  BY DEF QuickInv
<1>2. /\ strikes \in Seq(1 .. MaxTime) /\ now \in Nat /\ now >= 1 /\ W \in Nat
      /\ first \in Nat /\ countUntil \in Nat /\ firstUntil \in Nat
      /\ strikes # <<>> => strikes[1] \in Nat
  BY <1>1, KeyNumbers
<1>3. Len(strikes) \in Nat /\ (Len(strikes) = 0 <=> strikes = <<>>)
  BY <1>2
<1>4. ASSUME UNCHANGED <<now, strikes>>
      PROVE  UNCHANGED Window!wvars
  BY <1>4 DEF Window!wvars
<1>5. ASSUME UNCHANGED now, strikes' = <<>>,
             strikes # <<>> => now >= strikes[1] + W
      PROVE  Window!Close \/ UNCHANGED Window!wvars
  <2>1. Len(strikes') = 0
    BY <1>5
  <2> QED BY <1>3, <1>4, <1>5, <2>1 DEF Window!Close
<1>6. CASE Tick
  BY <1>6 DEF Tick, keys, Window!Tick
<1>7. CASE KeysExpire
  <2>1. /\ strikes' = IF CountOverdue THEN <<>> ELSE strikes
        /\ UNCHANGED now
    BY <1>7 DEF KeysExpire, Expire, Reliable
  <2>2. CountOverdue => now >= strikes[1] + W
    <3>1. strikes # <<>> => countUntil >= strikes[1] + W
      BY DEF Sole, SoleInv
    <3> QED BY <1>2, <3>1 DEF CountOverdue
  <2> QED BY <1>4, <1>5, <2>1, <2>2 DEF CountOverdue
<1>8. ASSUME NEW c \in Callers, Step(c)
      PROVE  \/ Window!Open \/ Window!Count \/ Window!Close
             \/ UNCHANGED Window!wvars
  <2>1. now' = now
    BY <1>1, <1>8, FreshStays
  <2>2. CASE Incr(c)
    <3>1. /\ strikes' = Append(strikes, now)
          /\ phase[c] = "charge"
      BY <2>2 DEF Incr, Runs, At
    <3>2. /\ Len(strikes') = Len(strikes) + 1 /\ strikes' # <<>>
          /\ strikes'[1] = IF strikes = <<>> THEN now ELSE strikes[1]
      BY <1>2, <3>1
    <3>3. Recent
      BY <1>1, <3>1 DEF CallInv, Checked
    <3>4. CASE strikes = <<>>
      BY <1>3, <2>1, <3>2, <3>4 DEF Window!Open
    <3>5. CASE strikes # <<>>
      BY <1>2, <1>3, <2>1, <3>2, <3>3, <3>5 DEF Window!Count, Recent
    <3> QED BY <3>4, <3>5
  <2>3. CASE DelCount(c)
    <3>1. strikes' = <<>> /\ cmd[c] = "delCount"
      BY <2>3 DEF DelCount, Runs, At
    <3>2. strikes # <<>> => now > strikes[1] + W
      BY <3>1 DEF SoleInv
    <3>3. strikes # <<>> => now >= strikes[1] + W
      BY <1>2, <3>2
    <3> QED BY <1>5, <2>1, <3>1, <3>3
  <2>4. CASE ~Incr(c) /\ ~DelCount(c)
    <3>1. UNCHANGED strikes
      BY <1>8, <2>4
      DEF Step, BeginEvaluate, BeginIncrement, EndEvaluate, GetFirst, DelFirst,
          ExpireCount, SetFirst, ExpireFirst, KeepWindow, ResetWindow,
          ResetReply, CheckReturns, Reply, keys
    <3> QED BY <1>4, <2>1, <3>1
  <2> QED BY <2>2, <2>3, <2>4
<1>9. CASE UNCHANGED gvars
  BY <1>4, <1>9 DEF gvars, keys
<1> QED BY <1>6, <1>7, <1>8, <1>9, ReliableSteps

\* While one stream of the user is evaluated at a time, the two keys, their TTLs
\* and the check of :first implement counting in windows.
THEOREM WindowTheorem ==
  ASSUME Reliable, Sole
  PROVE  GraceSpec => CountsInWindows
<1>1. GraceInit => QuickInv /\ SoleInv /\ Window!Init
  <2>1. GraceInit => QuickInv
    BY GraceTypeInit, QuickInit
  <2>2. GraceInit => SoleInv
    BY DEF GraceInit, SoleInv, Writing
  <2>3. GraceInit => Window!Init
    BY DEF GraceInit, Window!Init
  <2> QED BY <2>1, <2>2, <2>3
<1>2. QuickInv /\ SoleInv /\ [GraceNext]_gvars => QuickInv' /\ SoleInv'
  BY QuickNext, SoleNext
<1>3. QuickInv /\ SoleInv /\ [GraceNext]_gvars =>
        [Window!Tick \/ Window!Open \/ Window!Count \/ Window!Close]_(Window!wvars)
  BY WindowStep
<1> QED BY <1>1, <1>2, <1>3, PTL DEF GraceSpec, CountsInWindows, Window!WindowSpec
-----------------------------------------------------------------------------
\* INCR answered and its call has not ended yet.
HasCount(c) ==
  \/ Writing(c)
  \/ phase[c] = "charge" /\ (cmd[c] = "reply" \/ call[c] = "answered")

\* What the evaluation has counted is what the counter says, and its TTL is too
\* long for the counter to go before the evaluation ends.
CountInv(c) ==
  /\ HasCount(c) => strikes # <<>> /\ local[c].count = Len(strikes)
  /\ HasCount(c) /\ cmd[c] # "expireCount" => countUntil = now + W

LEMMA CountStep ==
  ASSUME QuickInv, NEW c, Callers = {c}, CountInv(c), Step(c)
  PROVE  CountInv(c)'
<1>1. /\ GraceTypeOK /\ CallInv(c) /\ c \in Callers
      /\ now' = now
  BY FreshStays DEF QuickInv
<1>2. /\ strikes \in Seq(1 .. MaxTime) /\ now \in Nat /\ W \in Nat
  BY <1>1, KeyNumbers
<1> USE DEF GraceTypeOK, FailOpenTypeOK, Then, At, Runs, keys, CountInv, HasCount,
            CallInv, Writing
<1>3. CASE \/ BeginEvaluate(c) \/ EndEvaluate(c) \/ GetFirst(c)
           \/ KeepWindow(c) \/ ResetWindow(c) \/ DelCount(c) \/ DelFirst(c)
           \/ ResetReply(c) \/ CheckReturns(c) \/ BeginIncrement(c)
  <2>1. ~HasCount(c)'
    BY <1>1, <1>3
    DEF BeginEvaluate, EndEvaluate, GetFirst, KeepWindow, ResetWindow, DelCount,
        DelFirst, ResetReply, CheckReturns, BeginIncrement, Enter, InnerOk, Return,
        Goes, fvars
  <2> QED BY <2>1
<1>4. CASE Incr(c)
  <2>1. /\ strikes' = Append(strikes, now)
        /\ local'[c].count = Len(strikes')
        /\ cmd'[c] = "expireCount"
    BY <1>1, <1>4 DEF Incr
  <2>2. strikes' # <<>>
    BY <1>2, <2>1
  <2> QED BY <2>1, <2>2
<1>5. CASE ExpireCount(c)
  <2>1. /\ UNCHANGED <<strikes, local>> /\ cmd[c] = "expireCount"
        /\ strikes # <<>> => countUntil' = now + W
    BY <1>1, <1>5 DEF ExpireCount, Renewed
  <2> QED BY <1>1, <2>1
<1>6. CASE SetFirst(c) \/ ExpireFirst(c) \/ Reply(c)
  <2>1. /\ UNCHANGED <<strikes, countUntil, local>>
        /\ cmd[c] \in {"setFirst", "expireFirst", "reply"}
        /\ phase[c] = "charge"
    BY <1>1, <1>6 DEF SetFirst, ExpireFirst, Reply
  <2>2. HasCount(c) /\ cmd[c] # "expireCount"
    BY <2>1
  <2> QED BY <1>1, <2>1, <2>2
<1> QED BY <1>3, <1>4, <1>5, <1>6 DEF Step

LEMMA CountTime ==
  ASSUME Reliable, QuickInv, NEW c, Callers = {c}, CountInv(c), Tick \/ KeysExpire
  PROVE  CountInv(c)'
<1>1. /\ GraceTypeOK /\ CallInv(c) /\ c \in Callers
      /\ UNCHANGED <<phase, cmd, call, local>>
  BY DEF QuickInv, Tick, KeysExpire, Expire, fvars
<1>2. now \in Nat /\ W \in Nat \ {0} /\ countUntil \in Nat
  BY <1>1, KeyNumbers, GraceAssumption DEF GraceAssumption
<1>3. CASE Tick
  <2>1. phase[c] = "idle"
    BY <1>1, <1>3 DEF Tick, Reliable
  <2> QED BY <1>1, <2>1 DEF CountInv, HasCount, CallInv, Writing
<1>4. CASE KeysExpire
  <2>1. /\ ~(phase[c] = "charge" /\ call[c] = "inner")
        /\ strikes' = IF CountOverdue THEN <<>> ELSE strikes
        /\ UNCHANGED <<now, countUntil>>
    BY <1>1, <1>4 DEF KeysExpire, Expire, Reliable
  <2>2. HasCount(c) => cmd[c] # "expireCount"
    BY <1>1, <2>1 DEF CallInv, Writing
  <2>3. HasCount(c) => ~CountOverdue
    BY <1>2, <2>2 DEF CountInv, HasCount, CountOverdue
  <2> QED BY <1>1, <2>1, <2>3 DEF CountInv, HasCount, Writing
<1> QED BY <1>3, <1>4

LEMMA CountNext ==
  ASSUME Reliable, QuickInv, NEW c, Callers = {c}, CountInv(c),
         [GraceNext]_gvars
  PROVE  CountInv(c)'
<1>1. CASE \E d \in Callers : Step(d)
  BY <1>1, CountStep
<1>2. CASE Tick \/ KeysExpire
  BY <1>2, CountTime
<1>3. CASE UNCHANGED gvars
  BY <1>3 DEF gvars, fvars, keys, CountInv, HasCount, Writing
<1> QED BY <1>1, <1>2, <1>3, ReliableSteps

\* Evaluate returns the grade of what it counted.
LEMMA GradedByCount ==
  ASSUME Reliable, QuickInv, NEW c, Callers = {c}, CountInv(c),
         [GraceNext]_gvars, phase[c] = "charge", phase'[c] = "idle"
  PROVE  /\ Len(strikes) > 0
         /\ grade'[c] \in {"log_only", "throttle", "terminate"}
         /\ grade'[c] = "log_only" <=> Len(strikes) <= LogOnlyCount
         /\ grade'[c] = "terminate" => Len(strikes) > ThrottleCount
         /\ grade'[c] = "throttle" => Len(strikes) <= ThrottleCount
<1>1. GraceTypeOK /\ CallInv(c) /\ c \in Callers
  BY DEF QuickInv
<1>2. EndEvaluate(c)
  <2>1. CASE \E d \in Callers : Step(d)
    BY <1>1, <2>1
    DEF Step, BeginEvaluate, GetFirst, KeepWindow, ResetWindow, DelCount,
        DelFirst, ResetReply, CheckReturns, BeginIncrement, Incr, ExpireCount, SetFirst,
        ExpireFirst, Reply, GraceTypeOK
  <2>2. CASE Tick \/ KeysExpire \/ UNCHANGED gvars
    BY <2>2 DEF Tick, KeysExpire, Expire, gvars
  <2> QED BY <2>1, <2>2, ReliableSteps
<1>3. call[c] = "answered"
  BY <1>1, <1>2 DEF EndEvaluate, CallInv
<1>4. strikes # <<>> /\ local[c].count = Len(strikes)
  BY <1>3 DEF CountInv, HasCount
<1>5. grade'[c] = GradeFromCount(Len(strikes))
  BY <1>1, <1>2, <1>3, <1>4 DEF EndEvaluate, GraceTypeOK
<1>6. Len(strikes) \in Nat /\ Len(strikes) > 0
  BY <1>1, <1>4 DEF GraceTypeOK
<1> QED BY <1>5, <1>6, GraceAssumption DEF GraceAssumption, GradeFromCount

\* gradeFromCount is handed the place of the violation in its window: no command
\* of the pipelines, no TTL and no second that passes comes between the counter
\* and the grade.
THEOREM GradesTheorem ==
  ASSUME Reliable, Sole
  PROVE  GraceSpec => GradesFollowWindow
<1> DEFINE Inv == QuickInv /\ \A c \in Callers : CountInv(c)
<1>1. GraceInit => Inv
  BY GraceTypeInit, QuickInit DEF GraceInit, FailOpenInit, CountInv, HasCount, Writing
<1>2. Inv /\ [GraceNext]_gvars => Inv'
  <2> SUFFICES ASSUME Inv, [GraceNext]_gvars PROVE Inv'
    OBVIOUS
  <2>1. PICK c : Callers = {c}
    BY DEF Sole
  <2>2. QuickInv' /\ CountInv(c)'
    BY <2>1, QuickNext, CountNext
  <2> QED BY <2>1, <2>2
<1>3. Inv /\ [GraceNext]_gvars =>
        [\A c \in Callers :
           (phase[c] = "charge" /\ phase'[c] = "idle") =>
             /\ Len(strikes) > 0
             /\ grade'[c] \in {"log_only", "throttle", "terminate"}
             /\ grade'[c] = "log_only" <=> Len(strikes) <= LogOnlyCount
             /\ grade'[c] = "terminate" => Len(strikes) > ThrottleCount
             /\ grade'[c] = "throttle" => Len(strikes) <= ThrottleCount]_gvars
  <2> SUFFICES ASSUME Inv, [GraceNext]_gvars, NEW c \in Callers,
                      phase[c] = "charge", phase'[c] = "idle"
               PROVE  /\ Len(strikes) > 0
                      /\ grade'[c] \in {"log_only", "throttle", "terminate"}
                      /\ grade'[c] = "log_only" <=> Len(strikes) <= LogOnlyCount
                      /\ grade'[c] = "terminate" => Len(strikes) > ThrottleCount
                      /\ grade'[c] = "throttle" => Len(strikes) <= ThrottleCount
    BY Zenon
  <2>1. Callers = {c}
    BY DEF Sole
  <2> QED BY <2>1, GradedByCount
<1> HIDE DEF Inv
<1> QED BY <1>1, <1>2, <1>3, PTL DEF GraceSpec, GradesFollowWindow
=============================================================================
