-------------------------------- MODULE Grace --------------------------------
(***************************************************************************)
(* The grace system for one user: Enforcer.Evaluate of                     *)
(* internal/policy/enforcer.go over GetViolationCount, IncrementViolation   *)
(* and ResetViolations of internal/redis/client.go, called through the      *)
(* fail-open client by every stream of the user.                           *)
(*                                                                         *)
(* A pipeline is not a transaction: each command is a step.  The keys are   *)
(* user:<id>:violations, a counter, and user:<id>:violations:first, a time; *)
(* the :last key is written and read but decides nothing, and is left out.  *)
(* The counter is kept as the sequence of the times it was incremented at,  *)
(* its value being the length: the times serve the properties.             *)
(*                                                                         *)
(* The clock counts seconds, as Unix() does.  A key is gone at some moment  *)
(* of the second its TTL ends in.  Two keys whose TTLs end in one second     *)
(* were given them by one pipeline, microseconds apart: unless TTLsRace they *)
(* go together, and not between two commands of a pipeline.                 *)
(***************************************************************************)
EXTENDS FailOpen, Sequences

CONSTANTS
  W,              \* violation_window_sec
  LogOnlyCount,   \* log_only_count
  ThrottleCount,  \* throttle_count
  MaxRetries,     \* times the Redis library re-sends a pipeline it got no
                  \* reply to
  Unlucky,        \* callers whose connection may fail while Redis is up
  TTLsRace,       \* whether TTLs may end between the commands of a pipeline,
                  \* or between the ends of each other
  SlowCalls,      \* whether a second may pass while a call runs
  MaxStrikes,     \* bound: no evaluation begins with the counter there
  LastStart,      \* bound: no evaluation begins after this second
  MaxTime         \* bound: the clock stops here

ASSUME GraceAssumption ==
  /\ W \in Nat \ {0}
  /\ LogOnlyCount \in Nat
  /\ ThrottleCount \in Nat
  /\ MaxRetries \in Nat
  /\ Unlucky \subseteq Callers
  /\ SlowCalls \in BOOLEAN /\ TTLsRace \in BOOLEAN
  /\ MaxStrikes \in Nat /\ LastStart \in Nat /\ MaxTime \in Nat \ {0}

VARIABLES
  now,         \* the clock
  strikes,     \* the counter
  countUntil,  \* when it expires
  first,       \* the :first key, 0 when absent
  firstUntil,  \* when it expires
  phase,       \* the call of Evaluate each caller is in
  cmd,         \* the next step of that call
  local,       \* the locals of the call
  grade        \* what the caller's last Evaluate returned

keys == <<strikes, countUntil, first, firstUntil>>
gvars == <<fvars, now, keys, phase, cmd, local, grade>>

\* A key without a TTL.
NoTTL == MaxTime + W + 1

GraceGrades == {"allow", "log_only", "throttle", "terminate"}

\* Type invariant.
GraceTypeOK ==
  /\ FailOpenTypeOK
  /\ now \in 1 .. MaxTime
  /\ strikes \in Seq(1 .. MaxTime)
  /\ countUntil \in 0 .. NoTTL
  /\ first \in 0 .. MaxTime
  /\ firstUntil \in 0 .. NoTTL
  /\ phase \in [Callers -> {"idle", "check", "charge"}]
  /\ cmd \in [Callers -> {"none", "get", "decide", "delCount", "delFirst",
                          "incr", "expireCount", "setFirst", "expireFirst",
                          "reply"}]
  /\ local \in [Callers -> [seen : 0 .. MaxTime, stamp : 0 .. MaxTime,
                            count : Nat, tries : 0 .. MaxRetries]]
  /\ grade \in [Callers -> GraceGrades \cup {"none"}]

NoLocals == [seen |-> 0, stamp |-> 0, count |-> 0, tries |-> 0]

GraceInit ==
  /\ FailOpenInit
  /\ now = 1
  /\ strikes = <<>> /\ countUntil = 0
  /\ first = 0 /\ firstUntil = 0
  /\ phase = [c \in Callers |-> "idle"]
  /\ cmd = [c \in Callers |-> "none"]
  /\ local = [c \in Callers |-> NoLocals]
  /\ grade = [c \in Callers |-> "none"]

-----------------------------------------------------------------------------
\* Time and expiry.
CountOverdue == strikes # <<>> /\ now >= countUntil
FirstOverdue == first # 0 /\ now >= firstUntil

Tick ==
  /\ now < MaxTime
  /\ ~CountOverdue /\ ~FirstOverdue
  /\ SlowCalls \/ \A c \in Callers : phase[c] = "idle"
  /\ now' = now + 1
  /\ UNCHANGED <<fvars, keys, phase, cmd, local, grade>>

Expire(gone) ==
  /\ strikes' = IF "count" \in gone THEN <<>> ELSE strikes
  /\ first' = IF "first" \in gone THEN 0 ELSE first
  /\ UNCHANGED <<fvars, now, countUntil, firstUntil, phase, cmd, local, grade>>

KeysExpire ==
  LET overdue == {k \in {"count", "first"} :
                    IF k = "count" THEN CountOverdue ELSE FirstOverdue}
  IN  /\ overdue # {}
      /\ \/ /\ \A c \in Callers : ~(phase[c] = "charge" /\ call[c] = "inner")
            /\ Expire(overdue)
         \/ TTLsRace /\ \E k \in overdue : Expire({k})

-----------------------------------------------------------------------------
\* The next command of a call that is running.
At(c, p, x) == phase[c] = p /\ cmd[c] = x /\ call[c] = "inner"
Runs(c, p, x) == At(c, p, x) /\ redisUp
Then(c, x) == cmd' = [cmd EXCEPT ![c] = x]

\* Fault: the TTL is forgotten.
RenewedForgotten(absent, until) == until

\* EXPIRE of an absent key does nothing.
Renewed(absent, until) == IF absent THEN until ELSE now + W

\* Evaluate: GetViolationCount first.
BeginEvaluate(c) ==
  /\ phase[c] = "idle"
  /\ now <= LastStart /\ Len(strikes) < MaxStrikes
  /\ Enter(c)
  /\ phase' = [phase EXCEPT ![c] = "check"]
  /\ Then(c, "get")
  /\ local' = [local EXCEPT ![c] = NoLocals]
  /\ UNCHANGED <<now, keys, grade>>

\* Of what the pipeline reads, only :first is used.
GetFirst(c) ==
  /\ Runs(c, "check", "get")
  /\ local' = [local EXCEPT ![c].seen = first]
  /\ Then(c, "decide")
  /\ UNCHANGED <<fvars, now, keys, phase, grade>>

\* Fault: every window is over.
WindowOverAlways(c) == local[c].seen > 0

\* Fault: the window is measured to one second more than its length.
WindowOverLate(c) == local[c].seen > 0 /\ now > local[c].seen + W + 1

\* The window began at :first and is over.
WindowOver(c) == local[c].seen > 0 /\ now > local[c].seen + W

KeepWindow(c) ==
  /\ At(c, "check", "decide")
  /\ ~WindowOver(c)
  /\ InnerOk(c)
  /\ Then(c, "none")
  /\ UNCHANGED <<now, keys, phase, local, grade>>

ResetWindow(c) ==
  /\ At(c, "check", "decide")
  /\ WindowOver(c)
  /\ Then(c, "delCount")
  /\ UNCHANGED <<fvars, now, keys, phase, local, grade>>

\* ResetViolations.  Its error is dropped: the call succeeds either way.
DelCount(c) ==
  /\ Runs(c, "check", "delCount")
  /\ strikes' = <<>>
  /\ Then(c, "delFirst")
  /\ UNCHANGED <<fvars, now, countUntil, first, firstUntil, phase, local,
                 grade>>

DelFirst(c) ==
  /\ Runs(c, "check", "delFirst")
  /\ first' = 0
  /\ Then(c, "reply")
  /\ UNCHANGED <<fvars, now, strikes, countUntil, firstUntil, phase, local,
                 grade>>

ResetReply(c) ==
  /\ Runs(c, "check", "reply")
  /\ InnerOk(c)
  /\ Then(c, "none")
  /\ UNCHANGED <<now, keys, phase, local, grade>>

\* A connection fails when Redis is down, and may fail when it is up.
MayFail(c) == ~redisUp \/ c \in Unlucky

\* The pipeline of the reset is on its way.
Resetting(c) == \E x \in {"delCount", "delFirst", "reply"} : At(c, "check", x)

LoseReset(c) ==
  /\ Resetting(c)
  /\ InnerOk(c)
  /\ Then(c, "none")
  /\ UNCHANGED <<now, keys, phase, local, grade>>

ResetLost(c) == MayFail(c) /\ LoseReset(c)

\* The fail-open client's answer to GetViolationCount is not used either.
CheckReturns(c) ==
  /\ phase[c] = "check"
  /\ Return(c)
  /\ phase' = [phase EXCEPT ![c] = "charge"]
  /\ Then(c, "none")
  /\ UNCHANGED <<now, keys, local, grade>>

-----------------------------------------------------------------------------
\* IncrementViolation: the time is taken before the pipeline is sent.
BeginIncrement(c) ==
  /\ phase[c] = "charge"
  /\ cmd[c] = "none"
  /\ Enter(c)
  /\ Then(c, "incr")
  /\ local' = [local EXCEPT ![c] = [NoLocals EXCEPT !.stamp = now]]
  /\ UNCHANGED <<now, keys, phase, grade>>

\* INCR of an absent key makes one without a TTL.
Incr(c) ==
  /\ Runs(c, "charge", "incr")
  /\ strikes' = Append(strikes, now)
  /\ countUntil' = IF strikes = <<>> THEN NoTTL ELSE countUntil
  /\ local' = [local EXCEPT ![c].count = Len(strikes')]
  /\ Then(c, "expireCount")
  /\ UNCHANGED <<fvars, now, first, firstUntil, phase, grade>>

ExpireCount(c) ==
  /\ Runs(c, "charge", "expireCount")
  /\ countUntil' = Renewed(strikes = <<>>, countUntil)
  /\ Then(c, "setFirst")
  /\ UNCHANGED <<fvars, now, strikes, first, firstUntil, phase, local, grade>>

\* Fault: SET in place of SETNX moves the window's start at every violation.
OpenedAlways(c) == local[c].stamp

\* What SETNX leaves in :first.
Opened(c) == IF first = 0 THEN local[c].stamp ELSE first

\* SETNX with a TTL.
SetFirst(c) ==
  /\ Runs(c, "charge", "setFirst")
  /\ first' = Opened(c)
  /\ firstUntil' = IF first = 0 THEN now + W ELSE firstUntil
  /\ Then(c, "expireFirst")
  /\ UNCHANGED <<fvars, now, strikes, countUntil, phase, local, grade>>

\* The last command that matters.
ExpireFirst(c) ==
  /\ Runs(c, "charge", "expireFirst")
  /\ firstUntil' = Renewed(first = 0, firstUntil)
  /\ Then(c, "reply")
  /\ UNCHANGED <<fvars, now, strikes, countUntil, first, phase, local, grade>>

Reply(c) ==
  /\ Runs(c, "charge", "reply")
  /\ InnerOk(c)
  /\ Then(c, "none")
  /\ UNCHANGED <<now, keys, phase, local, grade>>

MayResend(c) == local[c].tries < MaxRetries

\* The connection fails before, in or after a pipeline: the Redis library sends
\* the whole of it again, or the call fails.  To send the one that reads again
\* is to send it later, and is no step here.
Resend(c) ==
  /\ MayFail(c)
  /\ MayResend(c)
  /\ \/ Resetting(c) /\ Then(c, "delCount")
     \/ phase[c] = "charge" /\ call[c] = "inner" /\ Then(c, "incr")
  /\ local' = [local EXCEPT ![c].tries = @ + 1]
  /\ UNCHANGED <<fvars, now, keys, phase, grade>>

FailCall(c) ==
  /\ \/ At(c, "check", "get")
     \/ phase[c] = "charge"
  /\ InnerFail(c)
  /\ Then(c, "none")
  /\ UNCHANGED <<now, keys, phase, local, grade>>

CallFails(c) == MayFail(c) /\ FailCall(c)

\* handleError, in either call.
HandleError(c) ==
  /\ PingOk(c) \/ PingFail(c) \/ MarkUnavailable(c)
  /\ UNCHANGED <<now, keys, phase, cmd, local, grade>>

\* Fault: throttle_count violations terminate.
GradeFromCountEarly(count) ==
  CASE count <= 0 -> "allow"
    [] count \in 1 .. LogOnlyCount -> "log_only"
    [] count > LogOnlyCount /\ count < ThrottleCount -> "throttle"
    [] OTHER -> "terminate"

\* gradeFromCount.  terminate_count (config.go:90) is read by nobody: what
\* README.md:216 calls a termination "at terminate_count+" comes right after
\* throttle_count.
GradeFromCount(count) ==
  CASE count <= 0 -> "allow"
    [] count \in 1 .. LogOnlyCount -> "log_only"
    [] count > LogOnlyCount /\ count <= ThrottleCount -> "throttle"
    [] OTHER -> "terminate"

\* A call that was not answered counts one violation.
EndEvaluate(c) ==
  /\ phase[c] = "charge"
  /\ call[c] \in {"answered", "defaulted"}
  /\ grade' = [grade EXCEPT ![c] =
                 GradeFromCount(IF call[c] = "answered"
                                THEN local[c].count ELSE 1)]
  /\ Return(c)
  /\ phase' = [phase EXCEPT ![c] = "idle"]
  /\ Then(c, "none")
  /\ local' = [local EXCEPT ![c] = NoLocals]
  /\ UNCHANGED <<now, keys>>

-----------------------------------------------------------------------------
InEvaluate(c) ==
  \/ GetFirst(c) \/ KeepWindow(c) \/ ResetWindow(c)
  \/ DelCount(c) \/ DelFirst(c) \/ ResetReply(c) \/ ResetLost(c)
  \/ CheckReturns(c)
  \/ BeginIncrement(c)
  \/ Incr(c) \/ ExpireCount(c) \/ SetFirst(c) \/ ExpireFirst(c)
  \/ Reply(c)
  \/ CallFails(c) \/ HandleError(c)

EvaluateStep(c) == InEvaluate(c) \/ EndEvaluate(c)

Environment ==
  \/ Tick
  \/ KeysExpire
  \/ /\ RedisDown \/ RedisRecovers
     /\ UNCHANGED <<now, keys, phase, cmd, local, grade>>

Quiet ==
  /\ \A c \in Callers : phase[c] = "idle"
  /\ now = MaxTime
  /\ UNCHANGED gvars

GraceNext ==
  \/ Environment
  \/ \E c \in Callers : BeginEvaluate(c) \/ EvaluateStep(c) \/ Resend(c)
  \/ Quiet

\* Calls have deadlines; time and TTLs do not stop.
GraceSpec ==
  /\ GraceInit
  /\ [][GraceNext]_gvars
  /\ WF_gvars(Tick)
  /\ WF_gvars(KeysExpire)
  /\ \A c \in Callers : WF_gvars(EvaluateStep(c))

-----------------------------------------------------------------------------
\* Properties.

\* One evaluation at a time, with no failures and no gap between the TTLs,
\* the two keys, their TTLs and the check of :first implement counting in windows.
Window ==
  INSTANCE GraceWindow WITH
    count  <- Len(strikes),
    opened <- IF strikes = <<>> THEN 0 ELSE strikes[1]

CountsInWindows == Window!WindowSpec

\* README.md:55-57: the 1st violation is logged, the 2nd throttled, the 3rd
\* terminated.  One evaluation at a time, with no failures, a stream is graded
\* by the place its violation has in the window: when Evaluate returns, after
\* two calls and a pipeline of many commands, the counter still says what the
\* grade was taken from.
GradesFollowWindow ==
  [][\A c \in Callers :
       (phase[c] = "charge" /\ phase'[c] = "idle") =>
         /\ Len(strikes) > 0
         /\ grade'[c] \in {"log_only", "throttle", "terminate"}
         /\ grade'[c] = "log_only" <=> Len(strikes) <= LogOnlyCount
         /\ grade'[c] = "terminate" => Len(strikes) > ThrottleCount
         /\ grade'[c] = "throttle" => Len(strikes) <= ThrottleCount]_gvars

\* Calls that race may lose strikes, but a strike never counts against the
\* user for longer than the window.
StrikesExpire ==
  \A c \in Callers :
    cmd[c] = "expireCount" /\ strikes # <<>> => now - strikes[1] <= W

\* A user who stops violating has a clean record in the end.
Forgiven == <>[](strikes = <<>> /\ first = 0)

\* Evaluate returns a grade whatever Redis and the connections do.
EvaluateReturns ==
  \A c \in Callers : (phase[c] # "idle") ~> (phase[c] = "idle")

\* An outage that lasts is noticed by the first call that meets it, whatever
\* other calls race with it: the client is marked unavailable, and from then on no
\* request waits for Redis, for a ping or for a retry.
OutageNoticed ==
  \A c \in Callers :
    (call[c] = "inner" /\ []~redisUp) ~>
      [](~available /\ \A d \in Callers : call[d] \notin {"inner", "ping", "store"})

\* The README lists "1st violation -> Log only" and "2nd violation ->
\* Throttle": of the violations of one second, at most one is the first.
OneFirstStrike ==
  \A c, d \in Callers :
    local[c].count = 1 /\ local[d].count = 1 => c = d
=============================================================================
