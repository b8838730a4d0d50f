------------------------------- MODULE FailOpen -------------------------------
(***************************************************************************)
(* internal/redis/failopen.go: the client that answers with defaults when  *)
(* Redis does not.  Its four operations share one shape, a call; what the   *)
(* operation does to Redis is the business of the modules that extend this  *)
(* one.                                                                    *)
(***************************************************************************)
EXTENDS Naturals

CONSTANTS
  Callers,     \* goroutines that call the client
  Pingers,     \* goroutines that call Ping: the type exports it, the proxy
               \* has none
  MaxOutages   \* bound: times Redis is or goes down

ASSUME FailOpenAssumption == MaxOutages \in Nat

VARIABLES
  redisUp,    \* Redis answers a ping within its deadlines
  outages,    \* how many times it did not
  inner,      \* f.inner # nil
  available,  \* f.available
  call,       \* where each caller is in its call
  probe       \* what each pinger's Ping has seen and not stored yet

fvars == <<redisUp, outages, inner, available, call, probe>>

CallStates == {"idle", "inner", "ping", "store", "answered", "defaulted"}

\* Type invariant.
FailOpenTypeOK ==
  /\ redisUp \in BOOLEAN
  /\ outages \in 0 .. MaxOutages
  /\ inner \in BOOLEAN
  /\ available \in BOOLEAN
  /\ call \in [Callers -> CallStates]
  /\ probe \in [Pingers -> {"none", "ok", "failed"}]

\* NewFailOpenClient: without a first ping there is no inner client, and
\* nothing ever makes one.
FailOpenInit ==
  /\ redisUp \in BOOLEAN
  /\ outages = IF redisUp THEN 0 ELSE 1
  /\ outages <= MaxOutages
  /\ inner = redisUp
  /\ available = redisUp
  /\ call = [c \in Callers |-> "idle"]
  /\ probe = [p \in Pingers |-> "none"]

-----------------------------------------------------------------------------
RedisDown ==
  /\ redisUp
  /\ outages < MaxOutages
  /\ redisUp' = FALSE
  /\ outages' = outages + 1
  /\ UNCHANGED <<inner, available, call, probe>>

RedisRecovers ==
  /\ ~redisUp
  /\ redisUp' = TRUE
  /\ UNCHANGED <<outages, inner, available, call, probe>>

Goes(c, from, to) ==
  /\ call[c] = from
  /\ call' = [call EXCEPT ![c] = to]

\* Fault: an operation goes to Redis without looking.
EnterUnguarded(c) ==
  /\ Goes(c, "idle", "inner")
  /\ UNCHANGED <<redisUp, outages, inner, available, probe>>

\* The guard of the four operations.
Enter(c) ==
  /\ Goes(c, "idle", IF available /\ inner THEN "inner" ELSE "defaulted")
  /\ UNCHANGED <<redisUp, outages, inner, available, probe>>

\* The last reply has arrived; Redis may have gone down since.
InnerOk(c) ==
  /\ Goes(c, "inner", "answered")
  /\ UNCHANGED <<redisUp, outages, inner, available, probe>>

\* Fault: any error marks Redis unavailable.
AfterErrorUnchecked == "store"

AfterError == "ping"

\* An operation also fails while Redis is up: the request's context was
\* cancelled, the script returned an error, a reply was late.
InnerFail(c) ==
  /\ Goes(c, "inner", AfterError)
  /\ UNCHANGED <<redisUp, outages, inner, available, probe>>

\* handleError: only a failed ping, on a context of its own, marks Redis
\* unavailable; the mark is stored after the ping, whatever happened between.
PingOk(c) ==
  /\ redisUp
  /\ Goes(c, "ping", "defaulted")
  /\ UNCHANGED <<redisUp, outages, inner, available, probe>>

\* Fault: handleError pings until Redis answers.
PingAgain == "ping"

\* Fault: what the failed ping said is forgotten.
PingForgotten == "defaulted"

AfterFailedPing == "store"

PingFail(c) ==
  /\ ~redisUp
  /\ Goes(c, "ping", AfterFailedPing)
  /\ UNCHANGED <<redisUp, outages, inner, available, probe>>

MarkUnavailable(c) ==
  /\ Goes(c, "store", "defaulted")
  /\ available' = FALSE
  /\ UNCHANGED <<redisUp, outages, inner, probe>>

Return(c) ==
  /\ \/ Goes(c, "answered", "idle")
     \/ Goes(c, "defaulted", "idle")
  /\ UNCHANGED <<redisUp, outages, inner, available, probe>>

-----------------------------------------------------------------------------
Pingable == inner

\* FailOpenClient.Ping: with no inner client it does nothing; otherwise it
\* stores what the ping told it, after the ping.  No fairness is assumed of it:
\* nothing in the program calls it.
HealthPing(p) ==
  /\ Pingable
  /\ probe[p] = "none"
  /\ probe' = [probe EXCEPT ![p] = IF redisUp THEN "ok" ELSE "failed"]
  /\ UNCHANGED <<redisUp, outages, inner, available, call>>

HealthStore(p) ==
  /\ probe[p] # "none"
  /\ available' = (probe[p] = "ok")
  /\ probe' = [probe EXCEPT ![p] = "none"]
  /\ UNCHANGED <<redisUp, outages, inner, call>>

-----------------------------------------------------------------------------
\* Redis calls and pings have deadlines, so each ends one way or the other.
CallStep(c) ==
  \/ InnerOk(c)
  \/ InnerFail(c)
  \/ PingOk(c)
  \/ PingFail(c)
  \/ MarkUnavailable(c)
  \/ Return(c)

PingerStep(p) == HealthPing(p) \/ HealthStore(p)

FailOpenNext ==
  \/ RedisDown
  \/ RedisRecovers
  \/ \E c \in Callers : Enter(c) \/ CallStep(c)
  \/ \E p \in Pingers : PingerStep(p)

FailOpenSpec ==
  /\ FailOpenInit
  /\ [][FailOpenNext]_fvars
  /\ \A c \in Callers : WF_fvars(CallStep(c))

-----------------------------------------------------------------------------
\* Properties.

\* The proxy drops to defaults only because of an outage: a cancelled request
\* or a slow reply, however many of them race, never degrades it.
DegradedOnlyByOutage == ~available => outages > 0

\* No call reaches a client that was never made, and one that was never made
\* is never reported available.
NoCallOnNilClient ==
  /\ available => inner
  /\ \A c \in Callers : call[c] \in {"inner", "ping", "store"} => inner

\* The README describes GET /health as "Health check with Redis status"; the
\* handler reports f.available.  A client that was made would be reported up
\* once Redis is up for good.
HealthTracksRedis == (inner /\ <>[]redisUp) => <>[]available
=============================================================================
