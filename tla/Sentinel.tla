------------------------------- MODULE Sentinel -------------------------------
(***************************************************************************)
(* The streams of one user over the Redis they share: Monitor with every    *)
(* Redis call of a request spelled out.  handleStream asks for the history  *)
(* (GetBehaviorStats), the loop for a grade (Enforcer.Evaluate, module      *)
(* Grace), finalize records the bytes (RecordRequest); all three go through *)
(* one fail-open client.  The grade a stream acts on is the one the shared  *)
(* counter gives; any of the calls may fail, because Redis is down, because *)
(* the client left and took the context of the call with it, or because a   *)
(* reply is late or a connection breaks while Redis is up.                  *)
(***************************************************************************)
EXTENDS Monitor, Sequences, FiniteSets

CONSTANTS
  MaxOutages, W, LogOnlyCount, ThrottleCount, MaxRetries, MaxStrikes, MaxTime,
  MaxTroubles   \* bound: Troubles never passes it

VARIABLES redisUp, outages, inner, available, call, probe,
          now, strikes, countUntil, first, firstUntil, phase, cmd, local,
          unanswered   \* history: the streams graded by the fail-open client's
                       \* answer, the call for their strike having failed

\* The variables of Grace, its grade being Monitor's.  Any connection may fail,
\* whether Redis is up or the client is there or not.
G == INSTANCE Grace WITH
  Callers <- Streams, Pingers <- {}, Unlucky <- Streams,
  TTLsRace <- FALSE, SlowCalls <- TRUE, LastStart <- MaxTime

handler == <<request, pc, monitor, chunk, outcome, clientGone, cancelled,
             delivered, recorded>>
client == <<redisUp, outages, inner, available, call, probe>>
enforcer == <<now, strikes, countUntil, first, firstUntil, phase, cmd, local>>

svars == <<handler, grade, client, enforcer, unanswered>>

\* What the fail-open client answers for a history.
SafeDefaults == [average |-> 0, rate |-> 0, requests |-> 0, isNewUser |-> TRUE]

\* Every request is enforced; and an evaluation may always begin, the bounds of
\* Grace notwithstanding.
ASSUME SentinelAssumption ==
  /\ \A r \in Requests : ~r.bypass
  /\ SafeDefaults \in Histories
  /\ IsFiniteSet(Streams)
  /\ MaxOutages \in Nat
  /\ W \in Nat \ {0} /\ LogOnlyCount \in Nat /\ ThrottleCount \in Nat
  /\ MaxRetries \in Nat
  /\ MaxStrikes \in Nat /\ MaxTime \in Nat \ {0} /\ MaxTroubles \in Nat
  /\ MaxStrikes > (MaxRetries + 1) * Cardinality(Streams)

SentinelInit ==
  /\ Init
  /\ G!GraceInit
  /\ unanswered = {}

\* What may trouble the streams at one time, and is bounded: outages, clients that
\* have left, evaluations that sent a pipeline again.  Late replies are not.
Troubles ==
  outages + Cardinality({s \in Streams : clientGone[s]})
          + Cardinality({s \in Streams : local[s].tries > 0})

-----------------------------------------------------------------------------
\* A call that is no evaluation: the history, the record.  It may fail while
\* Redis is up.
Ask(s) ==
  /\ G!Enter(s)
  /\ UNCHANGED <<handler, grade, enforcer, unanswered>>

Answer(s) ==
  /\ phase[s] = "idle"
  /\ G!InnerOk(s) \/ G!InnerFail(s)
  /\ UNCHANGED <<handler, grade, enforcer, unanswered>>

AskHistory(s) == pc[s] = "idle" /\ Ask(s)

HistoryArrives(s) ==
  /\ G!Return(s)
  /\ \/ \E h \in IF call[s] = "answered" THEN Histories ELSE {SafeDefaults} :
          StartEnforced(s, h)
     \/ BackendUnavailable(s)
  /\ UNCHANGED <<enforcer, unanswered>>

\* The steps of the loop that need no Redis, and the client's leaving.
Loop(s) ==
  /\ \/ SelectClientGone(s) \/ SelectDefault(s) \/ Recv(s) \/ Write(s)
     \/ Troubles < MaxTroubles /\ ClientDisconnect(s)
  /\ UNCHANGED <<client, enforcer, unanswered>>

\* evaluateSoftBreach, from the call of the enforcer to its return.
AskGrade(s) ==
  /\ pc[s] = "evaluate"
  /\ G!BeginEvaluate(s)
  /\ UNCHANGED <<handler, unanswered>>

GradeCall(s) ==
  /\ \/ G!InEvaluate(s)
     \/ Troubles < MaxTroubles /\ G!Resend(s)
  /\ UNCHANGED <<handler, unanswered>>

GradeArrives(s) ==
  /\ G!EndEvaluate(s)
  /\ EvaluateReturn(s, grade'[s])
  /\ unanswered' = unanswered \cup {t \in {s} : call[t] = "defaulted"}

\* finalize, whose record has a context of its own.
AskRecord(s) == pc[s] = "finalize" /\ monitor[s].totalBytes > 0 /\ Ask(s)

Finish(s) ==
  /\ \/ G!Return(s)
     \/ monitor[s].totalBytes = 0 /\ UNCHANGED client
  /\ Finalize(s)
  /\ UNCHANGED <<enforcer, unanswered>>

Handler(s) ==
  \/ AskHistory(s) \/ HistoryArrives(s)
  \/ Loop(s)
  \/ AskGrade(s) \/ GradeArrives(s)
  \/ AskRecord(s) \/ Finish(s)

World ==
  /\ G!Environment
  /\ UNCHANGED <<handler, unanswered>>
  /\ Troubles' <= MaxTroubles

Served ==
  /\ AllServed
  /\ UNCHANGED <<client, enforcer, unanswered>>

SentinelNext ==
  \/ \E s \in Streams : Handler(s) \/ Answer(s) \/ GradeCall(s)
  \/ World
  \/ Served

SentinelSpec == SentinelInit /\ [][SentinelNext]_svars

-----------------------------------------------------------------------------
\* Properties.

\* Type invariant.
SentinelTypeOK == TypeOK /\ G!GraceTypeOK /\ unanswered \subseteq Streams

ChargedStreams == {s \in Streams : monitor[s].softBreachHandled}

\* README.md:55-57: the first violation is logged, the second throttled, the
\* third terminated.  A stream within its ceiling is terminated only for the
\* violations of the user's streams, its own included: the counter never runs
\* ahead of them by more than the pipelines the Redis library sent again, and
\* no outage, lost reply or client that leaves makes a stream pay for more.
TerminatedOnlyForViolations ==
  \A s \in Streams :
    grade[s] = "terminate" =>
      (MaxRetries + 1) * Cardinality(ChargedStreams) > ThrottleCount

\* And the list is followed: while the window lasts, of the streams the counter
\* graded no more are let off with a log line than log_only_count says, whatever
\* outages, resends and clients that leave do to the others.  Those, whose call
\* for a strike failed (a late reply is enough), are graded by the fail-open
\* client, as by a count of one: it lets every one of them off.
Escalates ==
  \/ now > W
  \/ Cardinality({s \in Streams \ unanswered : grade[s] = "log_only"})
       <= LogOnlyCount

\* None of these failures degrades the proxy.  Only an outage makes the calls of
\* all its streams defaults: a failed call pings on a context of its own, and
\* what the ping said is stored late, with other calls in between.
DegradedOnlyByOutage == G!DegradedOnlyByOutage
=============================================================================
