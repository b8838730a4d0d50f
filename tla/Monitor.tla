------------------------------- MODULE Monitor -------------------------------
(***************************************************************************)
(* The life of one proxied request: handleStream and                       *)
(* streamWithoutEnforcement of cmd/proxy/main.go, and the loop of           *)
(* internal/stream/monitor.go they both run.  Streams are the handler       *)
(* goroutines; each serves one request.                                     *)
(*                                                                         *)
(* What a stream shares with others is Redis: the history a stream starts   *)
(* from and the grade of its soft breach are inputs here; module Grace      *)
(* models the counter behind the grade.                                     *)
(***************************************************************************)
EXTENDS Threshold

CONSTANTS
  Streams,     \* handler goroutines
  Requests,    \* the requests clients send: [endpoint, role, bypass]
  Histories,   \* the BehaviorStats Redis, or the fail-open default, can return
  Rates,       \* values of currentRateBPS, 0 before min_rate_elapsed_ms
  ChunkSizes,  \* payload sizes the backend sends
  MaxChunks,   \* bound: chunks the backend sends on one stream
  NoLimit      \* 1<<62 - 1, the limits of a bypassed request

ASSUME MonitorAssumption ==
  /\ \A r \in Requests : r.bypass \in BOOLEAN
  /\ Histories \subseteq Stats
  /\ Rates \subseteq Nat
  /\ ChunkSizes \subseteq Nat
  /\ MaxChunks \in Nat
  /\ NoLimit \in Nat

VARIABLES
  request,    \* the request each stream serves
  pc,         \* where its handler is
  monitor,    \* the Monitor struct
  chunk,      \* the chunk it holds
  grade,      \* what evaluateSoftBreach was told, "none" before
  outcome,    \* result.Outcome
  clientGone, \* the request's context is done
  cancelled,  \* the context of the backend call is done
  delivered,  \* bytes w.Write took
  recorded    \* bytes handed to RecordRequest

vars == <<request, pc, monitor, chunk, grade, outcome, clientGone, cancelled,
          delivered, recorded>>

incoming == <<request, clientGone>>
ledger   == <<delivered, recorded>>

Grades == {"log_only", "throttle", "terminate"}
Chunks == [size : ChunkSizes \cup {0}, last : BOOLEAN]

MonitorState ==
  [decision : Decision, totalBytes : Nat, chunkCount : Nat,
   throttled : BOOLEAN, softBreachHandled : BOOLEAN, killed : BOOLEAN]

Running == {"select", "recv", "evaluate", "write", "finalize"}

\* Type invariant.
TypeOK ==
  /\ request \in [Streams -> Requests]
  /\ pc \in [Streams -> Running \cup {"idle", "refused", "done"}]
  /\ monitor \in [Streams -> MonitorState]
  /\ chunk \in [Streams -> Chunks]
  /\ grade \in [Streams -> Grades \cup {"none"}]
  /\ outcome \in [Streams -> {"none", "complete", "client_disconnect",
                              "grpc_error", "write_error", "killed"}]
  /\ clientGone \in [Streams -> BOOLEAN]
  /\ cancelled \in [Streams -> BOOLEAN]
  /\ delivered \in [Streams -> Nat]
  /\ recorded \in [Streams -> Nat]

-----------------------------------------------------------------------------
UniformDecision(limit) ==
  [allowed |-> limit, floor |-> limit, ceiling |-> limit, average |-> 0,
   isNewUser |-> FALSE, anomaly |-> FALSE]

NewMonitor(decision) ==
  [decision |-> decision, totalBytes |-> 0, chunkCount |-> 0,
   throttled |-> FALSE, softBreachHandled |-> FALSE, killed |-> FALSE]

Init ==
  /\ request \in [Streams -> Requests]
  /\ pc = [s \in Streams |-> "idle"]
  /\ monitor = [s \in Streams |-> NewMonitor(UniformDecision(0))]
  /\ chunk = [s \in Streams |-> [size |-> 0, last |-> FALSE]]
  /\ grade = [s \in Streams |-> "none"]
  /\ outcome = [s \in Streams |-> "none"]
  /\ clientGone = [s \in Streams |-> FALSE]
  /\ cancelled = [s \in Streams |-> FALSE]
  /\ delivered = [s \in Streams |-> 0]
  /\ recorded = [s \in Streams |-> 0]

-----------------------------------------------------------------------------
\* handleStream, up to the loop: the limits are computed from the history the
\* request found, at rate 0.
StartEnforced(s, history) ==
  /\ pc[s] = "idle"
  /\ ~request[s].bypass
  /\ monitor' = [monitor EXCEPT ![s] = NewMonitor(
                   Evaluate(history, request[s].endpoint, request[s].role, 0))]
  /\ pc' = [pc EXCEPT ![s] = "select"]
  /\ UNCHANGED <<chunk, grade, outcome, cancelled, incoming, ledger>>

\* streamWithoutEnforcement: the same loop under limits nothing reaches.
StartBypassed(s) ==
  /\ pc[s] = "idle"
  /\ request[s].bypass
  /\ monitor' = [monitor EXCEPT ![s] = NewMonitor(UniformDecision(NoLimit))]
  /\ pc' = [pc EXCEPT ![s] = "select"]
  /\ UNCHANGED <<chunk, grade, outcome, cancelled, incoming, ledger>>

\* Fault: nothing cancels the backend call.
CancelForgotten(s) == UNCHANGED cancelled

\* The backend call's context is cancelled: grpcCancel, called or deferred.
Cancel(s) == cancelled' = [cancelled EXCEPT ![s] = TRUE]

\* GetData fails: 502, and no monitor runs.
BackendUnavailable(s) ==
  /\ pc[s] = "idle"
  /\ pc' = [pc EXCEPT ![s] = "refused"]
  /\ Cancel(s)
  /\ UNCHANGED <<monitor, chunk, grade, outcome, incoming, ledger>>

\* The client goes away; the backend call's context is derived from the
\* request's.
ClientDisconnect(s) ==
  /\ pc[s] \in Running
  /\ ~clientGone[s]
  /\ clientGone' = [clientGone EXCEPT ![s] = TRUE]
  /\ Cancel(s)
  /\ UNCHANGED <<request, pc, monitor, chunk, grade, outcome, ledger>>

\* Every way out of the loop goes through finalize.
LeaveLoop(s, why) ==
  /\ pc' = [pc EXCEPT ![s] = "finalize"]
  /\ outcome' = [outcome EXCEPT ![s] = why]

SelectClientGone(s) ==
  /\ pc[s] = "select"
  /\ clientGone[s]
  /\ LeaveLoop(s, "client_disconnect")
  /\ UNCHANGED <<monitor, chunk, grade, cancelled, incoming, ledger>>

\* Fault: the loop does not look at the context.
SelectNothing(s) ==
  /\ pc[s] = "select"
  /\ pc' = [pc EXCEPT ![s] = "recv"]
  /\ UNCHANGED <<monitor, chunk, grade, outcome, cancelled, incoming, ledger>>

\* The default branch is taken only when the context is not done, but the
\* context may be done by the time Recv is entered or while it waits.
SelectDefault(s) ==
  /\ pc[s] = "select"
  /\ ~clientGone[s]
  /\ pc' = [pc EXCEPT ![s] = "recv"]
  /\ UNCHANGED <<monitor, chunk, grade, outcome, cancelled, incoming, ledger>>

-----------------------------------------------------------------------------
\* Recv failed: the end of the stream, or any other error.  A cancelled
\* context ends Recv with an error.
RecvEOF(s) ==
  /\ pc[s] = "recv"
  /\ LeaveLoop(s, "complete")
  /\ UNCHANGED <<monitor, chunk, grade, cancelled, incoming, ledger>>

RecvError(s) ==
  /\ pc[s] = "recv"
  /\ LeaveLoop(s, IF monitor[s].killed THEN "killed" ELSE "grpc_error")
  /\ UNCHANGED <<monitor, chunk, grade, cancelled, incoming, ledger>>

\* The statistics the loop hands to the engine in place of the user's own.
AssumedStats(decision) ==
  [average |-> decision.average, rate |-> decision.average \div 10,
   requests |-> 10, isNewUser |-> FALSE]

\* Fault: the whole decision is replaced by the recomputed one.
ObservedReplacing(m, req, size, rate) ==
  [m EXCEPT
     !.totalBytes = @ + size,
     !.chunkCount = @ + 1,
     !.decision = Evaluate(AssumedStats(@), req.endpoint, req.role, rate)]

\* A chunk is counted and the decision's anomaly flag, and nothing else of
\* it, is recomputed.
Observed(m, req, size, rate) ==
  [m EXCEPT
     !.totalBytes = @ + size,
     !.chunkCount = @ + 1,
     !.decision.anomaly =
       Evaluate(AssumedStats(m.decision), req.endpoint, req.role, rate).anomaly]

\* Reaching 70% of the limit turns the throttle on.
AfterThrottleCheck(m) ==
  [m EXCEPT !.throttled = @ \/ ShouldThrottle(m.totalBytes, m.decision)]

\* The chunk m has counted goes to the client.
Forward(s, m) ==
  /\ monitor' = [monitor EXCEPT ![s] = AfterThrottleCheck(m)]
  /\ pc' = [pc EXCEPT ![s] = "write"]
  /\ UNCHANGED <<outcome, cancelled>>

\* hardKill, and the finalize it calls.
HardKill(s, m) ==
  /\ monitor' = [monitor EXCEPT ![s] = [m EXCEPT !.killed = TRUE]]
  /\ Cancel(s)
  /\ LeaveLoop(s, "killed")

\* Fault: the violation is not remembered.
ChargedAgain(m) == m

\* softBreachHandled: grace is evaluated once per stream.
Charged(m) == [m EXCEPT !.softBreachHandled = TRUE]

\* Recv returned a chunk.  Over the ceiling the stream is killed; the first
\* time over the limit it is graded; otherwise the chunk is written.
RecvChunk(s, size, last, rate) ==
  /\ pc[s] = "recv"
  /\ monitor[s].chunkCount < MaxChunks
  /\ chunk' = [chunk EXCEPT ![s] = [size |-> size, last |-> last]]
  /\ LET m      == Observed(monitor[s], request[s], size, rate)
         breach == ShouldKill(m.totalBytes, m.decision)
     IN  \/ breach = "hard" /\ HardKill(s, m)
         \/ /\ breach = "soft"
            /\ ~m.softBreachHandled
            /\ monitor' = [monitor EXCEPT ![s] = Charged(m)]
            /\ pc' = [pc EXCEPT ![s] = "evaluate"]
            /\ UNCHANGED <<outcome, cancelled>>
         \/ /\ breach = "none" \/ (breach = "soft" /\ m.softBreachHandled)
            /\ Forward(s, m)
  /\ UNCHANGED <<grade, incoming, ledger>>

\* evaluateSoftBreach returned grade g: log_only lets the stream go on
\* unthrottled, throttle throttles it.
Graded(m, g) == [m EXCEPT !.throttled = (g = "throttle")]

\* Faults: only a hard breach kills; every soft breach kills.
PermitsAll(g)  == TRUE
PermitsNone(g) == FALSE

\* The grades that let a stream go on; any other kills it.
Permits(g) == g \in {"log_only", "throttle"}

EvaluateReturn(s, g) ==
  /\ pc[s] = "evaluate"
  /\ grade' = [grade EXCEPT ![s] = g]
  /\ \/ Permits(g) /\ Forward(s, Graded(monitor[s], g))
     \/ ~Permits(g) /\ HardKill(s, monitor[s])
  /\ UNCHANGED <<chunk, incoming, ledger>>

-----------------------------------------------------------------------------
\* w.Write took the chunk; the throttle's sleep and the flush follow, and the
\* loop goes on unless the chunk was the last.
WriteOk(s) ==
  /\ pc[s] = "write"
  /\ delivered' = [delivered EXCEPT ![s] = @ + chunk[s].size]
  /\ \/ chunk[s].last /\ LeaveLoop(s, "complete")
     \/ /\ ~chunk[s].last
        /\ pc' = [pc EXCEPT ![s] = "select"]
        /\ UNCHANGED outcome
  /\ UNCHANGED <<monitor, chunk, grade, cancelled, incoming, recorded>>

\* w.Write failed after n bytes: a broken connection or the server's write
\* deadline.
WriteFail(s, n) ==
  /\ pc[s] = "write"
  /\ n \in 0 .. chunk[s].size
  /\ delivered' = [delivered EXCEPT ![s] = @ + n]
  /\ LeaveLoop(s, "write_error")
  /\ UNCHANGED <<monitor, chunk, grade, cancelled, incoming, recorded>>

\* Faults: only complete streams are recorded; the last chunk is taken off
\* what was delivered.
RecordedIfComplete(s) ==
  IF outcome[s] = "complete" THEN monitor[s].totalBytes ELSE recorded[s]
RecordedDiscounting(s) == delivered[s] - chunk[s].size

\* What was received is recorded, if anything was.
Recorded(s) ==
  IF monitor[s].totalBytes > 0 THEN monitor[s].totalBytes ELSE recorded[s]

\* finalize, then the handler returns and its deferred grpcCancel runs.
Finalize(s) ==
  /\ pc[s] = "finalize"
  /\ recorded' = [recorded EXCEPT ![s] = Recorded(s)]
  /\ Cancel(s)
  /\ pc' = [pc EXCEPT ![s] = "done"]
  /\ UNCHANGED <<monitor, chunk, grade, outcome, incoming, delivered>>

-----------------------------------------------------------------------------
Start(s) ==
  \/ \E h \in Histories : StartEnforced(s, h)
  \/ StartBypassed(s)
  \/ BackendUnavailable(s)

Recv(s) ==
  \/ \E size \in ChunkSizes, last \in BOOLEAN, rate \in Rates :
       RecvChunk(s, size, last, rate)
  \/ RecvEOF(s)
  \/ RecvError(s)

Write(s) ==
  \/ WriteOk(s)
  \/ \E n \in 0 .. chunk[s].size : WriteFail(s, n)

\* The handler's steps that end by themselves: Redis calls and writes have
\* deadlines.  Recv has none, except that a cancelled context ends it.
Bounded(s) ==
  \/ SelectClientGone(s)
  \/ SelectDefault(s)
  \/ \E g \in Grades : EvaluateReturn(s, g)
  \/ Write(s)
  \/ Finalize(s)
  \/ cancelled[s] /\ RecvError(s)

\* Every handler has returned.
AllServed ==
  /\ \A s \in Streams : pc[s] \in {"refused", "done"}
  /\ UNCHANGED vars

Next ==
  \/ \E s \in Streams :
       \/ Start(s)
       \/ ClientDisconnect(s)
       \/ SelectClientGone(s)
       \/ SelectDefault(s)
       \/ Recv(s)
       \/ \E g \in Grades : EvaluateReturn(s, g)
       \/ Write(s)
       \/ Finalize(s)
  \/ AllServed

Fairness == \A s \in Streams : WF_vars(Bounded(s))

Spec == Init /\ [][Next]_vars /\ Fairness

-----------------------------------------------------------------------------
\* Properties.

\* The absolute ceiling is checked before a chunk is written, not after: no
\* enforced client ever receives a byte past it, whatever its grade and
\* however large a chunk is; under a negative ceiling it receives none.
CeilingHolds ==
  \A s \in Streams :
    delivered[s] > 0 => delivered[s] <= monitor[s].decision.ceiling

\* Bytes past the adaptive limit reach a client only after the violation was
\* graded, and graded log_only or throttle.
OverLimitOnlyIfGraded ==
  \A s \in Streams :
    delivered[s] > 0 /\ delivered[s] > monitor[s].decision.allowed =>
      /\ monitor[s].softBreachHandled
      /\ grade[s] \in {"log_only", "throttle"}

\* A stream is killed only for what it did: over its ceiling, or over its
\* limit and graded terminate.
KillJustified ==
  \A s \in Streams :
    monitor[s].killed =>
      \/ monitor[s].totalBytes > monitor[s].decision.ceiling
      \/ /\ monitor[s].totalBytes > monitor[s].decision.allowed
         /\ grade[s] = "terminate"

\* Past 70% of its limit a stream is never written at full speed, unless its
\* violation was graded log_only.
ThrottledPastPoint ==
  \A s \in Streams :
    /\ pc[s] = "write"
    /\ monitor[s].totalBytes > ThrottlePoint(monitor[s].decision)
    => monitor[s].throttled \/ grade[s] = "log_only"

\* What a finished stream adds to the user's history covers every byte the
\* client got, on every way out of the loop, and exceeds it by at most the
\* one chunk that was received and not written.
HistoryCoversDelivery ==
  \A s \in Streams :
    pc[s] = "done" =>
      /\ delivered[s] <= recorded[s]
      /\ recorded[s] <= delivered[s] + chunk[s].size

\* The limits of a running stream are those it was admitted with: the
\* evaluation repeated on every chunk moves only the anomaly flag.
LimitsFixed ==
  [][\A s \in Streams :
       pc[s] \in Running =>
         /\ monitor'[s].decision.allowed = monitor[s].decision.allowed
         /\ monitor'[s].decision.ceiling = monitor[s].decision.ceiling]_vars

\* A stream charges its user at most one violation.
GradedOnce ==
  [][\A s \in Streams :
       (pc[s] # "evaluate" /\ pc'[s] = "evaluate") => grade[s] = "none"]_vars

\* How far a handler is from its end.
StepsLeft ==
  [idle |-> 6, recv |-> 5, evaluate |-> 4, write |-> 3, select |-> 2,
   finalize |-> 1, refused |-> 0, done |-> 0]

\* A client may leave anywhere, also between the select and Recv, and in the
\* middle of an evaluation or a write.  From there the handler only goes on
\* towards its end: it takes at most one more chunk from the backend, and is
\* charged for it and no other.
OneMoreChunk ==
  [][\A s \in Streams :
       clientGone[s] =>
         \/ StepsLeft[pc'[s]] < StepsLeft[pc[s]]
         \/ /\ pc'[s] = pc[s] /\ monitor'[s] = monitor[s]
            /\ delivered'[s] = delivered[s] /\ recorded'[s] = recorded[s]]_vars

\* monitor.go:255 calls enforceContinue "log only, continue streaming" and the
\* README lists "1st violation -> Log only": being graded log_only would leave
\* the pace of the stream alone.
LogOnlyChangesNothing ==
  [][\A s \in Streams :
       (grade[s] = "none" /\ grade'[s] = "log_only") =>
         monitor'[s].throttled = monitor[s].throttled]_vars

\* When the client goes away the handler ends, even if the backend sends
\* nothing more: the context reaches Recv.
DisconnectEndsHandler ==
  \A s \in Streams : clientGone[s] ~> pc[s] = "done"
=============================================================================
