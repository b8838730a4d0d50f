-------------------------------- MODULE Egress --------------------------------
(***************************************************************************)
(* The proxy's streams (Monitor) reading from the backend (Backend): what   *)
(* Monitor takes from anywhere comes here from a generator, and the context *)
(* the proxy cancels is the one the generator sees.                        *)
(***************************************************************************)
EXTENDS Monitor, Sequences

\* Of the backend; see there.
CONSTANTS ChunkCounts, Payloads, Window, OtherClients

VARIABLES server, gen, job, pipe, ctxDone

Service == INSTANCE Backend

ASSUME EgressAssumption ==
  /\ \A m \in Service!Modes : /\ ChunkCounts[m] \subseteq Nat \ {0}
                              /\ Payloads[m] \subseteq ChunkSizes \ {0}
  /\ Window \in Nat \ {0}
  /\ OtherClients \in BOOLEAN

backendVars == <<server, gen, job, pipe, ctxDone>>
evars == <<vars, backendVars>>

EgressInit == Init /\ Service!BackendInit

\* The mode each route asks for: only exports come from /export.
Serves(endpoint, mode) == (endpoint = "/export") <=> (mode = "export")

-----------------------------------------------------------------------------
\* The handler opens its call; on a connection that is going down GetData
\* itself may still succeed.
Open(s) ==
  /\ StartBypassed(s) \/ \E h \in Histories : StartEnforced(s, h)
  /\ \E m \in Service!Modes :
       /\ Serves(request[s].endpoint, m)
       /\ Service!GetData(s, m)

RecvMessage(s) ==
  /\ pipe[s] # <<>>
  /\ \E rate \in Rates : RecvChunk(s, Head(pipe[s]).size, Head(pipe[s]).last, rate)
  /\ pipe' = [pipe EXCEPT ![s] = Tail(@)]
  /\ UNCHANGED <<server, gen, job, ctxDone>>

\* The status of a call follows its last message: OK is io.EOF.
RecvStatus(s) ==
  /\ pipe[s] = <<>>
  /\ \/ gen[s] = "returned" /\ RecvEOF(s)
     \/ gen[s] \in {"failed", "refused"} /\ RecvError(s)
  /\ UNCHANGED backendVars

\* The connection is lost, with the messages on it.
ConnectionLost(s) == RecvError(s) /\ UNCHANGED backendVars

\* The end of the call's context in the proxy, or of the connection, reaches
\* the backend.
CancelArrives(s) ==
  /\ cancelled[s]
  /\ gen[s] \in Service!Active
  /\ ~ctxDone[s]
  /\ ctxDone' = [ctxDone EXCEPT ![s] = TRUE]
  /\ UNCHANGED <<vars, server, gen, job, pipe>>

ProxyStep(s) ==
  \/ Bounded(s) /\ UNCHANGED backendVars
  \/ RecvMessage(s)
  \/ RecvStatus(s)

BackendStep(s) ==
  \/ Service!GeneratorStep(s) /\ UNCHANGED vars
  \/ CancelArrives(s)

AllOver == AllServed /\ UNCHANGED backendVars

EgressNext ==
  \/ \E s \in Streams :
       \/ Open(s)
       \/ (BackendUnavailable(s) \/ ClientDisconnect(s)) /\ UNCHANGED backendVars
       \/ ConnectionLost(s)
       \/ ProxyStep(s)
       \/ BackendStep(s)
  \/ (Service!StopSignal \/ Service!Stopped \/ Service!RngRace) /\ UNCHANGED vars
  \/ AllOver

\* A generator's sleeps end, gRPC delivers; clients, signals, lost connections
\* and races owe nothing.
EgressSpec ==
  /\ EgressInit
  /\ [][EgressNext]_evars
  /\ \A s \in Streams : /\ WF_evars(ProxyStep(s))
                        /\ WF_evars(Service!GeneratorStep(s) /\ UNCHANGED vars)
                        /\ WF_evars(CancelArrives(s))
  /\ WF_evars(Service!Stopped /\ UNCHANGED vars)

-----------------------------------------------------------------------------
\* Properties.

\* Type invariant; EgressTypeTheorem proves it.
EgressTypeOK == TypeOK /\ Service!BackendTypeOK

\* A stream is only called complete when the client has every chunk and every
\* byte the backend made for it, whichever side failed or left and when.
CompleteIsWhole ==
  \A s \in Streams :
    outcome[s] = "complete" =>
      /\ monitor[s].chunkCount = job[s].numChunks
      /\ delivered[s] = job[s].totalBytes

\* A graceful stop of the backend cuts nothing: a generator ends early only
\* because the proxy ended the call.
GracefulStopDrains ==
  server = "stopped" => \A s \in Streams : gen[s] = "failed" => cancelled[s]

\* The proxy's end of a stream, whatever its reason, is the generator's too,
\* even of one that waits in Send for a reader that is gone.
GeneratorEnds ==
  \A s \in Streams : (pc[s] = "done") ~> (gen[s] \notin Service!Active)

\* The window, the throttle and the grades never leave a stream waiting: with
\* a backend that sends, every stream is served to its end.
ServedInTheEnd ==
  \A s \in Streams : (pc[s] \in Running) ~> (pc[s] = "done")
=============================================================================
