-------------------------------- MODULE Backend --------------------------------
(***************************************************************************)
(* cmd/backend/main.go: the gRPC service the proxy streams from.  Its three *)
(* generators have one shape and differ in how many chunks they send and    *)
(* how large; the rows in a chunk are its size.                            *)
(*                                                                         *)
(* Between a generator and the proxy's Recv is gRPC: messages arrive in     *)
(* order, Send waits while Window of them are under way, and the end of the *)
(* call's context in the proxy reaches the generator's some time later.     *)
(***************************************************************************)
EXTENDS Naturals, Sequences

CONSTANTS
  Streams,      \* calls of GetData
  ChunkCounts,  \* mode -> the values numChunks can have
  Payloads,     \* mode -> the sizes of its payloads
  Window,       \* messages gRPC buffers between Send and Recv
  OtherClients  \* whether the backend serves more calls than Streams

Modes == {"normal", "attack", "export"}

VARIABLES
  server,   \* the process
  gen,      \* where the handler of each call is
  job,      \* the generator's locals
  pipe,     \* the chunks under way to the proxy
  ctxDone   \* stream.Context() is done

backendVars == <<server, gen, job, pipe, ctxDone>>

Active == {"start", "top", "make", "send"}

\* Type invariant.
BackendTypeOK ==
  /\ server \in {"serving", "stopping", "stopped", "crashed"}
  /\ gen \in [Streams -> Active \cup {"none", "refused", "returned", "failed"}]
  /\ job \in [Streams -> [mode : Modes, numChunks : Nat, i : Nat,
                          payload : Nat, totalBytes : Nat]]
  /\ pipe \in [Streams -> Seq([size : Nat, last : BOOLEAN])]
  /\ \A s \in Streams : /\ job[s].i <= job[s].numChunks
                        /\ Len(pipe[s]) <= Window
  /\ ctxDone \in [Streams -> BOOLEAN]

NewJob(m) == [mode |-> m, numChunks |-> 0, i |-> 0, payload |-> 0,
              totalBytes |-> 0]

BackendInit ==
  /\ server = "serving"
  /\ gen = [s \in Streams |-> "none"]
  /\ job = [s \in Streams |-> NewJob("normal")]
  /\ pipe = [s \in Streams |-> <<>>]
  /\ ctxDone = [s \in Streams |-> FALSE]

Goes(s, from, to) ==
  /\ gen[s] = from
  /\ gen' = [gen EXCEPT ![s] = to]

-----------------------------------------------------------------------------
\* GetData is called; a server that is stopping or gone refuses it.
GetData(s, m) ==
  /\ Goes(s, "none", IF server = "serving" THEN "start" ELSE "refused")
  /\ job' = [job EXCEPT ![s] = NewJob(m)]
  /\ UNCHANGED <<server, pipe, ctxDone>>

\* The generator draws the number of its chunks.
Begin(s) ==
  /\ \E n \in ChunkCounts[job[s].mode] : job' = [job EXCEPT ![s].numChunks = n]
  /\ Goes(s, "start", "top")
  /\ UNCHANGED <<server, pipe, ctxDone>>

LoopOver(s) == job[s].i = job[s].numChunks

\* The loop's condition, then its select.
NextChunk(s) ==
  /\ Goes(s, "top", IF LoopOver(s) THEN "returned"
                    ELSE IF ctxDone[s] THEN "failed" ELSE "make")
  /\ UNCHANGED <<server, job, pipe, ctxDone>>

\* The sleep, the rows and their encoding; the context is not looked at.
MakePayload(s) ==
  /\ Goes(s, "make", "send")
  /\ \E n \in Payloads[job[s].mode] :
       job' = [job EXCEPT ![s].payload = n, ![s].totalBytes = @ + n]
  /\ UNCHANGED <<server, pipe, ctxDone>>

\* Fault: the chunk before the last is marked.
IsLastEarly(s) == job[s].i + 2 >= job[s].numChunks

IsLast(s) == job[s].i + 1 = job[s].numChunks

\* Fault: the index is not advanced.
SameIndex(s) == job[s].i

NextIndex(s) == job[s].i + 1

Send(s) ==
  /\ Goes(s, "send", "top")
  /\ ~ctxDone[s]
  /\ Len(pipe[s]) < Window
  /\ pipe' = [pipe EXCEPT ![s] = Append(@, [size |-> job[s].payload,
                                            last |-> IsLast(s)])]
  /\ job' = [job EXCEPT ![s].i = NextIndex(s)]
  /\ UNCHANGED <<server, ctxDone>>

\* Send returns an error once the context is done, waiting or not.
SendFails(s) ==
  /\ Goes(s, "send", "failed")
  /\ ctxDone[s]
  /\ UNCHANGED <<server, job, pipe, ctxDone>>

GeneratorStep(s) ==
  Begin(s) \/ NextChunk(s) \/ MakePayload(s) \/ Send(s) \/ SendFails(s)

-----------------------------------------------------------------------------
StopSignal ==
  /\ server = "serving"
  /\ server' = "stopping"
  /\ UNCHANGED <<gen, job, pipe, ctxDone>>

\* The process ends, and with it what it runs.
Ends(how) ==
  /\ server' = how
  /\ gen' = [s \in Streams |-> IF gen[s] \in Active THEN "failed" ELSE gen[s]]
  /\ UNCHANGED <<job, pipe, ctxDone>>

\* Fault: Stop in place of GracefulStop.
NotWaiting == TRUE

NothingRuns == \A s \in Streams : gen[s] \notin Active

\* GracefulStop returns when every handler has.
Stopped == server = "stopping" /\ NothingRuns /\ Ends("stopped")

\* The handlers draw from one rand.Rand, which is not safe for concurrent use:
\* two that draw at once may get any numbers or index outside its table, and
\* that panic ends the process.
Draws(s) == gen[s] \in {"start", "make"}

RngRace ==
  /\ server \in {"serving", "stopping"}
  /\ \E s \in Streams :
       Draws(s) /\ (OtherClients \/ \E t \in Streams \ {s} : Draws(t))
  /\ Ends("crashed")
=============================================================================
