----------------------------- MODULE EgressProofs -----------------------------
(***************************************************************************)
(* Theorems about the proxy's streams over the backend they read from, for *)
(* any number of streams, any jobs of the backend and any window of gRPC.  *)
(***************************************************************************)
EXTENDS Egress, RefinementProofs, SequenceTheorems

USE DEF incoming, ledger, Cancel, Forward, Permits, Recorded

Message == [size : ChunkSizes, last : BOOLEAN]

\* The sizes of the messages of q add up from one total to another: f[k] is the
\* total after k of them.
Adds(q, from, to) ==
  \E f \in [0 .. Len(q) -> Nat] :
    /\ f[0] = from /\ f[Len(q)] = to
    /\ \A k \in 1 .. Len(q) : f[k] = f[k - 1] + q[k].size

LEMMA MessageType ==
  ASSUME NEW m \in Message
  PROVE  m.size \in Nat /\ m.size \in ChunkSizes /\ m.last \in BOOLEAN
  BY MonitorAssumption DEF MonitorAssumption, Message

LEMMA AddsEmpty ==
  ASSUME NEW a \in Nat
  PROVE  Adds(<<>>, a, a) /\ \A b : Adds(<<>>, a, b) => a = b
<1> DEFINE f == [k \in 0 .. 0 |-> a]
<1>1. Len(<<>>) = 0
  OBVIOUS
<1>2. f \in [0 .. 0 -> Nat] /\ f[0] = a /\ \A k \in 1 .. 0 : FALSE
  OBVIOUS
<1> HIDE DEF f
<1> QED BY <1>1, <1>2, Zenon DEF Adds

\* A message at the end raises the last total.
LEMMA AddsAppend ==
  ASSUME NEW q \in Seq(Message), NEW a, NEW b, Adds(q, a, b), NEW m \in Message
  PROVE  Adds(Append(q, m), a, b + m.size)
<1>1. PICK f \in [0 .. Len(q) -> Nat] :
        /\ f[0] = a /\ f[Len(q)] = b
        /\ \A k \in 1 .. Len(q) : f[k] = f[k - 1] + q[k].size
  BY DEF Adds
<1> DEFINE n == Len(q)
           p == Append(q, m)
           g == [k \in 0 .. n + 1 |-> IF k <= n THEN f[k] ELSE b + m.size]
<1>2. /\ n \in Nat /\ Len(p) = n + 1 /\ p[n + 1] = m
      /\ \A k \in 1 .. n : p[k] = q[k]
  BY AppendProperties, LenProperties
<1>3. b \in Nat /\ m.size \in Nat
  BY <1>1, <1>2, MessageType
<1> HIDE DEF n, p
<1>4. g \in [0 .. n + 1 -> Nat] /\ g[0] = a /\ g[n + 1] = b + m.size
  BY <1>1, <1>2, <1>3 DEF n
<1>5. ASSUME NEW k \in 1 .. n + 1
      PROVE  g[k] = g[k - 1] + p[k].size
  <2>1. CASE k = n + 1
    BY <1>1, <1>2, <2>1 DEF n
  <2>2. CASE k <= n
    BY <1>1, <1>2, <2>2 DEF n
  <2> QED BY <1>2, <2>1, <2>2
<1> HIDE DEF g
<1> QED BY <1>2, <1>4, <1>5 DEF Adds, p

\* Without its first message a queue adds up from the total after it.
LEMMA AddsTail ==
  ASSUME NEW q \in Seq(Message), q # <<>>, NEW a, NEW b, Adds(q, a, b)
  PROVE  Adds(Tail(q), a + Head(q).size, b)
<1>1. PICK f \in [0 .. Len(q) -> Nat] :
        /\ f[0] = a /\ f[Len(q)] = b
        /\ \A k \in 1 .. Len(q) : f[k] = f[k - 1] + q[k].size
  BY DEF Adds
<1> DEFINE n == Len(q)
           p == Tail(q)
           g == [k \in 0 .. n - 1 |-> f[k + 1]]
<1>2. /\ n \in Nat \ {0} /\ Len(p) = n - 1 /\ Head(q) = q[1]
      /\ \A k \in 1 .. n - 1 : p[k] = q[k + 1]
  BY HeadTailProperties, EmptySeq
<1> HIDE DEF n, p
<1>3. g \in [0 .. n - 1 -> Nat] /\ g[0] = a + Head(q).size /\ g[n - 1] = b
  BY <1>1, <1>2 DEF n
<1>4. ASSUME NEW k \in 1 .. n - 1
      PROVE  g[k] = g[k - 1] + p[k].size
  BY <1>1, <1>2 DEF n
<1> HIDE DEF g
<1> QED BY <1>2, <1>3, <1>4 DEF Adds, p

-----------------------------------------------------------------------------
\* What is known of a call's generator: until it begins it has made nothing,
\* while it makes a chunk there is one to make, and it returns when there is
\* none.
GeneratorInv(s) ==
  /\ gen[s] \in {"none", "start", "refused"} =>
       /\ job[s].i = 0 /\ job[s].numChunks = 0 /\ job[s].totalBytes = 0
       /\ pipe[s] = <<>>
  /\ gen[s] \in {"make", "send"} => job[s].i < job[s].numChunks
  /\ gen[s] = "send" => job[s].payload \in ChunkSizes
  /\ gen[s] = "returned" => job[s].i = job[s].numChunks

\* The bytes made so far that were handed to gRPC.
Handed(s) == job[s].totalBytes - IF gen[s] = "send" THEN job[s].payload ELSE 0

\* What is known of the messages under way: none is missing, the last flag is
\* on none but the last, and no byte is missing unless a generator failed with
\* chunks to make.
ChannelInv(s) ==
  /\ pipe[s] \in Seq(Message)
  /\ monitor[s].chunkCount + Len(pipe[s]) = job[s].i
  /\ \A k \in 1 .. Len(pipe[s]) :
       pipe[s][k].last => k = Len(pipe[s]) /\ job[s].i = job[s].numChunks
  /\ gen[s] # "failed" \/ job[s].i = job[s].numChunks =>
       Adds(pipe[s], monitor[s].totalBytes, Handed(s))

\* Nothing more will come for the stream.
Exhausted(s) ==
  /\ gen[s] \in {"top", "returned", "failed"}
  /\ job[s].i = job[s].numChunks
  /\ pipe[s] = <<>>

\* What is known of a stream that holds the last chunk or is complete.
EndInv(s) ==
  /\ pc[s] \notin {"finalize", "done"} => outcome[s] = "none"
  /\ pc[s] \in {"evaluate", "write"} /\ chunk[s].last => Exhausted(s)
  /\ outcome[s] = "complete" =>
       Exhausted(s) /\ delivered[s] = monitor[s].totalBytes

\* A generator fails because the call was cancelled or the backend crashed.
CancelInv(s) ==
  /\ ctxDone[s] => cancelled[s]
  /\ server # "crashed" /\ gen[s] = "failed" => cancelled[s]

CallInv(s) == GeneratorInv(s) /\ ChannelInv(s) /\ EndInv(s) /\ CancelInv(s)

EgressInv == EgressTypeOK /\ StreamInv /\ \A s \in Streams : CallInv(s)

-----------------------------------------------------------------------------
LEMMA EgressTypeInit == EgressInit => EgressTypeOK
<1>1. Service!NewJob("normal") \in
        [mode : Service!Modes, numChunks : Nat, i : Nat, payload : Nat,
         totalBytes : Nat]
  BY DEF Service!NewJob, Service!Modes
<1>2. ASSUME EgressInit PROVE Service!BackendTypeOK
  BY <1>1, <1>2, EgressAssumption
  DEF EgressInit, Service!BackendInit, Service!BackendTypeOK, EgressAssumption,
      Service!NewJob
<1> QED BY <1>2, TypeInit DEF EgressInit, EgressTypeOK

LEMMA CallInit == EgressInit => \A s \in Streams : CallInv(s)
<1> SUFFICES ASSUME EgressInit, NEW s \in Streams
             PROVE  CallInv(s)
  OBVIOUS
<1> USE DEF EgressInit, Init, Service!BackendInit, Service!NewJob
<1>1. GeneratorInv(s) /\ EndInv(s) /\ CancelInv(s)
  BY DEF GeneratorInv, EndInv, CancelInv
<1>2. Adds(<<>>, 0, 0)
  BY AddsEmpty
<1>3. ChannelInv(s)
  BY <1>2 DEF ChannelInv, NewMonitor, Handed
<1> QED BY <1>1, <1>3 DEF CallInv

-----------------------------------------------------------------------------
\* The steps of the backend.
JobType == [mode : Service!Modes, numChunks : Nat, i : Nat, payload : Nat,
            totalBytes : Nat]

LEMMA CallTypes ==
  ASSUME EgressTypeOK, NEW s \in Streams
  PROVE  /\ job[s] \in JobType
         /\ job[s].i \in Nat /\ job[s].numChunks \in Nat
         /\ job[s].payload \in Nat /\ job[s].totalBytes \in Nat
         /\ job[s].mode \in Service!Modes
<1>1. job[s] \in JobType
  BY DEF EgressTypeOK, Service!BackendTypeOK, JobType
<1> QED BY <1>1 DEF JobType

\* A step does not touch what is known of the call of stream t.
Still(t) ==
  /\ gen'[t] = gen[t] /\ job'[t] = job[t] /\ pipe'[t] = pipe[t]
  /\ ctxDone'[t] = ctxDone[t]
  /\ pc'[t] = pc[t] /\ outcome'[t] = outcome[t] /\ chunk'[t] = chunk[t]
  /\ delivered'[t] = delivered[t] /\ monitor'[t] = monitor[t]
  /\ cancelled[t] => cancelled'[t]
  /\ server = "crashed" => server' = "crashed"

LEMMA StillInv ==
  ASSUME NEW t \in Streams, CallInv(t), Still(t)
  PROVE  CallInv(t)'
<1> USE DEF CallInv, Still
<1>1. GeneratorInv(t)'
  BY DEF GeneratorInv
<1>2. ChannelInv(t)'
  BY DEF ChannelInv, Handed
<1>3. EndInv(t)'
  BY DEF EndInv, Exhausted
<1>4. CancelInv(t)'
  BY DEF CancelInv
<1> QED BY <1>1, <1>2, <1>3, <1>4

\* The generator draws the number of its chunks.
LEMMA BeginInv ==
  ASSUME EgressInv, NEW s \in Streams, Service!Begin(s), UNCHANGED vars,
         NEW t \in Streams
  PROVE  CallInv(t)'
<1> USE DEF Service!Begin, Service!Goes, vars
<1>1. CallInv(t) /\ CallInv(s)
  BY DEF EgressInv
<1>2. CASE t # s
  BY <1>1, <1>2, StillInv DEF Still, EgressInv, EgressTypeOK,
                              Service!BackendTypeOK
<1>3. CASE t = s
  <2>1. PICK n \in ChunkCounts[job[s].mode] :
          job' = [job EXCEPT ![s].numChunks = n]
    OBVIOUS
  <2>2. n \in Nat \ {0}
    BY CallTypes, EgressAssumption DEF EgressAssumption, EgressInv
  <2>3. /\ gen[s] = "start" /\ gen'[s] = "top"
        /\ job'[s].i = job[s].i /\ job'[s].totalBytes = job[s].totalBytes
        /\ job'[s].payload = job[s].payload /\ job'[s].numChunks = n
    BY <2>1, CallTypes
    DEF EgressInv, EgressTypeOK, Service!BackendTypeOK, JobType
  <2>4. GeneratorInv(s)'
    BY <1>1, <2>3 DEF CallInv, GeneratorInv
  <2>5. pipe[s] = <<>> /\ ChannelInv(s)
    BY <1>1, <2>3 DEF CallInv, GeneratorInv
  <2>6. ChannelInv(s)'
    BY <2>3, <2>5 DEF ChannelInv, Handed
  <2>7. EndInv(s)'
    BY <1>1, <2>3 DEF CallInv, EndInv, Exhausted
  <2>8. CancelInv(s)'
    BY <1>1, <2>3 DEF CallInv, CancelInv
  <2> QED BY <1>3, <2>4, <2>6, <2>7, <2>8 DEF CallInv
<1> QED BY <1>2, <1>3

\* The loop's condition and its select.
LEMMA NextChunkInv ==
  ASSUME EgressInv, NEW s \in Streams, Service!NextChunk(s), UNCHANGED vars,
         NEW t \in Streams
  PROVE  CallInv(t)'
<1> USE DEF Service!NextChunk, Service!Goes, Service!LoopOver, vars
<1>1. CallInv(t) /\ CallInv(s)
  BY DEF EgressInv
<1>2. CASE t # s
  BY <1>1, <1>2, StillInv DEF Still, EgressInv, EgressTypeOK,
                              Service!BackendTypeOK
<1>3. CASE t = s
  <2>1. /\ gen[s] = "top"
        /\ gen'[s] = IF job[s].i = job[s].numChunks THEN "returned"
                     ELSE IF ctxDone[s] THEN "failed" ELSE "make"
        /\ job[s].i <= job[s].numChunks
    BY DEF EgressInv, EgressTypeOK, Service!BackendTypeOK
  <2>2. GeneratorInv(s)'
    BY <1>1, <2>1, CallTypes DEF CallInv, GeneratorInv, EgressInv
  <2>3. ChannelInv(s)'
    BY <1>1, <2>1 DEF CallInv, ChannelInv, Handed
  <2>4. EndInv(s)'
    BY <1>1, <2>1 DEF CallInv, EndInv, Exhausted
  <2>5. CancelInv(s)'
    BY <1>1, <2>1 DEF CallInv, CancelInv
  <2> QED BY <1>3, <2>2, <2>3, <2>4, <2>5 DEF CallInv
<1> QED BY <1>2, <1>3

\* A chunk is made: its bytes are counted, and not handed to gRPC yet.
LEMMA MakePayloadInv ==
  ASSUME EgressInv, NEW s \in Streams, Service!MakePayload(s), UNCHANGED vars,
         NEW t \in Streams
  PROVE  CallInv(t)'
<1> USE DEF Service!MakePayload, Service!Goes, vars
<1>1. CallInv(t) /\ CallInv(s)
  BY DEF EgressInv
<1>2. CASE t # s
  BY <1>1, <1>2, StillInv DEF Still, EgressInv, EgressTypeOK,
                              Service!BackendTypeOK
<1>3. CASE t = s
  <2>1. PICK n \in Payloads[job[s].mode] :
          job' = [job EXCEPT ![s].payload = n, ![s].totalBytes = @ + n]
    OBVIOUS
  <2>2. n \in ChunkSizes /\ n \in Nat
    BY CallTypes, EgressAssumption, MonitorAssumption
    DEF EgressAssumption, MonitorAssumption, EgressInv
  <2>3. /\ gen[s] = "make" /\ gen'[s] = "send"
        /\ job'[s].i = job[s].i /\ job'[s].numChunks = job[s].numChunks
        /\ job'[s].payload = n /\ job'[s].totalBytes = job[s].totalBytes + n
    BY <2>1, CallTypes
    DEF EgressInv, EgressTypeOK, Service!BackendTypeOK, JobType
  <2>4. GeneratorInv(s)'
    BY <1>1, <2>2, <2>3 DEF CallInv, GeneratorInv
  <2>5. Handed(s)' = Handed(s)
    BY <2>2, <2>3, CallTypes DEF Handed, EgressInv
  <2>6. ChannelInv(s)'
    BY <1>1, <2>3, <2>5 DEF CallInv, ChannelInv
  <2>7. EndInv(s)'
    BY <1>1, <2>3 DEF CallInv, EndInv, Exhausted
  <2>8. CancelInv(s)'
    BY <1>1, <2>3 DEF CallInv, CancelInv
  <2> QED BY <1>3, <2>4, <2>6, <2>7, <2>8 DEF CallInv
<1> QED BY <1>2, <1>3

\* The chunk is handed over, flagged if there is no more to make.
LEMMA SendInv ==
  ASSUME EgressInv, NEW s \in Streams, Service!Send(s), UNCHANGED vars,
         NEW t \in Streams
  PROVE  CallInv(t)'
<1> USE DEF Service!Send, Service!Goes, Service!IsLast, Service!NextIndex, vars
<1>1. CallInv(t) /\ CallInv(s)
  BY DEF EgressInv
<1>2. CASE t # s
  BY <1>1, <1>2, StillInv DEF Still, EgressInv, EgressTypeOK,
                              Service!BackendTypeOK
<1>3. CASE t = s
  <2> DEFINE n == Len(pipe[s])
             m == [size |-> job[s].payload,
                   last |-> job[s].i + 1 = job[s].numChunks]
             q == Append(pipe[s], m)
  <2>1. /\ gen[s] = "send" /\ gen'[s] = "top"
        /\ job'[s].i = job[s].i + 1 /\ job'[s].numChunks = job[s].numChunks
        /\ job'[s].payload = job[s].payload
        /\ job'[s].totalBytes = job[s].totalBytes
        /\ pipe'[s] = q
    BY CallTypes DEF EgressInv, EgressTypeOK, Service!BackendTypeOK, JobType
  <2>2. m \in Message
    BY <1>1, <2>1, CallTypes DEF Message, CallInv, GeneratorInv, EgressInv
  <2>3. /\ pipe[s] \in Seq(Message)
        /\ monitor[s].chunkCount + n = job[s].i
        /\ job[s].i < job[s].numChunks
        /\ \A k \in 1 .. n : ~pipe[s][k].last
        /\ Adds(pipe[s], monitor[s].totalBytes, Handed(s))
    BY <1>1, <2>1, CallTypes
    DEF CallInv, ChannelInv, GeneratorInv, EgressInv
  <2>4. /\ q \in Seq(Message) /\ Len(q) = n + 1 /\ n \in Nat
        /\ q[n + 1] = m /\ \A k \in 1 .. n : q[k] = pipe[s][k]
    BY <2>2, <2>3, AppendProperties, LenProperties
  <2>5. Adds(q, monitor[s].totalBytes, Handed(s) + m.size)
    BY <2>2, <2>3, AddsAppend
  <2>6. Handed(s) + m.size = Handed(s)'
    BY <2>1, CallTypes DEF Handed, EgressInv
  <2>7. monitor[s].chunkCount \in Nat /\ job[s].i \in Nat
    BY StreamNumbers, CallTypes DEF EgressInv, EgressTypeOK, MonitorState
  <2>8. m.last => job[s].i + 1 = job[s].numChunks
    OBVIOUS
  <2> HIDE DEF m, q, n
  <2>9. ChannelInv(s)'
    <3>1. \A k \in 1 .. Len(q) :
            q[k].last => k = Len(q) /\ job[s].i + 1 = job[s].numChunks
      BY <2>3, <2>4, <2>8
    <3>2. monitor[s].chunkCount + Len(q) = job[s].i + 1
      <4>1. monitor[s].chunkCount + n = job[s].i /\ Len(q) = n + 1 /\ n \in Nat
        BY <2>3, <2>4
      <4> QED BY <2>7, <4>1
    <3> QED BY <2>1, <2>4, <2>5, <2>6, <3>1, <3>2 DEF ChannelInv
  <2>10. GeneratorInv(s)'
    BY <2>1 DEF GeneratorInv
  <2>11. EndInv(s)'
    BY <1>1, <2>1 DEF CallInv, EndInv, Exhausted
  <2>12. CancelInv(s)'
    BY <1>1, <2>1 DEF CallInv, CancelInv
  <2> QED BY <1>3, <2>9, <2>10, <2>11, <2>12 DEF CallInv
<1> QED BY <1>2, <1>3

\* Send fails on a call that was cancelled.
LEMMA SendFailsInv ==
  ASSUME EgressInv, NEW s \in Streams, Service!SendFails(s), UNCHANGED vars,
         NEW t \in Streams
  PROVE  CallInv(t)'
<1> USE DEF Service!SendFails, Service!Goes, vars
<1>1. CallInv(t) /\ CallInv(s)
  BY DEF EgressInv
<1>2. CASE t # s
  BY <1>1, <1>2, StillInv DEF Still, EgressInv, EgressTypeOK,
                              Service!BackendTypeOK
<1>3. CASE t = s
  <2>1. gen[s] = "send" /\ gen'[s] = "failed" /\ ctxDone[s]
    BY DEF EgressInv, EgressTypeOK, Service!BackendTypeOK
  <2>2. job[s].i < job[s].numChunks /\ job[s].i # job[s].numChunks
    BY <1>1, <2>1, CallTypes DEF CallInv, GeneratorInv, EgressInv
  <2>3. GeneratorInv(s)'
    BY <2>1 DEF GeneratorInv
  <2>4. ChannelInv(s)'
    BY <1>1, <2>1, <2>2 DEF CallInv, ChannelInv
  <2>5. EndInv(s)'
    BY <1>1, <2>1 DEF CallInv, EndInv, Exhausted
  <2>6. CancelInv(s)'
    BY <1>1, <2>1 DEF CallInv, CancelInv
  <2> QED BY <1>3, <2>3, <2>4, <2>5, <2>6 DEF CallInv
<1> QED BY <1>2, <1>3

\* The process stops, or ends with the generators that run.
LEMMA ServerInv ==
  ASSUME EgressInv, UNCHANGED vars,
         Service!StopSignal \/ Service!Stopped \/ Service!RngRace,
         NEW t \in Streams
  PROVE  CallInv(t)'
<1> USE DEF vars
<1>1. CallInv(t)
  BY DEF EgressInv
<1>2. CASE Service!StopSignal
  BY <1>1, <1>2, StillInv DEF Service!StopSignal, Still
<1>3. CASE Service!Stopped
  <2>1. gen'[t] = gen[t]
    BY <1>3 DEF Service!Stopped, Service!Ends, Service!NothingRuns
  <2> QED
    BY <1>1, <1>3, <2>1, StillInv DEF Service!Stopped, Service!Ends, Still
<1>4. CASE Service!RngRace
  <2>1. /\ server' = "crashed" /\ UNCHANGED <<job, pipe, ctxDone>>
        /\ gen'[t] = IF gen[t] \in Service!Active THEN "failed" ELSE gen[t]
    BY <1>4 DEF Service!RngRace, Service!Ends
  <2>2. GeneratorInv(t)'
    BY <1>1, <2>1 DEF CallInv, GeneratorInv, Service!Active
  <2>3. ChannelInv(t)'
    <3>1. gen'[t] # "failed" \/ job[t].i = job[t].numChunks =>
            /\ gen[t] # "failed" \/ job[t].i = job[t].numChunks
            /\ Handed(t)' = Handed(t)
      BY <1>1, <2>1, CallTypes
      DEF CallInv, GeneratorInv, Handed, Service!Active, EgressInv
    <3> QED BY <1>1, <2>1, <3>1 DEF CallInv, ChannelInv
  <2>4. EndInv(t)'
    BY <1>1, <2>1 DEF CallInv, EndInv, Exhausted, Service!Active
  <2>5. CancelInv(t)'
    BY <1>1, <2>1 DEF CallInv, CancelInv
  <2> QED BY <2>2, <2>3, <2>4, <2>5 DEF CallInv
<1> QED BY <1>2, <1>3, <1>4

\* The end of the call's context reaches the backend.
LEMMA CancelArrivesInv ==
  ASSUME EgressInv, NEW s \in Streams, CancelArrives(s), NEW t \in Streams
  PROVE  CallInv(t)'
<1> USE DEF CancelArrives, vars
<1>1. CallInv(t) /\ cancelled[s]
  BY DEF EgressInv
<1>2. ctxDone'[t] => ctxDone[t] \/ t = s
  BY DEF EgressInv, EgressTypeOK, Service!BackendTypeOK
<1>3. GeneratorInv(t)'
  BY <1>1 DEF CallInv, GeneratorInv
<1>4. ChannelInv(t)'
  BY <1>1 DEF CallInv, ChannelInv, Handed
<1>5. EndInv(t)'
  BY <1>1 DEF CallInv, EndInv, Exhausted
<1>6. CancelInv(t)'
  BY <1>1, <1>2 DEF CallInv, CancelInv
<1> QED BY <1>3, <1>4, <1>5, <1>6 DEF CallInv

-----------------------------------------------------------------------------
\* The steps of the proxy that take nothing from the backend.
Quiet(s) ==
  \/ BackendUnavailable(s) \/ ClientDisconnect(s)
  \/ SelectClientGone(s) \/ SelectDefault(s) \/ RecvError(s)
  \/ \E g \in Grades : EvaluateReturn(s, g)
  \/ Write(s) \/ Finalize(s)

\* They move neither total of what was received, and uncancel nothing.
LEMMA QuietTotals ==
  ASSUME TypeOK, NEW s \in Streams, Quiet(s), NEW t \in Streams
  PROVE  /\ monitor'[t].totalBytes = monitor[t].totalBytes
         /\ monitor'[t].chunkCount = monitor[t].chunkCount
         /\ cancelled[t] => cancelled'[t]
<1>1. ASSUME NEW g \in Grades, EvaluateReturn(s, g)
      PROVE  /\ monitor'[t].totalBytes = monitor[t].totalBytes
             /\ monitor'[t].chunkCount = monitor[t].chunkCount
             /\ cancelled[t] => cancelled'[t]
  <2> DEFINE a == AfterThrottleCheck(Graded(monitor[s], g))
             b == [monitor[s] EXCEPT !.killed = TRUE]
  <2>1. monitor[s] \in MonitorState
    BY StreamNumbers
  <2>2. a.totalBytes = monitor[s].totalBytes /\ a.chunkCount = monitor[s].chunkCount
    BY <2>1, GradedType, ThrottleCheckType
  <2>3. b.totalBytes = monitor[s].totalBytes /\ b.chunkCount = monitor[s].chunkCount
    BY <2>1 DEF MonitorState
  <2>4. \/ monitor' = [monitor EXCEPT ![s] = a] /\ UNCHANGED cancelled
        \/ /\ monitor' = [monitor EXCEPT ![s] = b]
           /\ cancelled' = [cancelled EXCEPT ![s] = TRUE]
    BY <1>1 DEF EvaluateReturn, HardKill
  <2> HIDE DEF a, b
  <2>5. cancelled[t] => cancelled'[t]
    BY <2>4 DEF TypeOK
  <2>6. monitor'[t] \in {monitor[t]} \/ (t = s /\ monitor'[t] \in {a, b})
    BY <2>4 DEF TypeOK
  <2> QED BY <2>2, <2>3, <2>5, <2>6
<1>2. CASE monitor' = monitor /\ (cancelled[t] => cancelled'[t])
  BY <1>2
<1> QED
  BY <1>1, <1>2
  DEF Quiet, BackendUnavailable, ClientDisconnect, SelectClientGone,
      SelectDefault, RecvError, Write, WriteOk, WriteFail, Finalize, TypeOK

\* A step that moves neither total nor the backend has only the end of the
\* stream to see to.
LEMMA SameTotalsInv ==
  ASSUME NEW t \in Streams, CallInv(t), UNCHANGED backendVars, EndInv(t)',
         monitor'[t].totalBytes = monitor[t].totalBytes,
         monitor'[t].chunkCount = monitor[t].chunkCount,
         cancelled[t] => cancelled'[t]
  PROVE  CallInv(t)'
<1> USE DEF CallInv, backendVars
<1>1. GeneratorInv(t)'
  BY DEF GeneratorInv
<1>2. ChannelInv(t)'
  BY DEF ChannelInv, Handed
<1>3. CancelInv(t)'
  BY DEF CancelInv
<1> QED BY <1>1, <1>2, <1>3

\* Of these steps only the write of the last chunk makes a stream complete, and
\* with it all that was received was delivered.
LEMMA QuietEnd ==
  ASSUME EgressInv, NEW s \in Streams, Quiet(s), UNCHANGED backendVars,
         NEW t \in Streams
  PROVE  EndInv(t)'
<1>1. EndInv(s) /\ EndInv(t) /\ TypeOK /\ Accounting(s)
  BY DEF EgressInv, EgressTypeOK, CallInv, StreamInv
<1>2. Exhausted(t)' = Exhausted(t)
  BY DEF Exhausted, backendVars
<1>3. monitor'[t].totalBytes = monitor[t].totalBytes
  BY <1>1, QuietTotals
<1>4. CASE WriteOk(s)
  <2>1. /\ pc[s] = "write" /\ pc' = [pc EXCEPT ![s] = pc'[s]]
        /\ delivered' = [delivered EXCEPT ![s] = @ + chunk[s].size]
        /\ \/ /\ chunk[s].last /\ pc'[s] = "finalize"
              /\ outcome' = [outcome EXCEPT ![s] = "complete"]
           \/ pc'[s] = "select" /\ outcome' = outcome
        /\ chunk' = chunk
    BY <1>1, <1>4 DEF WriteOk, LeaveLoop, TypeOK
  <2>2. delivered[s] + chunk[s].size = monitor[s].totalBytes
    BY <1>1, <2>1 DEF Accounting
  <2>3. CASE t # s
    <3>1. /\ pc'[t] = pc[t] /\ outcome'[t] = outcome[t]
          /\ delivered'[t] = delivered[t] /\ chunk'[t] = chunk[t]
      BY <1>1, <2>1, <2>3 DEF TypeOK
    <3> QED BY <1>1, <1>2, <1>3, <3>1 DEF EndInv
  <2>4. CASE t = s
    <3>1. delivered'[s] = monitor[s].totalBytes
      BY <1>1, <2>1, <2>2 DEF TypeOK
    <3>2. outcome'[s] = "complete" => chunk[s].last \/ outcome[s] = "complete"
      BY <1>1, <2>1 DEF TypeOK
    <3>3. outcome[s] = "none"
      BY <1>1, <2>1 DEF EndInv
    <3>4. pc'[s] = "select" => outcome'[s] = "none"
      BY <2>1, <3>3
    <3> QED BY <1>1, <1>2, <1>3, <2>1, <2>4, <3>1, <3>2, <3>3, <3>4 DEF EndInv
  <2> QED BY <2>3, <2>4
<1>5. ASSUME NEW n \in 0 .. chunk[s].size, WriteFail(s, n)
      PROVE  EndInv(t)'
  BY <1>1, <1>2, <1>3, <1>5 DEF WriteFail, LeaveLoop, TypeOK, EndInv
<1>6. CASE \/ BackendUnavailable(s) \/ ClientDisconnect(s)
           \/ SelectClientGone(s) \/ SelectDefault(s) \/ RecvError(s)
  BY <1>1, <1>2, <1>3, <1>6
  DEF BackendUnavailable, ClientDisconnect, SelectClientGone, SelectDefault,
      RecvError, LeaveLoop, TypeOK, EndInv
<1>7. ASSUME NEW g \in Grades, EvaluateReturn(s, g)
      PROVE  EndInv(t)'
  <2>1. /\ pc[s] = "evaluate" /\ UNCHANGED <<chunk, delivered>>
        /\ \/ pc' = [pc EXCEPT ![s] = "write"] /\ UNCHANGED outcome
           \/ /\ pc' = [pc EXCEPT ![s] = "finalize"]
              /\ outcome' = [outcome EXCEPT ![s] = "killed"]
    BY <1>7 DEF EvaluateReturn, HardKill, LeaveLoop
  <2> QED BY <1>1, <1>2, <1>3, <2>1 DEF TypeOK, EndInv
<1>8. CASE Finalize(s)
  BY <1>1, <1>2, <1>3, <1>8 DEF Finalize, TypeOK, EndInv
<1> QED BY <1>4, <1>5, <1>6, <1>7, <1>8 DEF Quiet, Write

LEMMA QuietInv ==
  ASSUME EgressInv, NEW s \in Streams, Quiet(s), UNCHANGED backendVars,
         NEW t \in Streams
  PROVE  CallInv(t)'
<1>1. CallInv(t) /\ TypeOK
  BY DEF EgressInv, EgressTypeOK
<1> QED BY <1>1, QuietEnd, QuietTotals, SameTotalsInv

-----------------------------------------------------------------------------
\* The steps the proxy and the backend share.

\* A call opens: nothing was made, received or delivered yet.
LEMMA OpenInv ==
  ASSUME EgressInv, NEW s \in Streams, Open(s), NEW t \in Streams
  PROVE  CallInv(t)'
<1> USE DEF Service!GetData, Service!Goes
<1>1. CallInv(t) /\ CallInv(s) /\ TypeOK /\ Service!BackendTypeOK
  BY DEF EgressInv, EgressTypeOK
<1>2. PICK m \in Service!Modes : Service!GetData(s, m)
  BY DEF Open
<1>3. PICK d : /\ pc[s] = "idle" /\ pc' = [pc EXCEPT ![s] = "select"]
               /\ monitor' = [monitor EXCEPT ![s] = NewMonitor(d)]
               /\ UNCHANGED <<chunk, outcome, cancelled, delivered>>
  BY DEF Open, StartEnforced, StartBypassed
<1>4. CASE t # s
  <2>1. Still(t)
    BY <1>1, <1>2, <1>3, <1>4 DEF Still, TypeOK, Service!BackendTypeOK
  <2> QED BY <1>1, <2>1, StillInv
<1>5. CASE t = s
  <2>1. /\ gen[s] = "none" /\ gen'[s] \in {"start", "refused"}
        /\ job'[s] = Service!NewJob(m)
        /\ pipe' = pipe /\ ctxDone' = ctxDone
    BY <1>1, <1>2 DEF Service!BackendTypeOK
  <2>2. pipe'[s] = <<>>
    BY <1>1, <2>1 DEF CallInv, GeneratorInv
  <2>3. GeneratorInv(s)'
    BY <2>1, <2>2 DEF GeneratorInv, Service!NewJob
  <2>4. monitor'[s].totalBytes = 0 /\ monitor'[s].chunkCount = 0
    BY <1>1, <1>3 DEF TypeOK, NewMonitor
  <2>5. Adds(<<>>, 0, 0) /\ Handed(s)' = 0
    BY <2>1, AddsEmpty DEF Handed, Service!NewJob
  <2>6. ChannelInv(s)'
    BY <2>1, <2>2, <2>4, <2>5 DEF ChannelInv, Service!NewJob
  <2>7. EndInv(s)'
    BY <1>1, <1>3 DEF CallInv, EndInv, TypeOK
  <2>8. CancelInv(s)'
    BY <1>1, <1>3, <2>1 DEF CallInv, CancelInv
  <2> QED BY <1>5, <2>3, <2>6, <2>7, <2>8 DEF CallInv
<1> QED BY <1>4, <1>5

\* The call's status comes after its last message: at io.EOF the client has
\* everything.
LEMMA RecvStatusInv ==
  ASSUME EgressInv, NEW s \in Streams, RecvStatus(s), NEW t \in Streams
  PROVE  CallInv(t)'
<1>1. CASE RecvError(s)
  BY <1>1, QuietInv DEF Quiet, RecvStatus
<1>2. CASE RecvEOF(s) /\ gen[s] = "returned"
  <2>1. /\ CallInv(t) /\ CallInv(s) /\ TypeOK /\ Accounting(s)
        /\ UNCHANGED backendVars /\ pipe[s] = <<>>
    BY DEF EgressInv, EgressTypeOK, StreamInv, RecvStatus
  <2>2. /\ pc[s] = "recv" /\ pc' = [pc EXCEPT ![s] = "finalize"]
        /\ outcome' = [outcome EXCEPT ![s] = "complete"]
        /\ UNCHANGED <<monitor, chunk, delivered, cancelled>>
    BY <1>2 DEF RecvEOF, LeaveLoop
  <2>3. Exhausted(s) /\ delivered[s] = monitor[s].totalBytes
    BY <1>2, <2>1, <2>2 DEF CallInv, GeneratorInv, Exhausted, Accounting
  <2>4. Exhausted(t)' = Exhausted(t)
    BY <2>1 DEF Exhausted, backendVars
  <2>5. EndInv(t)'
    BY <2>1, <2>2, <2>3, <2>4 DEF CallInv, EndInv, TypeOK
  <2> QED BY <2>1, <2>2, <2>5, SameTotalsInv
<1> QED BY <1>1, <1>2 DEF RecvStatus

\* A message leaves the channel for the handler's hands: what the channel adds
\* up to, and whether it is the last, is what the monitor has counted.
LEMMA RecvMessageInv ==
  ASSUME EgressInv, NEW s \in Streams, RecvMessage(s), NEW t \in Streams
  PROVE  CallInv(t)'
<1> DEFINE q == pipe[s]
           h == Head(q)
<1>1. /\ CallInv(t) /\ CallInv(s) /\ TypeOK /\ Service!BackendTypeOK
      /\ Accounting(s) /\ Grading(s)
  BY DEF EgressInv, EgressTypeOK, StreamInv
<1>2. PICK rate \in Rates : RecvChunk(s, h.size, h.last, rate)
  BY DEF RecvMessage
<1>3. /\ q # <<>> /\ q \in Seq(Message)
      /\ pipe' = [pipe EXCEPT ![s] = Tail(q)]
      /\ UNCHANGED <<server, gen, job, ctxDone>>
  BY <1>1 DEF RecvMessage, CallInv, ChannelInv
<1>4. /\ Tail(q) \in Seq(Message) /\ h \in Message /\ h = q[1]
      /\ Len(q) \in Nat \ {0} /\ Len(Tail(q)) = Len(q) - 1
      /\ \A k \in 1 .. Len(q) - 1 : Tail(q)[k] = q[k + 1]
  BY <1>3, HeadTailProperties, EmptySeq, LenProperties, ElementOfSeq
<1> DEFINE m == Observed(monitor[s], request[s], h.size, rate)
<1>5. h.size \in Nat /\ rate \in Nat /\ h.last \in BOOLEAN
  BY <1>4, MessageType, MonitorAssumption DEF MonitorAssumption
<1>6. /\ m \in MonitorState
      /\ m.totalBytes = monitor[s].totalBytes + h.size
      /\ m.chunkCount = monitor[s].chunkCount + 1
  BY <1>1, <1>5, StreamNumbers, ObservedType
<1>7. /\ pc[s] = "recv" /\ delivered' = delivered
      /\ chunk' = [chunk EXCEPT ![s] = [size |-> h.size, last |-> h.last]]
      /\ \/ HardKill(s, m)
         \/ /\ monitor' = [monitor EXCEPT ![s] = Charged(m)]
            /\ pc' = [pc EXCEPT ![s] = "evaluate"]
            /\ UNCHANGED <<outcome, cancelled>>
         \/ /\ monitor' = [monitor EXCEPT ![s] = AfterThrottleCheck(m)]
            /\ pc' = [pc EXCEPT ![s] = "write"]
            /\ UNCHANGED <<outcome, cancelled>>
  BY <1>2 DEF RecvChunk
<1> HIDE DEF m, h
<1>8. CASE t # s
  <2>1. Still(t)
    BY <1>1, <1>3, <1>7, <1>8
    DEF Still, HardKill, LeaveLoop, TypeOK, Service!BackendTypeOK
  <2> QED BY <1>1, <2>1, StillInv
<1>9. CASE t = s
  <2>1. /\ pipe'[s] = Tail(q) /\ gen'[s] = gen[s] /\ job'[s] = job[s]
        /\ chunk'[s].last = h.last
    BY <1>1, <1>3, <1>7 DEF Service!BackendTypeOK, TypeOK
  <2>2. /\ monitor'[s].totalBytes = m.totalBytes
        /\ monitor'[s].chunkCount = m.chunkCount
    <3>1. /\ AfterThrottleCheck(m).totalBytes = m.totalBytes
          /\ AfterThrottleCheck(m).chunkCount = m.chunkCount
      BY <1>6, ThrottleCheckType
    <3>2. /\ Charged(m).totalBytes = m.totalBytes
          /\ Charged(m).chunkCount = m.chunkCount
          /\ [m EXCEPT !.killed = TRUE].totalBytes = m.totalBytes
          /\ [m EXCEPT !.killed = TRUE].chunkCount = m.chunkCount
      BY <1>6 DEF Charged, MonitorState
    <3>3. monitor'[s] \in {AfterThrottleCheck(m), Charged(m),
                           [m EXCEPT !.killed = TRUE]}
      BY <1>1, <1>7 DEF HardKill, TypeOK
    <3> QED BY <3>1, <3>2, <3>3
  <2>3. GeneratorInv(s) /\ ChannelInv(s) /\ EndInv(s) /\ CancelInv(s)
    BY <1>1 DEF CallInv
  <2>4. gen[s] \notin {"none", "start", "refused"}
    BY <1>3, <2>3 DEF GeneratorInv
  <2>5. GeneratorInv(s)'
    BY <2>1, <2>3, <2>4 DEF GeneratorInv
  <2>6. monitor[s].chunkCount \in Nat /\ job[s].i \in Nat /\ Len(q) \in Nat
    BY <1>1, <1>4, StreamNumbers, CallTypes DEF MonitorState, EgressInv
  <2>7. ChannelInv(s)'
    <3> DEFINE a == monitor[s].chunkCount
               n == Len(q)
    <3>0. a + n = job[s].i /\ Len(Tail(q)) = n - 1 /\ m.chunkCount = a + 1
      BY <1>4, <1>6, <2>3 DEF ChannelInv
    <3>1. monitor'[s].chunkCount + Len(Tail(q)) = job[s].i
      <4> HIDE DEF a, n
      <4>1. a \in Nat /\ n \in Nat
        BY <2>6 DEF a, n
      <4>2. (a + 1) + (n - 1) = a + n
        BY <4>1
      <4> QED BY <2>2, <3>0, <4>2
    <3>2. ASSUME NEW k \in 1 .. Len(Tail(q)), Tail(q)[k].last
          PROVE  k = Len(Tail(q)) /\ job[s].i = job[s].numChunks
      <4>1. k + 1 \in 1 .. Len(q) /\ q[k + 1].last
        BY <1>4, <2>6, <3>2
      <4>2. k + 1 = Len(q) /\ job[s].i = job[s].numChunks
        BY <2>3, <4>1 DEF ChannelInv
      <4> QED BY <1>4, <4>2
    <3>3. gen[s] # "failed" \/ job[s].i = job[s].numChunks =>
            Adds(Tail(q), monitor[s].totalBytes + h.size, Handed(s))
      BY <1>3, <2>3, AddsTail DEF ChannelInv, h
    <3>4. Handed(s)' = Handed(s)
      BY <2>1 DEF Handed
    <3> HIDE DEF q
    <3> QED BY <1>4, <1>6, <2>1, <2>2, <3>1, <3>2, <3>3, <3>4 DEF ChannelInv
  <2>8. EndInv(s)'
    <3>1. ASSUME h.last PROVE Exhausted(s)'
      <4>1. 1 = Len(q) /\ job[s].i = job[s].numChunks
        <5>1. 1 \in 1 .. Len(q) /\ q[1].last
          BY <1>4, <3>1
        <5> QED BY <2>3, <5>1 DEF ChannelInv
      <4>2. Tail(q) = <<>>
        <5>1. Len(Tail(q)) = 0
          BY <1>4, <4>1
        <5> QED BY <1>4, <5>1, EmptySeq
      <4>3. gen[s] \in {"top", "returned", "failed"}
        BY <1>1, <2>3, <2>4, <2>6, <4>1, CallTypes
        DEF GeneratorInv, Service!BackendTypeOK, Service!Active, EgressInv
      <4> QED BY <2>1, <4>1, <4>2, <4>3 DEF Exhausted
    <3>2. outcome[s] = "none"
      BY <1>7, <2>3 DEF EndInv
    <3>3. \/ pc'[s] \in {"evaluate", "write"} /\ outcome'[s] = "none"
          \/ pc'[s] = "finalize" /\ outcome'[s] = "killed"
      BY <1>1, <1>7, <3>2 DEF HardKill, LeaveLoop, TypeOK
    <3> QED BY <2>1, <3>1, <3>3 DEF EndInv
  <2>9. CancelInv(s)'
    BY <1>1, <1>3, <1>7, <2>3 DEF CancelInv, HardKill, TypeOK
  <2> QED BY <1>9, <2>5, <2>7, <2>8, <2>9 DEF CallInv
<1> QED BY <1>8, <1>9

-----------------------------------------------------------------------------
\* Of the backend a step of the composition takes one of these.
LEMMA Steps ==
  ASSUME EgressNext
  PROVE  \/ \E s \in Streams :
              \/ Open(s)
              \/ Quiet(s) /\ UNCHANGED backendVars
              \/ RecvMessage(s)
              \/ RecvStatus(s)
              \/ CancelArrives(s)
              \/ /\ UNCHANGED vars
                 /\ \/ Service!Begin(s) \/ Service!NextChunk(s)
                    \/ Service!MakePayload(s) \/ Service!Send(s)
                    \/ Service!SendFails(s)
         \/ /\ Service!StopSignal \/ Service!Stopped \/ Service!RngRace
            /\ UNCHANGED vars
         \/ UNCHANGED evars
  BY Zenon DEF EgressNext, ProxyStep, BackendStep, ConnectionLost, Bounded,
         Quiet, AllOver, AllServed, Service!GeneratorStep, evars

\* To the monitor every step of the composition is one of its own.
LEMMA MonitorStep ==
  ASSUME EgressInv, [EgressNext]_evars
  PROVE  [Next]_vars
<1>1. ASSUME NEW s \in Streams, Open(s)
      PROVE  Next
  BY <1>1 DEF Open, Next, Start
<1>2. ASSUME NEW s \in Streams, Quiet(s)
      PROVE  Next
  BY <1>2, Zenon DEF Quiet, Next, Start, Recv
<1>3. ASSUME NEW s \in Streams, RecvMessage(s)
      PROVE  Next
  <2> DEFINE h == Head(pipe[s])
  <2>1. pipe[s] \in Seq(Message) /\ pipe[s] # <<>>
    BY <1>3 DEF RecvMessage, EgressInv, CallInv, ChannelInv
  <2>2. h \in Message
    BY <2>1, HeadTailProperties
  <2>3. h.size \in ChunkSizes /\ h.last \in BOOLEAN
    BY <2>2, MessageType
  <2>4. \E rate \in Rates : RecvChunk(s, h.size, h.last, rate)
    BY <1>3 DEF RecvMessage
  <2> HIDE DEF h
  <2> QED BY <2>3, <2>4 DEF Next, Recv
<1>4. ASSUME NEW s \in Streams, RecvStatus(s)
      PROVE  Next
  BY <1>4, Zenon DEF RecvStatus, Next, Recv
<1>5. CASE UNCHANGED vars
  BY <1>5
<1>6. ASSUME NEW s \in Streams, CancelArrives(s)
      PROVE  UNCHANGED vars
  BY <1>6 DEF CancelArrives
<1>7. CASE UNCHANGED evars
  BY <1>7 DEF evars
<1> QED BY <1>1, <1>2, <1>3, <1>4, <1>5, <1>6, <1>7, Steps, Zenon DEF evars

\* A job replaced by a job.
LEMMA JobReplaced ==
  ASSUME Service!BackendTypeOK, NEW s \in Streams, NEW j \in JobType,
         j.i <= j.numChunks, job' = [job EXCEPT ![s] = j]
  PROVE  /\ job' \in [Streams -> JobType]
         /\ \A t \in Streams : job'[t].i <= job'[t].numChunks
<1>1. job \in [Streams -> JobType]
  BY DEF Service!BackendTypeOK, JobType
<1>2. \A t \in Streams : job'[t] = IF t = s THEN j ELSE job[t]
  BY <1>1
<1>3. \A t \in Streams : job[t].i <= job[t].numChunks
  BY DEF Service!BackendTypeOK
<1> QED BY <1>1, <1>2, <1>3

\* The generators, their jobs and the channels stay well typed, and no channel
\* holds more than its window.
LEMMA BackendTypeStep ==
  ASSUME EgressInv, [EgressNext]_evars
  PROVE  Service!BackendTypeOK'
<1>0. Service!BackendTypeOK
  BY DEF EgressInv, EgressTypeOK
<1> USE DEF Service!BackendTypeOK, Service!Goes
<1>1. ASSUME NEW s \in Streams, NEW m \in Service!Modes, Service!GetData(s, m)
      PROVE  Service!BackendTypeOK'
  <2>1. Service!NewJob(m) \in JobType
    BY DEF Service!NewJob, JobType
  <2> QED
    BY <1>0, <1>1, <2>1
    DEF Service!GetData, Service!Active, Service!NewJob, JobType
<1>2. ASSUME NEW s \in Streams,
             Service!NextChunk(s) \/ Service!SendFails(s) \/ CancelArrives(s)
      PROVE  Service!BackendTypeOK'
  BY <1>0, <1>2
  DEF Service!NextChunk, Service!SendFails, CancelArrives, Service!Active
<1>3. ASSUME NEW s \in Streams,
             Service!Begin(s) \/ Service!MakePayload(s) \/ Service!Send(s)
      PROVE  Service!BackendTypeOK'
  <2>1. job[s] \in JobType /\ job[s].mode \in Service!Modes
    BY CallTypes DEF EgressInv
  <2>2. GeneratorInv(s) /\ pipe[s] \in Seq(Message)
    BY DEF EgressInv, CallInv, ChannelInv
  <2>3. CASE Service!Begin(s)
    <3>1. PICK n \in ChunkCounts[job[s].mode] :
            job' = [job EXCEPT ![s].numChunks = n]
      BY <2>3 DEF Service!Begin
    <3>2. n \in Nat /\ job[s].i = 0
      BY <2>1, <2>2, <2>3, EgressAssumption
      DEF EgressAssumption, GeneratorInv, Service!Begin
    <3> DEFINE j == [job[s] EXCEPT !.numChunks = n]
    <3>3. j \in JobType /\ j.i <= j.numChunks /\ job' = [job EXCEPT ![s] = j]
      <4>1. j \in JobType /\ j.i <= j.numChunks
        BY <2>1, <3>2 DEF JobType
      <4>2. job' = [job EXCEPT ![s] = j]
        BY <3>1
      <4> QED BY <4>1, <4>2
    <3> HIDE DEF j
    <3>4. /\ job' \in [Streams -> JobType]
          /\ \A t \in Streams : job'[t].i <= job'[t].numChunks
      BY <1>0, <3>3, JobReplaced
    <3> QED BY <1>0, <2>3, <3>4 DEF Service!Begin, Service!Active, JobType
  <2>4. CASE Service!MakePayload(s)
    <3>1. PICK n \in Payloads[job[s].mode] :
            job' = [job EXCEPT ![s].payload = n, ![s].totalBytes = @ + n]
      BY <2>4 DEF Service!MakePayload
    <3>2. n \in Nat
      BY <2>1, EgressAssumption, MonitorAssumption
      DEF EgressAssumption, MonitorAssumption
    <3> DEFINE j == [job[s] EXCEPT !.payload = n, !.totalBytes = @ + n]
    <3>3. j \in JobType /\ j.i <= j.numChunks /\ job' = [job EXCEPT ![s] = j]
      <4>1. j \in JobType /\ j.i <= j.numChunks
        <5>1. job[s].i <= job[s].numChunks
          BY <1>0
        <5>2. job[s].totalBytes + n \in Nat
          BY <2>1, <3>2 DEF JobType
        <5> DEFINE b == job[s].totalBytes + n
        <5>3. j = [job[s] EXCEPT !.payload = n, !.totalBytes = b]
          OBVIOUS
        <5> HIDE DEF j, b
        <5>4. b \in Nat
          BY <5>2 DEF b
        <5> QED BY <2>1, <3>2, <5>1, <5>3, <5>4 DEF JobType
      <4>2. job' = [job EXCEPT ![s] = j]
        BY <3>1
      <4> QED BY <4>1, <4>2
    <3> HIDE DEF j
    <3>4. /\ job' \in [Streams -> JobType]
          /\ \A t \in Streams : job'[t].i <= job'[t].numChunks
      BY <1>0, <3>3, JobReplaced
    <3> QED BY <1>0, <2>4, <3>4 DEF Service!MakePayload, Service!Active, JobType
  <2>5. CASE Service!Send(s)
    <3> DEFINE m == [size |-> job[s].payload, last |-> Service!IsLast(s)]
    <3>1. m \in [size : Nat, last : BOOLEAN]
      BY <2>1 DEF JobType, Service!IsLast
    <3>2. pipe[s] \in Seq([size : Nat, last : BOOLEAN])
      BY <1>0
    <3>3. /\ Append(pipe[s], m) \in Seq([size : Nat, last : BOOLEAN])
          /\ Len(Append(pipe[s], m)) = Len(pipe[s]) + 1
          /\ Len(pipe[s]) \in Nat
      BY <3>1, <3>2, AppendProperties, LenProperties
    <3>4. /\ pipe' = [pipe EXCEPT ![s] = Append(pipe[s], m)]
          /\ Len(pipe[s]) < Window /\ Window \in Nat
      BY <2>5, EgressAssumption DEF Service!Send, EgressAssumption
    <3> HIDE DEF m
    <3>5. /\ pipe' \in [Streams -> Seq([size : Nat, last : BOOLEAN])]
          /\ \A t \in Streams : Len(pipe'[t]) <= Window
      BY <1>0, <3>3, <3>4
    <3>6. job[s].i < job[s].numChunks
      BY <2>2, <2>5 DEF Service!Send, GeneratorInv
    <3>7. /\ job' \in [Streams -> JobType]
          /\ \A t \in Streams : job'[t].i <= job'[t].numChunks
      <4> DEFINE j == [job[s] EXCEPT !.i = @ + 1]
      <4>1. j \in JobType /\ j.i <= j.numChunks /\ job' = [job EXCEPT ![s] = j]
        <5>1. j \in JobType /\ j.i <= j.numChunks
          BY <2>1, <3>6 DEF JobType
        <5>2. job' = [job EXCEPT ![s] = j]
          BY <2>5 DEF Service!Send, Service!NextIndex
        <5> QED BY <5>1, <5>2
      <4> HIDE DEF j
      <4> QED BY <1>0, <4>1, JobReplaced
    <3> QED
      BY <1>0, <2>5, <3>5, <3>7 DEF Service!Send, Service!Active, JobType
  <2> QED BY <1>3, <2>3, <2>4, <2>5
<1>4. ASSUME NEW s \in Streams, RecvMessage(s)
      PROVE  Service!BackendTypeOK'
  <2>1. /\ pipe[s] # <<>> /\ pipe[s] \in Seq([size : Nat, last : BOOLEAN])
        /\ pipe' = [pipe EXCEPT ![s] = Tail(pipe[s])]
        /\ UNCHANGED <<server, gen, job, ctxDone>>
    BY <1>0, <1>4 DEF RecvMessage
  <2>2. /\ Tail(pipe[s]) \in Seq([size : Nat, last : BOOLEAN])
        /\ Len(Tail(pipe[s])) = Len(pipe[s]) - 1 /\ Len(pipe[s]) \in Nat
    BY <2>1, HeadTailProperties, LenProperties
  <2>3. Len(Tail(pipe[s])) <= Window
    BY <1>0, <2>2, EgressAssumption DEF EgressAssumption
  <2> QED BY <1>0, <2>1, <2>2, <2>3
<1>5. CASE Service!StopSignal \/ Service!Stopped \/ Service!RngRace
  BY <1>0, <1>5
  DEF Service!StopSignal, Service!Stopped, Service!RngRace, Service!Ends
<1>6. CASE UNCHANGED backendVars
  BY <1>0, <1>6 DEF backendVars
<1>7. ASSUME NEW s \in Streams, RecvStatus(s)
      PROVE  UNCHANGED backendVars
  BY <1>7 DEF RecvStatus
<1>8. ASSUME NEW s \in Streams, Open(s)
      PROVE  \E m \in Service!Modes : Service!GetData(s, m)
  BY <1>8 DEF Open
<1> HIDE DEF Service!BackendTypeOK, Service!Goes
<1>9. CASE UNCHANGED evars
  BY <1>6, <1>9 DEF evars
<1> QED
  BY <1>1, <1>2, <1>3, <1>4, <1>5, <1>6, <1>7, <1>8, <1>9, Steps, Zenon

LEMMA CallStep ==
  ASSUME EgressInv, [EgressNext]_evars, NEW t \in Streams
  PROVE  CallInv(t)'
<1>1. CASE UNCHANGED evars
  <2>1. CallInv(t)
    BY DEF EgressInv
  <2> QED BY <1>1, <2>1, StillInv DEF evars, vars, backendVars, Still
<1> QED
  BY <1>1, Steps, OpenInv, QuietInv, RecvMessageInv, RecvStatusInv,
     CancelArrivesInv, BeginInv, NextChunkInv, MakePayloadInv, SendInv,
     SendFailsInv, ServerInv, Zenon

LEMMA EgressInvInit == EgressInit => EgressInv
  BY EgressTypeInit, CallInit, StreamInvInit DEF EgressInv, EgressInit

LEMMA EgressInvNext == EgressInv /\ [EgressNext]_evars => EgressInv'
<1> SUFFICES ASSUME EgressInv, [EgressNext]_evars
             PROVE  EgressInv'
  OBVIOUS
<1>1. [Next]_vars /\ TypeOK /\ StreamInv
  BY MonitorStep DEF EgressInv, EgressTypeOK
<1>2. TypeOK' /\ StreamInv'
  BY <1>1, TypeNext, StreamInvNext
<1>3. Service!BackendTypeOK'
  BY BackendTypeStep
<1>4. \A t \in Streams : CallInv(t)'
  BY CallStep
<1> QED BY <1>2, <1>3, <1>4 DEF EgressInv, EgressTypeOK

LEMMA EgressInvariant == EgressSpec => []EgressInv
  BY EgressInvInit, EgressInvNext, PTL DEF EgressSpec

-----------------------------------------------------------------------------
\* The streams, the generators and the channels between them stay well typed,
\* and no channel holds more than its window.
THEOREM EgressTypeTheorem == EgressSpec => []EgressTypeOK
<1>1. EgressInv => EgressTypeOK
  BY DEF EgressInv
<1> QED BY <1>1, EgressInvariant, PTL

\* A stream is only called complete when every chunk and every byte the
\* generator made was delivered.
THEOREM CompleteTheorem == EgressSpec => []CompleteIsWhole
<1>1. ASSUME EgressInv PROVE CompleteIsWhole
  <2>1. SUFFICES ASSUME NEW s \in Streams, outcome[s] = "complete"
                 PROVE  /\ monitor[s].chunkCount = job[s].numChunks
                        /\ delivered[s] = job[s].totalBytes
    BY DEF CompleteIsWhole
  <2>2. /\ gen[s] \in {"top", "returned", "failed"}
        /\ job[s].i = job[s].numChunks
        /\ pipe[s] = <<>>
        /\ delivered[s] = monitor[s].totalBytes
        /\ ChannelInv(s)
    BY <1>1, <2>1 DEF EgressInv, CallInv, EndInv, Exhausted
  <2>3. monitor[s].totalBytes \in Nat /\ monitor[s].chunkCount \in Nat
    BY <1>1, StreamNumbers DEF EgressInv, EgressTypeOK, MonitorState
  <2>4. Handed(s) = job[s].totalBytes
    BY <1>1, <2>2, CallTypes DEF Handed, EgressInv
  <2>5. Adds(<<>>, monitor[s].totalBytes, job[s].totalBytes)
    BY <2>2, <2>4 DEF ChannelInv
  <2>6. monitor[s].totalBytes = job[s].totalBytes
    BY <2>3, <2>5, AddsEmpty
  <2>7. monitor[s].chunkCount = job[s].i
    BY <2>2, <2>3 DEF ChannelInv
  <2> QED BY <2>2, <2>6, <2>7
<1> QED BY <1>1, EgressInvariant, PTL

\* A graceful stop cuts nothing: a generator fails only after its call was
\* cancelled.
THEOREM GracefulStopTheorem == EgressSpec => []GracefulStopDrains
<1>1. EgressInv => GracefulStopDrains
  BY DEF EgressInv, CallInv, CancelInv, GracefulStopDrains
<1> QED BY <1>1, EgressInvariant, PTL

\* Over this backend a stream does nothing Monitor does not allow it over any:
\* initial states are its initial states and steps its steps or stutters, so
\* what is proved of them there holds here.
THEOREM EgressIsMonitor == EgressSpec => Init /\ [][Next]_vars
<1>1. EgressInit => Init
  BY DEF EgressInit
<1>2. EgressInv /\ [EgressNext]_evars => [Next]_vars
  BY MonitorStep
<1> QED BY <1>1, <1>2, EgressInvariant, PTL DEF EgressSpec

\* So over the demo backend, too, with its windows, its races and its stops,
\* limits, grades, throttle and history are what they are over any.
THEOREM EgressSafety == EgressSpec => StreamsSafe
  BY EgressIsMonitor, MonitorSafety, PTL

\* And proxy and backend together implement the contract.
THEOREM EgressContractTheorem ==
  EgressSpec => Contract!Init /\ [][Contract!CNext]_(Contract!cvars)
<1>1. EgressInv /\ [EgressNext]_evars => [Contract!CNext]_(Contract!cvars)
  BY MonitorStep, ContractStep DEF EgressInv, EgressTypeOK
<1>2. EgressInit => Contract!Init
  BY ContractInit DEF EgressInit
<1> HIDE DEF Contract!cvars
<1> QED BY <1>1, <1>2, EgressInvariant, PTL DEF EgressSpec
-----------------------------------------------------------------------------
\* How far a generator is from its end once its context is done.
GeneratorLeft ==
  [none |-> 5, start |-> 4, make |-> 3, send |-> 2, top |-> 1, refused |-> 0,
   returned |-> 0, failed |-> 0]

LEMMA GeneratorLeftValues ==
  /\ GeneratorLeft["none"] = 5 /\ GeneratorLeft["start"] = 4
  /\ GeneratorLeft["make"] = 3 /\ GeneratorLeft["send"] = 2
  /\ GeneratorLeft["top"] = 1 /\ GeneratorLeft["refused"] = 0
  /\ GeneratorLeft["returned"] = 0 /\ GeneratorLeft["failed"] = 0
  BY DEF GeneratorLeft

WindsUp(s) ==
  /\ gen'[s] = gen[s] \/ GeneratorLeft[gen'[s]] < GeneratorLeft[gen[s]]
  /\ Len(pipe'[s]) <= Len(pipe[s])

\* Once the end of its call has reached it, a generator goes on to its own: it
\* makes at most one more chunk, and sends none.
CancelledWindsUp == [][\A s \in Streams : ctxDone[s] => WindsUp(s)]_evars

LEMMA WindsUpStep ==
  ASSUME EgressInv, [EgressNext]_evars, NEW t \in Streams, ctxDone[t]
  PROVE  WindsUp(t)
<1>1. /\ gen \in [Streams -> {"none", "start", "top", "make", "send", "refused",
                              "returned", "failed"}]
      /\ pipe \in [Streams -> Seq([size : Nat, last : BOOLEAN])]
  BY DEF EgressInv, EgressTypeOK, Service!BackendTypeOK, Service!Active
<1>2. Len(pipe[t]) \in Nat
  BY <1>1
<1>3. ASSUME UNCHANGED <<gen, pipe>> PROVE WindsUp(t)
  BY <1>2, <1>3 DEF WindsUp
<1> USE GeneratorLeftValues DEF WindsUp, Service!Goes
<1>4. ASSUME NEW s \in Streams, NEW m \in Service!Modes, Service!GetData(s, m)
      PROVE  WindsUp(t)
  BY <1>1, <1>2, <1>4 DEF Service!GetData
<1>5. ASSUME NEW s \in Streams,
             \/ Service!Begin(s) \/ Service!NextChunk(s) \/ Service!MakePayload(s)
             \/ Service!SendFails(s)
      PROVE  WindsUp(t)
  BY <1>1, <1>2, <1>5
  DEF Service!Begin, Service!NextChunk, Service!MakePayload, Service!SendFails
<1>6. ASSUME NEW s \in Streams, Service!Send(s)
      PROVE  WindsUp(t)
  <2>1. s # t
    BY <1>6 DEF Service!Send
  <2> QED BY <1>1, <1>2, <1>6, <2>1 DEF Service!Send
<1>7. ASSUME NEW s \in Streams, RecvMessage(s)
      PROVE  WindsUp(t)
  <2>1. /\ gen' = gen /\ pipe[s] # <<>>
        /\ pipe' = [pipe EXCEPT ![s] = Tail(@)]
    BY <1>7 DEF RecvMessage
  <2>2. Len(Tail(pipe[s])) = Len(pipe[s]) - 1
    BY <1>1, <2>1
  <2> QED BY <1>1, <1>2, <2>1, <2>2
<1>8. ASSUME NEW how, Service!Ends(how)
      PROVE  WindsUp(t)
  BY <1>1, <1>2, <1>8 DEF Service!Ends, Service!Active
<1> HIDE GeneratorLeftValues DEF WindsUp, Service!Goes
<1>9. ASSUME NEW s \in Streams, Open(s)
      PROVE  WindsUp(t)
  BY <1>4, <1>9 DEF Open
<1>10. ASSUME NEW s \in Streams,
              \/ Quiet(s) /\ UNCHANGED backendVars
              \/ RecvStatus(s) \/ CancelArrives(s)
       PROVE  WindsUp(t)
  BY <1>3, <1>10 DEF RecvStatus, CancelArrives, backendVars
<1>11. CASE Service!StopSignal \/ Service!Stopped \/ Service!RngRace
  BY <1>3, <1>8, <1>11
  DEF Service!StopSignal, Service!Stopped, Service!RngRace
<1>12. CASE UNCHANGED evars
  BY <1>3, <1>12 DEF evars, backendVars
<1> QED BY <1>5, <1>6, <1>7, <1>9, <1>10, <1>11, <1>12, Steps, Zenon

\* What is left of GeneratorEnds without fairness: a generator whose call was
\* cancelled is at most four steps from its end, and none of them puts another
\* message in the channel.
THEOREM CancelledTheorem == EgressSpec => CancelledWindsUp
<1>1. EgressInv /\ [EgressNext]_evars =>
        [\A s \in Streams : ctxDone[s] => WindsUp(s)]_evars
  BY WindsUpStep
<1> QED BY <1>1, EgressInvariant, PTL DEF EgressSpec, CancelledWindsUp
=============================================================================
