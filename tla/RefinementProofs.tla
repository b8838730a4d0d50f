--------------------------- MODULE RefinementProofs ---------------------------
(***************************************************************************)
(* The monitor implements the egress contract, for any number of streams,  *)
(* any requests, histories and chunk sizes: every step of a stream is one   *)
(* the contract allows, or none.                                           *)
(***************************************************************************)
EXTENDS MonitorRefinement, MonitorProofs

USE DEF incoming, ledger, Cancel, Forward, Permits, Recorded

-----------------------------------------------------------------------------
\* The contract's variables, as functions of the monitor's.
Status   == [s \in Streams |-> StatusOf(s)]
Limits   == [s \in Streams |-> [allowed |-> monitor[s].decision.allowed,
                                ceiling |-> monitor[s].decision.ceiling]]
Fetched  == [s \in Streams |-> monitor[s].totalBytes]
Pardons  == [s \in Streams |-> Pardoned(s)]

\* A stream that is in the loop is open.
LEMMA OpenInLoop ==
  ASSUME NEW s \in Streams, pc[s] \in {"select", "recv", "evaluate", "write"}
  PROVE  Status[s] = "open"
  BY DEF Status, StatusOf

LEMMA OpenInLoopNext ==
  ASSUME NEW s \in Streams, pc'[s] \in {"select", "recv", "evaluate", "write"}
  PROVE  StatusOf(s)' = "open"
  BY DEF StatusOf

\* A step of one stream moves the contract's variables only where they are
\* about it.
LEMMA OneMoves ==
  ASSUME TypeOK, TypeOK', NEW s \in Streams,
         \A t \in Streams \ {s} : Untouched(t)
  PROVE  /\ Status' = [Status EXCEPT ![s] = StatusOf(s)']
         /\ Limits' = [Limits EXCEPT ![s] =
                         [allowed |-> monitor'[s].decision.allowed,
                          ceiling |-> monitor'[s].decision.ceiling]]
         /\ Fetched' = [Fetched EXCEPT ![s] = monitor'[s].totalBytes]
         /\ Pardons' = [Pardons EXCEPT ![s] = Pardoned(s)']
         /\ delivered' = [delivered EXCEPT ![s] = delivered'[s]]
         /\ recorded' = [recorded EXCEPT ![s] = recorded'[s]]
<1>1. Status' = [Status EXCEPT ![s] = StatusOf(s)']
  BY DEF Untouched, Status, StatusOf
<1>2. Limits' = [Limits EXCEPT ![s] =
                   [allowed |-> monitor'[s].decision.allowed,
                    ceiling |-> monitor'[s].decision.ceiling]]
  BY DEF Untouched, Limits
<1>3. Fetched' = [Fetched EXCEPT ![s] = monitor'[s].totalBytes]
  BY DEF Untouched, Fetched
<1>4. Pardons' = [Pardons EXCEPT ![s] = Pardoned(s)']
  BY DEF Untouched, Pardons, Pardoned
<1>5. /\ delivered' = [delivered EXCEPT ![s] = delivered'[s]]
      /\ recorded' = [recorded EXCEPT ![s] = recorded'[s]]
  BY DEF Untouched, TypeOK
<1> QED BY <1>1, <1>2, <1>3, <1>4, <1>5

\* What a step of s does not move.
SameLimit(s)   == /\ monitor'[s].decision.allowed = monitor[s].decision.allowed
                  /\ monitor'[s].decision.ceiling = monitor[s].decision.ceiling
SameFetched(s) == monitor'[s].totalBytes = monitor[s].totalBytes
SamePardon(s)  == Pardoned(s)' = Pardoned(s)

LEMMA NotMoved ==
  ASSUME TypeOK, TypeOK', NEW s \in Streams,
         \A t \in Streams \ {s} : Untouched(t)
  PROVE  /\ StatusOf(s)' = StatusOf(s) => Status' = Status
         /\ SameLimit(s) => Limits' = Limits
         /\ SameFetched(s) => Fetched' = Fetched
         /\ SamePardon(s) => Pardons' = Pardons
         /\ delivered'[s] = delivered[s] => delivered' = delivered
         /\ recorded'[s] = recorded[s] => recorded' = recorded
<1>1. StatusOf(s)' = StatusOf(s) => Status' = Status
  BY OneMoves DEF Status
<1>2. SameLimit(s) => Limits' = Limits
  BY OneMoves DEF Limits, SameLimit
<1>3. SameFetched(s) => Fetched' = Fetched
  BY OneMoves DEF Fetched, SameFetched
<1>4. SamePardon(s) => Pardons' = Pardons
  BY OneMoves DEF Pardons, SamePardon
<1>5. /\ delivered'[s] = delivered[s] => delivered' = delivered
      /\ recorded'[s] = recorded[s] => recorded' = recorded
  BY OneMoves DEF TypeOK
<1> QED BY <1>1, <1>2, <1>3, <1>4, <1>5

-----------------------------------------------------------------------------
\* The contract's actions, over the monitor's variables.
USE DEF Contract!cvars

\* A request is admitted with limits the contract knows.
LEMMA AdmitStep ==
  ASSUME TypeOK, TypeOK', StreamInv, NEW s \in Streams, NEW d \in Decision,
         d.allowed \in Amounts, d.ceiling \in Amounts,
         pc[s] = "idle",
         monitor' = [monitor EXCEPT ![s] = NewMonitor(d)],
         pc' = [pc EXCEPT ![s] = "select"],
         UNCHANGED <<chunk, grade, delivered, recorded>>
  PROVE  Contract!CNext
<1>1. \A t \in Streams \ {s} : Untouched(t)
  BY DEF TypeOK, Untouched
<1>2. /\ monitor'[s].totalBytes = 0 /\ monitor'[s].decision = d
      /\ pc'[s] = "select" /\ grade'[s] = grade[s]
  BY DEF TypeOK, NewMonitor
<1>3. monitor[s].totalBytes = 0
  BY DEF StreamInv, Accounting
<1>4. Status[s] = "new" /\ StatusOf(s)' = "open"
  BY <1>2 DEF Status, StatusOf
<1>5. /\ Status' = [Status EXCEPT ![s] = "open"]
      /\ Limits' = [Limits EXCEPT ![s] = [allowed |-> d.allowed,
                                         ceiling |-> d.ceiling]]
  BY <1>1, <1>2, <1>4, OneMoves
<1>6. SameFetched(s) /\ SamePardon(s)
  BY <1>2, <1>3 DEF SameFetched, SamePardon, Pardoned
<1>7. Fetched' = Fetched /\ Pardons' = Pardons
  BY <1>1, <1>6, NotMoved
<1>8. Contract!Admit(s, d.allowed, d.ceiling)
  BY <1>4, <1>5, <1>7
  DEF Contract!Admit, Status, Limits, Fetched, Pardons, Pardoned
<1> QED BY <1>8 DEF Contract!CNext

\* A request whose call cannot be opened is refused.
LEMMA RefuseStep ==
  ASSUME TypeOK, TypeOK', NEW s \in Streams, BackendUnavailable(s)
  PROVE  Contract!CNext
<1>1. /\ pc[s] = "idle" /\ pc'[s] = "refused"
      /\ UNCHANGED <<monitor, grade, delivered, recorded>>
      /\ \A t \in Streams \ {s} : Untouched(t)
  BY DEF BackendUnavailable, TypeOK, Untouched
<1>2. Status[s] = "new" /\ StatusOf(s)' = "refused"
  BY <1>1 DEF Status, StatusOf
<1>3. Status' = [Status EXCEPT ![s] = "refused"]
  BY <1>1, <1>2, OneMoves
<1>4. UNCHANGED <<Limits, Fetched, Pardons, delivered, recorded>>
  BY <1>1 DEF Limits, Fetched, Pardons, Pardoned
<1>5. Contract!Refuse(s)
  BY <1>2, <1>3, <1>4
  DEF Contract!Refuse, Status, Limits, Fetched, Pardons, Pardoned
<1> QED BY <1>5 DEF Contract!CNext

\* Leaving the loop between two chunks breaks the stream with nothing more
\* sent.
LEMMA LeaveStep ==
  ASSUME TypeOK, TypeOK', StreamInv, NEW s \in Streams,
         pc[s] \in {"select", "recv"},
         pc' = [pc EXCEPT ![s] = "finalize"],
         UNCHANGED <<monitor, chunk, grade, delivered, recorded>>
  PROVE  Contract!CNext
<1>1. pc'[s] = "finalize" /\ \A t \in Streams \ {s} : Untouched(t)
  BY DEF TypeOK, Untouched
<1>2. Accounting(s) /\ Grading(s)
  BY DEF StreamInv
<1>3. ~monitor[s].killed /\ delivered[s] = monitor[s].totalBytes
  BY <1>2 DEF Accounting, Grading
<1>4. Status[s] = "open" /\ StatusOf(s)' = "closed"
  BY <1>1, <1>3, OpenInLoop DEF StatusOf
<1>5. Status' = [Status EXCEPT ![s] = "closed"]
  BY <1>1, <1>4, OneMoves
<1>6. UNCHANGED <<Limits, Fetched, Pardons, delivered, recorded>>
  BY DEF Limits, Fetched, Pardons, Pardoned
<1>7. /\ 0 \in 0 .. Fetched[s] - delivered[s]
      /\ delivered' = [delivered EXCEPT ![s] = @ + 0]
  BY <1>3, StreamNumbers DEF Fetched, TypeOK
<1>8. Contract!Break(s)
  <2>1. \E n \in 0 .. Fetched[s] - delivered[s] :
          /\ n > 0 => /\ Fetched[s] <= Limits[s].ceiling
                      /\ Fetched[s] > Limits[s].allowed => Pardons[s]
          /\ delivered' = [delivered EXCEPT ![s] = @ + n]
    <3>1. 0 \in 0 .. Fetched[s] - delivered[s]
      BY <1>7
    <3> WITNESS 0 \in 0 .. Fetched[s] - delivered[s]
    <3>2. ~(0 > 0)
      OBVIOUS
    <3> QED BY <1>7, <3>2
  <2> QED BY <1>4, <1>5, <1>6, <2>1
    DEF Contract!Break, Status, Limits, Fetched, Pardons, Pardoned
<1> QED BY <1>8 DEF Contract!CNext

\* A chunk is fetched, or it is one too many and the stream is cut.
LEMMA RecvChunkStep ==
  ASSUME TypeOK, TypeOK', StreamInv, NEW s \in Streams,
         NEW size \in ChunkSizes, NEW last \in BOOLEAN, NEW rate \in Rates,
         RecvChunk(s, size, last, rate)
  PROVE  Contract!CNext
<1> DEFINE m == Observed(monitor[s], request[s], size, rate)
<1>1. size \in Nat /\ rate \in Nat /\ size \in Bytes
  BY MonitorAssumption, BytesAssumption DEF MonitorAssumption, BytesAssumption
<1>2. /\ m \in MonitorState
      /\ m.totalBytes = monitor[s].totalBytes + size
      /\ m.decision.allowed = monitor[s].decision.allowed
      /\ m.decision.ceiling = monitor[s].decision.ceiling
      /\ m.killed = monitor[s].killed
  BY <1>1, StreamNumbers, ObservedType
<1>3. /\ pc[s] = "recv"
      /\ UNCHANGED <<grade, delivered, recorded>>
      /\ \/ ShouldKill(m.totalBytes, m.decision) = "hard" /\ HardKill(s, m)
         \/ /\ monitor' = [monitor EXCEPT ![s] = Charged(m)]
            /\ pc' = [pc EXCEPT ![s] = "evaluate"]
         \/ /\ monitor' = [monitor EXCEPT ![s] = AfterThrottleCheck(m)]
            /\ pc' = [pc EXCEPT ![s] = "write"]
      /\ \A t \in Streams \ {s} : chunk'[t] = chunk[t]
  BY DEF RecvChunk, TypeOK
<1>4. Accounting(s) /\ Grading(s)
  BY DEF StreamInv
<1>5. delivered[s] = monitor[s].totalBytes
  BY <1>3, <1>4 DEF Accounting
<1>6. \A t \in Streams \ {s} : Untouched(t)
  BY <1>3 DEF TypeOK, Untouched, HardKill, LeaveLoop
<1> HIDE DEF m
<1>7. /\ monitor'[s].totalBytes = monitor[s].totalBytes + size
      /\ SameLimit(s)
  <2>1. /\ AfterThrottleCheck(m).totalBytes = m.totalBytes
        /\ AfterThrottleCheck(m).decision = m.decision
    BY <1>2, ThrottleCheckType
  <2>2. /\ Charged(m).totalBytes = m.totalBytes
        /\ Charged(m).decision = m.decision
        /\ [m EXCEPT !.killed = TRUE].totalBytes = m.totalBytes
        /\ [m EXCEPT !.killed = TRUE].decision = m.decision
    BY <1>2 DEF Charged, MonitorState
  <2>3. monitor'[s] \in {AfterThrottleCheck(m), Charged(m),
                         [m EXCEPT !.killed = TRUE]}
    BY <1>3 DEF HardKill, TypeOK
  <2> QED BY <1>2, <2>1, <2>2, <2>3 DEF SameLimit
<1>8. SamePardon(s)
  BY <1>3 DEF SamePardon, Pardoned
<1>9. /\ Fetched' = [Fetched EXCEPT ![s] = @ + size]
      /\ UNCHANGED <<Limits, Pardons, delivered, recorded>>
  BY <1>3, <1>6, <1>7, <1>8, OneMoves, NotMoved DEF Fetched
<1>10. Status[s] = "open"
  BY <1>3, OpenInLoop
<1>11. CASE pc'[s] \in {"evaluate", "write"}
  <2>1. StatusOf(s)' = StatusOf(s)
    BY <1>10, <1>11, OpenInLoopNext DEF Status
  <2>2. Status' = Status
    BY <1>6, <2>1, NotMoved
  <2>3. Contract!Fetch(s, size)
    <3>1. Fetched[s] = delivered[s]
      BY <1>5 DEF Fetched
    <3> QED BY <1>9, <1>10, <2>2, <3>1
      DEF Contract!Fetch, Status, Limits, Fetched, Pardons, Pardoned
  <2> QED BY <1>1, <2>3 DEF Contract!CNext
<1>12. CASE ShouldKill(m.totalBytes, m.decision) = "hard" /\ HardKill(s, m)
  <2>1. /\ pc'[s] = "finalize" /\ monitor'[s] = [m EXCEPT !.killed = TRUE]
        /\ m.totalBytes > m.decision.ceiling
    BY <1>12 DEF HardKill, LeaveLoop, TypeOK, ShouldKill
  <2>2. monitor'[s].killed
    BY <1>2, <2>1 DEF MonitorState
  <2>3. StatusOf(s)' = "cut"
    BY <2>1, <2>2 DEF StatusOf
  <2>4. Status' = [Status EXCEPT ![s] = "cut"]
    BY <1>6, <2>3, OneMoves
  <2>5. Fetched'[s] > Limits[s].ceiling
    BY <1>2, <1>7, <2>1 DEF Fetched, Limits
  <2>6. Contract!Cut(s, size)
    BY <1>9, <1>10, <2>4, <2>5
    DEF Contract!Cut, Status, Limits, Fetched, Pardons, Pardoned
  <2> QED BY <1>1, <2>6 DEF Contract!CNext
<1>13. \/ pc'[s] \in {"evaluate", "write"}
       \/ ShouldKill(m.totalBytes, m.decision) = "hard" /\ HardKill(s, m)
  BY <1>3 DEF TypeOK
<1> QED BY <1>11, <1>12, <1>13

\* The grade of a stream over its limit is a pardon, or the stream is cut.
LEMMA EvaluateReturnStep ==
  ASSUME TypeOK, TypeOK', StreamInv, NEW s \in Streams, NEW g \in Grades,
         EvaluateReturn(s, g)
  PROVE  Contract!CNext
<1> DEFINE m == monitor[s]
           a == AfterThrottleCheck(Graded(m, g))
           b == [m EXCEPT !.killed = TRUE]
<1>1. /\ pc[s] = "evaluate" /\ grade'[s] = g
      /\ UNCHANGED <<chunk, delivered, recorded>>
      /\ \/ /\ g \in {"log_only", "throttle"}
            /\ monitor' = [monitor EXCEPT ![s] = a]
            /\ pc' = [pc EXCEPT ![s] = "write"]
         \/ /\ g \notin {"log_only", "throttle"}
            /\ monitor' = [monitor EXCEPT ![s] = b]
            /\ pc' = [pc EXCEPT ![s] = "finalize"]
      /\ \A t \in Streams \ {s} : grade'[t] = grade[t]
  BY DEF EvaluateReturn, TypeOK, HardKill, LeaveLoop
<1>2. Accounting(s) /\ Grading(s)
  BY DEF StreamInv
<1>3. /\ grade[s] = "none"
      /\ monitor[s].totalBytes > monitor[s].decision.allowed
      /\ monitor[s].totalBytes <= monitor[s].decision.ceiling
      /\ m \in MonitorState
  BY <1>1, <1>2, StreamNumbers DEF Accounting, Grading
<1>4. /\ a.totalBytes = m.totalBytes /\ a.decision = m.decision
      /\ a.killed = m.killed
  BY <1>3, GradedType, ThrottleCheckType
<1>5. b.totalBytes = m.totalBytes /\ b.decision = m.decision /\ b.killed
  BY <1>3 DEF MonitorState
<1> HIDE DEF a, b
<1>6. \A t \in Streams \ {s} : Untouched(t)
  BY <1>1 DEF TypeOK, Untouched
<1>7. monitor'[s] \in {a, b}
  BY <1>1 DEF TypeOK
<1>8. SameFetched(s) /\ SameLimit(s)
  BY <1>4, <1>5, <1>7 DEF SameFetched, SameLimit
<1>9. UNCHANGED <<Fetched, Limits, delivered, recorded>>
  BY <1>1, <1>6, <1>8, NotMoved
<1>10. Status[s] = "open" /\ ~Pardons[s]
  BY <1>1, <1>3, OpenInLoop DEF Pardons, Pardoned
<1>11. Fetched[s] > Limits[s].allowed /\ Fetched[s] <= Limits[s].ceiling
  BY <1>3 DEF Fetched, Limits
<1>12. CASE g \in {"log_only", "throttle"}
  <2>1. pc'[s] = "write" /\ Pardoned(s)' = TRUE
    BY <1>1, <1>12 DEF TypeOK, Pardoned
  <2>2. StatusOf(s)' = StatusOf(s)
    BY <1>10, <2>1, OpenInLoopNext DEF Status
  <2>3. Status' = Status /\ Pardons' = [Pardons EXCEPT ![s] = TRUE]
    BY <1>6, <2>1, <2>2, NotMoved, OneMoves
  <2>4. Contract!Pardon(s)
    BY <1>9, <1>10, <1>11, <2>3
    DEF Contract!Pardon, Status, Limits, Fetched, Pardons, Pardoned
  <2> QED BY <2>4 DEF Contract!CNext
<1>13. CASE g \notin {"log_only", "throttle"}
  <2>1. pc'[s] = "finalize" /\ monitor'[s] = b
    BY <1>1, <1>13 DEF TypeOK
  <2>2. StatusOf(s)' = "cut"
    BY <1>5, <2>1 DEF StatusOf
  <2>3. Status' = [Status EXCEPT ![s] = "cut"]
    BY <1>6, <2>2, OneMoves
  <2>4. SamePardon(s)
    BY <1>1, <1>3, <1>13 DEF SamePardon, Pardoned
  <2>5. Pardons' = Pardons
    BY <1>6, <2>4, NotMoved
  <2>6. Fetched' = [Fetched EXCEPT ![s] = @ + 0] /\ 0 \in Bytes
    BY <1>9, StreamNumbers, BytesAssumption DEF Fetched, BytesAssumption
  <2>7. Fetched'[s] > Limits[s].allowed
    BY <1>9, <1>11
  <2>8. Contract!Cut(s, 0)
    BY <1>9, <1>10, <2>3, <2>5, <2>6, <2>7
    DEF Contract!Cut, Status, Limits, Fetched, Pardons, Pardoned
  <2> QED BY <2>6, <2>8 DEF Contract!CNext
<1> QED BY <1>12, <1>13

\* All that was fetched goes out.
LEMMA WriteOkStep ==
  ASSUME TypeOK, TypeOK', StreamInv, NEW s \in Streams, WriteOk(s)
  PROVE  Contract!CNext
<1>1. /\ pc[s] = "write" /\ pc'[s] \in {"select", "finalize"}
      /\ delivered'[s] = delivered[s] + chunk[s].size
      /\ UNCHANGED <<monitor, chunk, grade, recorded>>
      /\ \A t \in Streams \ {s} : Untouched(t)
  BY DEF WriteOk, LeaveLoop, TypeOK, Untouched
<1>2. Accounting(s) /\ Grading(s)
  BY DEF StreamInv
<1>3. /\ delivered[s] + chunk[s].size = Fetched[s]
      /\ Fetched[s] <= Limits[s].ceiling
      /\ Fetched[s] > Limits[s].allowed => Pardons[s]
      /\ ~monitor[s].killed
  BY <1>1, <1>2, StreamNumbers
  DEF Accounting, Grading, Fetched, Limits, Pardons
<1>4. UNCHANGED <<Limits, Fetched, Pardons, recorded>>
  BY <1>1 DEF Limits, Fetched, Pardons, Pardoned
<1>5. delivered' = [delivered EXCEPT ![s] = Fetched[s]]
  BY <1>1, <1>3, OneMoves
<1>6. Status[s] = "open"
  BY <1>1, OpenInLoop
<1>7. StatusOf(s)' = "open" \/ StatusOf(s)' = "closed"
  BY <1>1, <1>3 DEF StatusOf
<1>8. Status' \in {Status, [Status EXCEPT ![s] = "closed"]}
  <2>1. CASE StatusOf(s)' = "closed"
    BY <1>1, <2>1, OneMoves
  <2>2. CASE StatusOf(s)' = "open"
    <3>1. StatusOf(s)' = StatusOf(s)
      BY <1>6, <2>2 DEF Status
    <3> QED BY <1>1, <3>1, NotMoved
  <2> QED BY <1>7, <2>1, <2>2
<1>9. Contract!Deliver(s)
  BY <1>3, <1>4, <1>5, <1>6, <1>8
  DEF Contract!Deliver, Status, Limits, Fetched, Pardons, Pardoned
<1> QED BY <1>9 DEF Contract!CNext

\* Part of it goes out, and the stream is broken.
LEMMA WriteFailStep ==
  ASSUME TypeOK, TypeOK', StreamInv, NEW s \in Streams,
         NEW n \in 0 .. chunk[s].size, WriteFail(s, n)
  PROVE  Contract!CNext
<1>1. /\ pc[s] = "write" /\ pc'[s] = "finalize"
      /\ delivered' = [delivered EXCEPT ![s] = @ + n]
      /\ UNCHANGED <<monitor, chunk, grade, recorded>>
      /\ \A t \in Streams \ {s} : Untouched(t)
  BY DEF WriteFail, LeaveLoop, TypeOK, Untouched
<1>2. Accounting(s) /\ Grading(s)
  BY DEF StreamInv
<1>3. /\ delivered[s] + chunk[s].size = Fetched[s]
      /\ Fetched[s] <= Limits[s].ceiling
      /\ Fetched[s] > Limits[s].allowed => Pardons[s]
      /\ ~monitor[s].killed
  BY <1>1, <1>2, StreamNumbers
  DEF Accounting, Grading, Fetched, Limits, Pardons
<1>4. n \in 0 .. Fetched[s] - delivered[s]
  <2>1. delivered[s] \in Nat /\ chunk[s].size \in Nat
    BY StreamNumbers
  <2>2. Fetched[s] - delivered[s] = chunk[s].size
    BY <1>3, <2>1
  <2> QED BY <2>2
<1>5. UNCHANGED <<Limits, Fetched, Pardons, recorded>>
  BY <1>1 DEF Limits, Fetched, Pardons, Pardoned
<1>6. Status[s] = "open" /\ StatusOf(s)' = "closed"
  BY <1>1, <1>3, OpenInLoop DEF StatusOf
<1>7. Status' = [Status EXCEPT ![s] = "closed"]
  BY <1>1, <1>6, OneMoves
<1>8. Contract!Break(s)
  <2>1. \E k \in 0 .. Fetched[s] - delivered[s] :
          /\ k > 0 => /\ Fetched[s] <= Limits[s].ceiling
                      /\ Fetched[s] > Limits[s].allowed => Pardons[s]
          /\ delivered' = [delivered EXCEPT ![s] = @ + k]
    BY <1>1, <1>3, <1>4
  <2> QED BY <1>5, <1>6, <1>7, <2>1
    DEF Contract!Break, Status, Limits, Fetched, Pardons, Pardoned
<1> QED BY <1>8 DEF Contract!CNext

\* finalize settles the account.
LEMMA FinalizeStep ==
  ASSUME TypeOK, TypeOK', StreamInv, NEW s \in Streams, Finalize(s)
  PROVE  Contract!CNext
<1>1. /\ pc[s] = "finalize" /\ pc'[s] = "done"
      /\ recorded'[s] = IF monitor[s].totalBytes > 0
                        THEN monitor[s].totalBytes ELSE recorded[s]
      /\ UNCHANGED <<monitor, grade, delivered>>
      /\ \A t \in Streams \ {s} : Untouched(t)
  BY DEF Finalize, TypeOK, Untouched
<1>2. recorded[s] = 0
  BY <1>1 DEF StreamInv, Accounting
<1>3. recorded' = [recorded EXCEPT ![s] = Fetched[s]]
  <2>1. recorded'[s] = Fetched[s]
    BY <1>1, <1>2, StreamNumbers DEF Fetched
  <2> QED BY <1>1, <2>1, OneMoves
<1>4. UNCHANGED <<Limits, Fetched, Pardons, delivered>>
  BY <1>1 DEF Limits, Fetched, Pardons, Pardoned
<1>5. Status[s] \in {"cut", "closed"} /\ StatusOf(s)' = "settled"
  BY <1>1 DEF Status, StatusOf
<1>6. Status' = [Status EXCEPT ![s] = "settled"]
  BY <1>1, <1>5, OneMoves
<1>7. Contract!Settle(s)
  BY <1>3, <1>4, <1>5, <1>6
  DEF Contract!Settle, Status, Limits, Fetched, Pardons, Pardoned
<1> QED BY <1>7 DEF Contract!CNext

\* Passing from the select to Recv, and a client that goes away, the contract
\* does not see.
LEMMA UnseenStep ==
  ASSUME TypeOK, TypeOK', NEW s \in Streams,
         SelectDefault(s) \/ ClientDisconnect(s)
  PROVE  UNCHANGED Contract!cvars
<1>1. /\ UNCHANGED <<monitor, grade, delivered, recorded>>
      /\ \/ UNCHANGED pc
         \/ /\ pc[s] = "select" /\ pc'[s] = "recv"
            /\ \A t \in Streams \ {s} : pc'[t] = pc[t]
  BY DEF SelectDefault, ClientDisconnect, TypeOK
<1>2. ASSUME NEW t \in Streams PROVE StatusOf(t)' = StatusOf(t)
  BY <1>1 DEF StatusOf
<1>3. UNCHANGED <<Status, Limits, Fetched, Pardons, delivered, recorded>>
  BY <1>1, <1>2 DEF Status, Limits, Fetched, Pardons, Pardoned
<1> QED BY <1>3 DEF Status, Limits, Fetched, Pardons, Pardoned

-----------------------------------------------------------------------------
LEMMA ContractInit == Init => Contract!Init
<1> SUFFICES ASSUME Init PROVE Contract!Init
  OBVIOUS
<1>1. /\ Status = [s \in Streams |-> "new"]
      /\ Pardons = [s \in Streams |-> FALSE]
  <2>1. \A s \in Streams : pc[s] = "idle" /\ grade[s] = "none"
    BY DEF Init
  <2>2. \A s \in Streams : StatusOf(s) = "new" /\ Pardoned(s) = FALSE
    BY <2>1 DEF StatusOf, Pardoned
  <2> QED BY <2>2 DEF Status, Pardons
<1>2. /\ Limits = [s \in Streams |-> [allowed |-> 0, ceiling |-> 0]]
      /\ Fetched = [s \in Streams |-> 0]
  BY DEF Init, Limits, Fetched, NewMonitor, UniformDecision
<1>3. /\ delivered = [s \in Streams |-> 0]
      /\ recorded = [s \in Streams |-> 0]
  BY DEF Init
<1> QED BY <1>1, <1>2, <1>3
  DEF Contract!Init, Status, Limits, Fetched, Pardons, Pardoned

\* Every step of the monitor is a step of the contract, or none.
LEMMA ContractStep ==
  ASSUME TypeOK, StreamInv, [Next]_vars
  PROVE  [Contract!CNext]_(Contract!cvars)
<1>0. TypeOK'
  BY TypeNext
<1>1. ASSUME NEW s \in Streams, NEW h \in Histories, StartEnforced(s, h)
      PROVE  Contract!CNext
  <2> DEFINE d == Evaluate(h, request[s].endpoint, request[s].role, 0)
  <2>1. d \in Decision
    BY MonitorAssumption, EvaluateType DEF MonitorAssumption
  <2>2. request[s] \in Requests
    BY DEF TypeOK
  <2>3. d.allowed \in Amounts /\ d.ceiling \in Amounts
    BY <2>2, BytesAssumption DEF BytesAssumption
  <2>4. /\ pc[s] = "idle" /\ pc' = [pc EXCEPT ![s] = "select"]
        /\ monitor' = [monitor EXCEPT ![s] = NewMonitor(d)]
        /\ UNCHANGED <<chunk, grade, delivered, recorded>>
    BY <1>1 DEF StartEnforced
  <2> HIDE DEF d
  <2> QED BY <1>0, <2>1, <2>3, <2>4, AdmitStep
<1>2. ASSUME NEW s \in Streams, StartBypassed(s)
      PROVE  Contract!CNext
  <2> DEFINE d == UniformDecision(NoLimit)
  <2>1. d \in Decision
    BY MonitorAssumption, UniformDecisionType DEF MonitorAssumption
  <2>2. d.allowed \in Amounts /\ d.ceiling \in Amounts
    BY BytesAssumption DEF BytesAssumption, UniformDecision
  <2>3. /\ pc[s] = "idle" /\ pc' = [pc EXCEPT ![s] = "select"]
        /\ monitor' = [monitor EXCEPT ![s] = NewMonitor(d)]
        /\ UNCHANGED <<chunk, grade, delivered, recorded>>
    BY <1>2 DEF StartBypassed
  <2> HIDE DEF d
  <2> QED BY <1>0, <2>1, <2>2, <2>3, AdmitStep
<1>3. ASSUME NEW s \in Streams,
             SelectClientGone(s) \/ RecvEOF(s) \/ RecvError(s)
      PROVE  Contract!CNext
  BY <1>0, <1>3, LeaveStep
  DEF SelectClientGone, RecvEOF, RecvError, LeaveLoop
<1>4. ASSUME NEW s \in Streams, SelectDefault(s) \/ ClientDisconnect(s)
      PROVE  UNCHANGED Contract!cvars
  BY <1>0, <1>4, UnseenStep
<1>5. CASE AllServed \/ UNCHANGED vars
  <2>1. UNCHANGED <<pc, monitor, grade, delivered, recorded>>
    BY <1>5 DEF AllServed, vars
  <2>2. UNCHANGED <<Status, Limits, Fetched, Pardons>>
    BY <2>1 DEF Status, StatusOf, Limits, Fetched, Pardons, Pardoned
  <2>3. UNCHANGED Contract!cvars
    BY <2>1, <2>2 DEF Status, Limits, Fetched, Pardons, Pardoned
  <2> QED BY <2>3
<1> HIDE DEF Contract!cvars
<1> QED
  BY <1>0, <1>1, <1>2, <1>3, <1>4, <1>5, RefuseStep, RecvChunkStep,
     EvaluateReturnStep, WriteOkStep, WriteFailStep, FinalizeStep, Zenon
  DEF Next, Start, Recv, Write

\* The safety half of ImplementsContract: whatever handleStream, the loop,
\* hardKill and finalize do is one step of the contract, or none.
THEOREM ContractTheorem ==
  Spec => Contract!Init /\ [][Contract!CNext]_(Contract!cvars)
<1>1. TypeOK /\ StreamInv /\ [Next]_vars => [Contract!CNext]_(Contract!cvars)
  BY ContractStep
<1> HIDE DEF Contract!cvars
<1> QED BY <1>1, ContractInit, StreamInvariant, PTL DEF Spec
=============================================================================
