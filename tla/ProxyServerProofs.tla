-------------------------- MODULE ProxyServerProofs --------------------------
(***************************************************************************)
(* Theorems about the process, for any requests and any max_concurrent.     *)
(***************************************************************************)
EXTENDS ProxyServer, FiniteSetTheorems, TLAPS

USE DEF process, service, NothingServed, HasSlot, Released, Uncounted

\* The two counters count what they stand for.
Counters ==
  /\ main \in {"starting", "serving", "returned", "waiting", "closing",
               "closingRedis", "exited", "failed"}
  /\ handler \in [Requests -> {"none", "accepted", "arrived", "admitted",
                               "serving", "released", "done", "rejected"}]
  /\ sem = Cardinality(Holding)
  /\ activeReq = Cardinality(Counted)
  /\ sem <= MaxConcurrent

\* A request that was being served at the signal only goes forward, and is
\* done when Wait has returned.
Drained ==
  /\ shutdown = "none" => draining = {}
  /\ main = "failed" => shutdown = "none"
  /\ main = "starting" => shutdown = "none"
  /\ draining \subseteq Requests
  /\ \A r \in draining : handler[r] \in {"serving", "released", "done"}
  /\ main \in {"closing", "closingRedis", "exited"} =>
       \A r \in draining : handler[r] = "done"
  /\ open # {"grpc", "redis"} =>
       main \in {"starting", "failed", "closingRedis", "exited"}

LEMMA FiniteCounts ==
  /\ IsFiniteSet(Holding) /\ Cardinality(Holding) \in Nat
  /\ IsFiniteSet(Counted) /\ Cardinality(Counted) \in Nat
<1>1. Holding \subseteq Requests /\ Counted \subseteq Requests
  BY DEF Holding, Counted
<1>2. IsFiniteSet(Holding) /\ IsFiniteSet(Counted)
  BY <1>1, FS_Subset, ProxyServerAssumption DEF ProxyServerAssumption
<1> QED BY <1>2, FS_CardinalityType

\* A request that takes a token, or gives it back, is one more or one less.
LEMMA TokenTaken ==
  ASSUME NEW r \in Requests, Counters, Goes(r, "arrived", "admitted")
  PROVE  /\ Cardinality(Holding') = Cardinality(Holding) + 1
         /\ Counted' = Counted
<1>1. Holding' = Holding \cup {r} /\ r \notin Holding
  BY DEF Goes, Holding, Counters
<1>2. Counted' = Counted
  BY DEF Goes, Counted, Counters
<1> QED BY <1>1, <1>2, FiniteCounts, FS_AddElement

LEMMA CountedOn ==
  ASSUME NEW r \in Requests, Counters, Goes(r, "admitted", "serving")
  PROVE  /\ Holding' = Holding
         /\ Cardinality(Counted') = Cardinality(Counted) + 1
<1>1. Counted' = Counted \cup {r} /\ r \notin Counted
  BY DEF Goes, Counted, Counters
<1>2. Holding' = Holding
  BY DEF Goes, Holding, Counters
<1> QED BY <1>1, <1>2, FiniteCounts, FS_AddElement

LEMMA TokenReturned ==
  ASSUME NEW r \in Requests, Counters, Goes(r, "serving", "released")
  PROVE  /\ Cardinality(Holding') = Cardinality(Holding) - 1
         /\ Counted' = Counted
<1>1. Holding' = Holding \ {r} /\ r \in Holding
  BY DEF Goes, Holding, Counters
<1>2. Counted' = Counted
  BY DEF Goes, Counted, Counters
<1> QED BY <1>1, <1>2, FiniteCounts, FS_RemoveElement

LEMMA CountedOff ==
  ASSUME NEW r \in Requests, Counters, Goes(r, "released", "done")
  PROVE  /\ Holding' = Holding
         /\ Cardinality(Counted') = Cardinality(Counted) - 1
<1>1. Counted' = Counted \ {r} /\ r \in Counted
  BY DEF Goes, Counted, Counters
<1>2. Holding' = Holding
  BY DEF Goes, Holding, Counters
<1> QED BY <1>1, <1>2, FiniteCounts, FS_RemoveElement

\* The states outside the two sets do not count.
LEMMA NotCounted ==
  ASSUME NEW r \in Requests, Counters, NEW from, NEW to, Goes(r, from, to),
         from \in {"none", "accepted", "arrived"},
         to \in {"accepted", "arrived", "done", "rejected"}
  PROVE  Holding' = Holding /\ Counted' = Counted
BY DEF Goes, Holding, Counted, Counters

LEMMA CountersInvariant == ProxySpec => []Counters
<1>1. ProxyInit => Counters
  <2> SUFFICES ASSUME ProxyInit PROVE Counters
    OBVIOUS
  <2>1. Holding = {} /\ Counted = {}
    BY DEF ProxyInit, Holding, Counted
  <2> QED BY <2>1, FS_EmptySet, ProxyServerAssumption
      DEF ProxyInit, Counters, ProxyServerAssumption
<1>2. Counters /\ [ProxyNext]_pvars => Counters'
  <2> SUFFICES ASSUME Counters, [ProxyNext]_pvars PROVE Counters'
    OBVIOUS
  <2>1. ASSUME UNCHANGED <<sem, activeReq, handler>>,
               main' \in {main, "serving", "failed", "returned", "waiting",
                          "closing", "closingRedis", "exited"}
        PROVE  Counters'
    BY <2>1 DEF Counters, Holding, Counted
  <2>2. CASE Start \/ StartFails \/ Signal \/ MainStep
    BY <2>1, <2>2 DEF Start, StartFails, Signal, MainStep, CloseListener,
       ShutdownReturns, MainReturns, BeginClose, WaitReturns, CloseGrpc,
       CloseRedis
  <2>3. CASE Ended \/ UNCHANGED pvars
    BY <2>1, <2>3 DEF Ended, pvars
  <2>4. ASSUME NEW r \in Requests,
               Accept(r) \/ MiddlewareStep(r) \/ HandlerReturns(r)
        PROVE  Counters'
    <3>1. CASE Accept(r) \/ Arrive(r) \/ Reject(r)
      <4>1. UNCHANGED <<main, sem, activeReq>>
        BY <3>1 DEF Accept, Arrive, Reject
      <4>2. Holding' = Holding /\ Counted' = Counted
        BY <3>1, NotCounted DEF Accept, Arrive, Reject
      <4>3. handler' \in [Requests -> {"none", "accepted", "arrived",
              "admitted", "serving", "released", "done", "rejected"}]
        BY <3>1 DEF Accept, Arrive, Reject, Goes, Counters
      <4> QED BY <4>1, <4>2, <4>3 DEF Counters
    <3>2. CASE Admit(r)
      <4>1. handler' \in [Requests -> {"none", "accepted", "arrived",
              "admitted", "serving", "released", "done", "rejected"}]
        BY <3>2 DEF Admit, Goes, Counters
      <4>2. /\ Cardinality(Holding') = Cardinality(Holding) + 1
            /\ Counted' = Counted
        BY <3>2, TokenTaken DEF Admit
      <4> QED BY <3>2, <4>1, <4>2, FiniteCounts, ProxyServerAssumption
          DEF Admit, Counters, ProxyServerAssumption
    <3>3. CASE Add(r)
      <4>1. handler' \in [Requests -> {"none", "accepted", "arrived",
              "admitted", "serving", "released", "done", "rejected"}]
        BY <3>3 DEF Add, Goes, Counters
      <4>2. /\ Holding' = Holding
            /\ Cardinality(Counted') = Cardinality(Counted) + 1
        BY <3>3, CountedOn DEF Add
      <4> QED BY <3>3, <4>1, <4>2 DEF Add, Counters
    <3>4. CASE HandlerReturns(r)
      <4>1. handler' \in [Requests -> {"none", "accepted", "arrived",
              "admitted", "serving", "released", "done", "rejected"}]
        BY <3>4 DEF HandlerReturns, Goes, Counters
      <4>2. /\ Cardinality(Holding') = Cardinality(Holding) - 1
            /\ Counted' = Counted
        BY <3>4, TokenReturned DEF HandlerReturns
      <4> QED BY <3>4, <4>1, <4>2, FiniteCounts, ProxyServerAssumption
          DEF HandlerReturns, Counters, ProxyServerAssumption
    <3>5. CASE Done(r)
      <4>1. handler' \in [Requests -> {"none", "accepted", "arrived",
              "admitted", "serving", "released", "done", "rejected"}]
        BY <3>5 DEF Done, Goes, Counters
      <4>2. /\ Holding' = Holding
            /\ Cardinality(Counted') = Cardinality(Counted) - 1
        BY <3>5, CountedOff DEF Done
      <4> QED BY <3>5, <4>1, <4>2 DEF Done, Counters
    <3> QED BY <2>4, <3>1, <3>2, <3>3, <3>4, <3>5 DEF MiddlewareStep
  <2> QED BY <2>2, <2>3, <2>4 DEF ProxyNext
<1> QED BY <1>1, <1>2, PTL DEF ProxySpec

\* The rest of the type invariant: where main and its goroutines are.
Places ==
  /\ shutdown \in {"none", "metrics", "server", "returned"}
  /\ listening \in BOOLEAN
  /\ open \subseteq {"grpc", "redis"}
  /\ draining \subseteq Requests

LEMMA PlacesInvariant == ProxySpec => []Places
<1>1. ProxyInit => Places
  BY DEF ProxyInit, Places
<1>2. Places /\ [ProxyNext]_pvars => Places'
  <2> SUFFICES ASSUME Places, [ProxyNext]_pvars PROVE Places'
    OBVIOUS
  <2>1. CASE Start \/ StartFails \/ Signal
    BY <2>1 DEF Start, StartFails, Signal, Places
  <2>2. CASE MainStep
    BY <2>2 DEF MainStep, CloseListener, ShutdownReturns, MainReturns,
       BeginClose, WaitReturns, CloseGrpc, CloseRedis, Places
  <2>3. ASSUME NEW r \in Requests,
               Accept(r) \/ MiddlewareStep(r) \/ HandlerReturns(r)
        PROVE  Places'
    BY <2>3 DEF Accept, MiddlewareStep, Arrive, Admit, Reject, Add, Done,
                HandlerReturns, Places
  <2>4. CASE Ended \/ UNCHANGED pvars
    BY <2>4 DEF Ended, pvars, Places
  <2> QED BY <2>1, <2>2, <2>3, <2>4 DEF ProxyNext
<1> QED BY <1>1, <1>2, PTL DEF ProxySpec

\* The process is well typed: no token beyond max_concurrent, and the wait
\* group's counter never negative, which would panic.
THEOREM ProxyTypeTheorem == ProxySpec => []ProxyTypeOK
<1>1. Counters /\ Places => ProxyTypeOK
  <2> SUFFICES ASSUME Counters, Places PROVE ProxyTypeOK
    OBVIOUS
  <2>1. sem \in 0 .. MaxConcurrent
    BY FiniteCounts, ProxyServerAssumption DEF Counters, ProxyServerAssumption
  <2>2. Counted \subseteq Requests /\ IsFiniteSet(Requests)
    BY ProxyServerAssumption DEF Counted, ProxyServerAssumption
  <2>3. /\ Cardinality(Counted) <= Cardinality(Requests)
        /\ Cardinality(Requests) \in Nat
    BY <2>2, FS_Subset, FS_CardinalityType
  <2>4. activeReq \in 0 .. Cardinality(Requests)
    BY <2>3, FiniteCounts DEF Counters
  <2> QED BY <2>1, <2>4 DEF Counters, Places, ProxyTypeOK
<1> QED BY <1>1, CountersInvariant, PlacesInvariant, PTL

\* Whatever the schedule, max_concurrent bounds the requests served at once,
\* and no token leaks.
THEOREM SlotsTheorem == ProxySpec => []SlotsBound
<1>1. Counters => SlotsBound
  BY DEF Counters, SlotsBound
<1> QED BY <1>1, CountersInvariant, PTL

\* A request is turned away only when the others hold every token.
THEOREM RejectTheorem == ProxySpec => RejectedOnlyWhenFull
<1>1. Counters /\ [ProxyNext]_pvars =>
        [\A r \in Requests :
           (handler[r] = "arrived" /\ handler'[r] = "rejected") =>
             Cardinality(Holding \ {r}) = MaxConcurrent]_pvars
  <2> SUFFICES ASSUME Counters, [ProxyNext]_pvars, NEW r \in Requests,
                      handler[r] = "arrived", handler'[r] = "rejected"
               PROVE  Cardinality(Holding \ {r}) = MaxConcurrent
    OBVIOUS
  <2>1. UNCHANGED handler => FALSE
    OBVIOUS
  <2>2. ASSUME NEW s \in Requests,
               Accept(s) \/ MiddlewareStep(s) \/ HandlerReturns(s)
        PROVE  sem = MaxConcurrent
    BY <2>2, FiniteCounts, ProxyServerAssumption
    DEF Accept, MiddlewareStep, Arrive, Admit, Reject, Add, Done,
        HandlerReturns, Goes, Counters, ProxyServerAssumption
  <2>3. sem = MaxConcurrent
    BY <2>1, <2>2 DEF ProxyNext, Start, StartFails, Signal, MainStep,
       CloseListener, ShutdownReturns, MainReturns, BeginClose, WaitReturns,
       CloseGrpc, CloseRedis, Ended, pvars
  <2>4. Holding \ {r} = Holding
    BY DEF Holding
  <2> QED BY <2>3, <2>4 DEF Counters
<1> QED BY <1>1, CountersInvariant, PTL DEF ProxySpec, RejectedOnlyWhenFull

\* Wait returns only when nothing is counted.
LEMMA WaitMeansNone ==
  ASSUME Counters, activeReq = 0
  PROVE  \A r \in Requests : handler[r] \notin {"serving", "released"}
<1>1. Counted = {}
  BY FiniteCounts, FS_EmptySet DEF Counters
<1> QED BY <1>1 DEF Counted

LEMMA DrainedInvariant == ProxySpec => []Drained
<1>1. ProxyInit => Drained
  BY DEF ProxyInit, Drained
<1>2. Counters /\ Drained /\ [ProxyNext]_pvars => Drained'
  <2> SUFFICES ASSUME Counters, Drained, [ProxyNext]_pvars PROVE Drained'
    OBVIOUS
  <2>1. CASE Start
    BY <2>1 DEF Start, Drained
  <2>2. CASE StartFails
    BY <2>2 DEF StartFails, Drained
  <2>3. CASE Signal
    BY <2>3 DEF Signal, Drained
  <2>4. CASE CloseListener \/ ShutdownReturns
    BY <2>4 DEF CloseListener, ShutdownReturns, Drained, Alive
  <2>5. CASE MainReturns \/ BeginClose
    BY <2>5 DEF MainReturns, BeginClose, Drained
  <2>6. CASE WaitReturns
    <3>1. \A r \in draining : handler[r] = "done"
      BY <2>6, WaitMeansNone DEF WaitReturns, Drained
    <3> QED BY <2>6, <3>1 DEF WaitReturns, Drained
  <2>7. CASE CloseGrpc \/ CloseRedis
    BY <2>7 DEF CloseGrpc, CloseRedis, Drained
  <2>8. ASSUME NEW r \in Requests,
               Accept(r) \/ MiddlewareStep(r) \/ HandlerReturns(r)
        PROVE  Drained'
    <3>1. UNCHANGED <<main, shutdown, open, draining>>
      BY <2>8 DEF Accept, MiddlewareStep, Arrive, Admit, Reject, Add, Done,
                  HandlerReturns
    <3>2. \A s \in draining :
            \/ handler'[s] = handler[s]
            \/ handler[s] = "serving" /\ handler'[s] = "released"
            \/ handler[s] = "released" /\ handler'[s] = "done"
      BY <2>8 DEF Accept, MiddlewareStep, Arrive, Admit, Reject, Add, Done,
                  HandlerReturns, Goes, Drained, Counters
    <3> QED BY <3>1, <3>2 DEF Drained
  <2>9. CASE Ended \/ UNCHANGED pvars
    BY <2>9 DEF Ended, pvars, Drained
  <2> QED BY <2>1, <2>2, <2>3, <2>4, <2>5, <2>6, <2>7, <2>8, <2>9
      DEF ProxyNext, MainStep
<1> QED BY <1>1, <1>2, CountersInvariant, PTL DEF ProxySpec

\* A request in service at the signal keeps its connections until it returns.
THEOREM DrainTheorem == ProxySpec => []DrainedBeforeClose
<1>1. Drained => DrainedBeforeClose
  BY DEF Drained, DrainedBeforeClose
<1> QED BY <1>1, DrainedInvariant, PTL
=============================================================================
