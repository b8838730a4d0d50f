------------------------------ MODULE ProxyServer ------------------------------
(***************************************************************************)
(* The life of the process, cmd/proxy/main.go: main, newProxy, close, the   *)
(* shutdown goroutine, and concurrencyMiddleware, which every request runs  *)
(* through.  What a handler does between its start and its return is module *)
(* Monitor; here it uses the two connections and ends some time, or never.  *)
(***************************************************************************)
EXTENDS Integers, FiniteSets

CONSTANTS
  Requests,       \* requests, each on a goroutine of its own
  Health,         \* those for /health
  MaxConcurrent   \* proxy.max_concurrent

ASSUME ProxyServerAssumption ==
  /\ IsFiniteSet(Requests)
  /\ Health \subseteq Requests
  /\ MaxConcurrent \in Nat \ {0}

VARIABLES
  main,       \* where main is
  shutdown,   \* where the shutdown goroutine is
  listening,  \* the listener is open
  open,       \* the connections that are open: "grpc", "redis"
  sem,        \* tokens in the semaphore
  activeReq,  \* the wait group's counter
  handler,    \* where each request is
  draining    \* the requests that were being served when the signal came

process == <<main, shutdown, listening, open>>
service == <<sem, activeReq, handler, draining>>
pvars   == <<process, service>>

\* The states in which a request holds a token, and in which it is counted.
Holding == {r \in Requests : handler[r] \in {"admitted", "serving"}}
Counted == {r \in Requests : handler[r] \in {"serving", "released"}}

\* Type invariant.
ProxyTypeOK ==
  /\ main \in {"starting", "serving", "returned", "waiting", "closing",
               "closingRedis", "exited", "failed"}
  /\ shutdown \in {"none", "metrics", "server", "returned"}
  /\ listening \in BOOLEAN
  /\ open \subseteq {"grpc", "redis"}
  /\ sem \in 0 .. MaxConcurrent
  /\ activeReq \in 0 .. Cardinality(Requests)
  /\ handler \in [Requests -> {"none", "accepted", "arrived", "admitted",
                               "serving", "released", "done", "rejected"}]
  /\ draining \subseteq Requests

ProxyInit ==
  /\ main = "starting"
  /\ shutdown = "none"
  /\ listening = FALSE
  /\ open = {}
  /\ sem = 0
  /\ activeReq = 0
  /\ handler = [r \in Requests |-> "none"]
  /\ draining = {}

Alive == main \notin {"exited", "failed"}

-----------------------------------------------------------------------------
\* The configuration, newProxy and the listener; Redis need not answer.
Start ==
  /\ main = "starting"
  /\ main' = "serving"
  /\ listening' = TRUE
  /\ open' = {"grpc", "redis"}
  /\ UNCHANGED <<shutdown, service>>

\* os.Exit(1): the configuration is invalid, or the listener fails.
StartFails ==
  /\ main \in {"starting", "serving"}
  /\ shutdown = "none"
  /\ main' = "failed"
  /\ UNCHANGED <<shutdown, listening, open, service>>

\* SIGINT or SIGTERM.  The metrics server is shut down first, on the same 30
\* seconds, and the proxy accepts requests meanwhile.
Signal ==
  /\ main = "serving"
  /\ shutdown = "none"
  /\ shutdown' = "metrics"
  /\ draining' = {r \in Requests : handler[r] = "serving"}
  /\ UNCHANGED <<main, listening, open, sem, activeReq, handler>>

\* server.Shutdown closes the listener before it waits for anything.
CloseListener ==
  /\ Alive
  /\ shutdown = "metrics"
  /\ shutdown' = "server"
  /\ listening' = FALSE
  /\ UNCHANGED <<main, open, service>>

\* Every handler has returned, or the 30 seconds are over.
ShutdownReturns ==
  /\ Alive
  /\ shutdown = "server"
  /\ shutdown' = "returned"
  /\ UNCHANGED <<main, listening, open, service>>

\* ListenAndServe returns when the listener is closed, and main says that the
\* shutdown is complete.
MainReturns ==
  /\ main = "serving"
  /\ shutdown # "none" /\ ~listening
  /\ main' = "returned"
  /\ UNCHANGED <<shutdown, listening, open, service>>

BeginClose ==
  /\ main = "returned"
  /\ main' = "waiting"
  /\ UNCHANGED <<shutdown, listening, open, service>>

\* Fault: close does not wait.
NotWaiting == TRUE

NothingServed == activeReq = 0

\* activeReq.Wait() returns.
WaitReturns ==
  /\ main = "waiting"
  /\ NothingServed
  /\ main' = "closing"
  /\ UNCHANGED <<shutdown, listening, open, service>>

CloseGrpc ==
  /\ main = "closing"
  /\ main' = "closingRedis"
  /\ open' = open \ {"grpc"}
  /\ UNCHANGED <<shutdown, listening, service>>

\* The process ends here, whatever still runs.
CloseRedis ==
  /\ main = "closingRedis"
  /\ main' = "exited"
  /\ open' = open \ {"redis"}
  /\ UNCHANGED <<shutdown, listening, service>>

-----------------------------------------------------------------------------
Goes(r, from, to) ==
  /\ Alive
  /\ handler[r] = from
  /\ handler' = [handler EXCEPT ![r] = to]

Accept(r) ==
  /\ listening
  /\ Goes(r, "none", "accepted")
  /\ UNCHANGED <<process, sem, activeReq, draining>>

\* A connection accepted before the listener was closed may still bring its
\* request after.
Arrive(r) ==
  /\ Goes(r, "accepted", IF r \in Health THEN "done" ELSE "arrived")
  /\ UNCHANGED <<process, sem, activeReq, draining>>

\* Fault: an off-by-one in the semaphore's size.
HasSlotOneMore == sem <= MaxConcurrent

HasSlot == sem < MaxConcurrent

\* The middleware's select takes a token if there is one,
Admit(r) ==
  /\ HasSlot
  /\ Goes(r, "arrived", "admitted")
  /\ sem' = sem + 1
  /\ UNCHANGED <<process, activeReq, draining>>

\* and answers 503 if there is none.
Reject(r) ==
  /\ ~HasSlot
  /\ Goes(r, "arrived", "rejected")
  /\ UNCHANGED <<process, sem, activeReq, draining>>

\* activeReq.Add(1), after the token.
Add(r) ==
  /\ Goes(r, "admitted", "serving")
  /\ activeReq' = activeReq + 1
  /\ UNCHANGED <<process, sem, draining>>

\* Fault: the token is given back where the handler returns, and a handler
\* that panics does not.
ReleasedUnlessPanic == {sem, sem - 1}

Released == {sem - 1}

\* The handler returns or panics: the deferred function gives the token back
\* and then counts the request off.
HandlerReturns(r) ==
  /\ Goes(r, "serving", "released")
  /\ sem' \in Released
  /\ UNCHANGED <<process, activeReq, draining>>

\* Fault: the request is not counted off.
StillCounted == activeReq

Uncounted == activeReq - 1

Done(r) ==
  /\ Goes(r, "released", "done")
  /\ activeReq' = Uncounted
  /\ UNCHANGED <<process, sem, draining>>

-----------------------------------------------------------------------------
MainStep ==
  \/ CloseListener \/ ShutdownReturns
  \/ MainReturns \/ BeginClose \/ WaitReturns \/ CloseGrpc \/ CloseRedis

\* The middleware's own steps.
MiddlewareStep(r) == Arrive(r) \/ Admit(r) \/ Reject(r) \/ Add(r) \/ Done(r)

Ended == ~Alive /\ UNCHANGED pvars

ProxyNext ==
  \/ Start \/ StartFails \/ Signal \/ MainStep
  \/ \E r \in Requests : Accept(r) \/ MiddlewareStep(r) \/ HandlerReturns(r)
  \/ Ended

\* Nothing makes a handler return.
ProxySpec ==
  /\ ProxyInit
  /\ [][ProxyNext]_pvars
  /\ WF_pvars(MainStep)
  /\ \A r \in Requests : WF_pvars(MiddlewareStep(r))

-----------------------------------------------------------------------------
\* Properties.

\* max_concurrent bounds the requests that are served at once, from the token
\* to its return, and the tokens are exactly theirs: none leaks.
SlotsBound ==
  /\ Cardinality(Holding) <= MaxConcurrent
  /\ sem = Cardinality(Holding)

\* A request is turned away only when that many others hold a token.
RejectedOnlyWhenFull ==
  [][\A r \in Requests :
       (handler[r] = "arrived" /\ handler'[r] = "rejected") =>
         Cardinality(Holding \ {r}) = MaxConcurrent]_pvars

\* A request that was being served when the signal came has its connections
\* until it returns.
DrainedBeforeClose ==
  (open # {"grpc", "redis"} /\ main # "starting") =>
    \A r \in draining : handler[r] # "serving"

\* If every handler returns some time, so does main.
ShutdownEnds ==
  (\A r \in Requests : []<>(handler[r] # "serving")) =>
    [](shutdown # "none" => <>(~Alive))
=============================================================================
