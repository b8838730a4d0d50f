# Verification of sentinel-proxy

sentinel-proxy is a Go HTTP proxy that streams data from a gRPC backend to
clients and watches how much each user takes. It computes an adaptive limit per
user from a history kept in Redis, throttles a stream that comes near it, grades
a stream that goes over it (log, throttle, terminate), cuts a stream that goes
over an absolute ceiling, and keeps serving, with defaults, when Redis is gone.

This directory holds TLA+ modules translated from the Go source, TLC
configurations that check them on small instances, and theorems TLAPS proves for
every value of the constants. `PROJECT.json` maps every definition to the lines
it stands for, lists the runs, the mutants that show each property can fail, the
hazards, the findings and the theorems.

    tlc -workers 2 -config MCMonitor.cfg MCMonitor.tla
    tlapm MonitorProofs.tla

## 1. The system

| Component | Source | State | Operations |
|---|---|---|---|
| Threshold engine | `internal/threshold/engine.go` | none | `Evaluate`, `ShouldKill`, `ShouldThrottle` |
| Stream monitor | `internal/stream/monitor.go` | the `Monitor` struct, one per request, used by one goroutine; two contexts shared with others | the loop of `Stream`, `hardKill`, `evaluateSoftBreach`, `adaptiveDelay`, `finalize` |
| Request handlers | `cmd/proxy/main.go` | semaphore, wait group, connections | `main`, `newProxy`, `close`, `handleStream`, the bypass path, `handleHealth`, the concurrency middleware |
| Fail-open Redis client | `internal/redis/failopen.go` | `available` (`atomic.Bool`), `inner` | four operations, `Ping`, `IsAvailable`, `handleError`, `Close` |
| Redis client, violations | `internal/redis/client.go` | three keys per user, with TTLs | `GetViolationCount`, `IncrementViolation`, `ResetViolations` |
| Redis client, statistics | `internal/redis/client.go` | a sorted set and two counters per user, with TTLs | `RecordRequest`, `GetBehaviorStats` and its script |
| Policy enforcer | `internal/policy/enforcer.go` | none | `Evaluate`, `gradeFromCount`, `IsBypassed` |
| Identity resolver | `internal/identity/resolver.go` | the JWT secret | `Resolve` and its three layers |
| Configuration | `internal/config/config.go` | none after start | `Load`, `applyEnvOverrides`, `Validate` |
| Metrics | `internal/metrics/metrics.go` | counters, a gauge, histograms, which only `/metrics` reads | moved by the handlers, the monitor and the fail-open callback |
| Backend | `cmd/backend/main.go` | per call, a generator's locals; a random source all calls share | `GetData`, three generators, the graceful stop |

A request goes through the middleware (semaphore, wait group) into
`handleStream`. That names the user, asks the fail-open client for the user's
statistics, has the engine turn them into a `Decision`, opens a backend stream
under a context derived from the request's, and hands everything to a `Monitor`.
The monitor's loop receives a chunk, counts it, asks the engine whether it is a
breach, perhaps asks the enforcer (which makes two Redis calls) for a grade,
writes, perhaps sleeps, and goes on. Seven ways lead out of the loop and all
call `finalize`, which records the bytes in Redis on a context of its own.

What is hard about it:

* **Interleaving.** A stream is one goroutine, but its contexts are ended by the
  client, the kill and the deferred cancel. Streams of one user interleave their
  Redis commands: none of the pipelines is a transaction, and the check of the
  violation window and the strike are two calls.
* **Failure.** Redis may be gone at the start, go, come back, answer late, or
  execute a pipeline whose reply is lost (the library sends it again). A client
  may go at any time, a write may stop half way, a backend may fail or go silent.
* **Ordering.** One chunk may jump from below the limit to over the ceiling; the
  throttle flag is written from three places; the result of a ping is stored
  after the ping.
* **Time.** Windows are kept twice, by a timestamp and by TTLs that every
  violation renews.
* **Restarts.** What Redis keeps outlives the proxy, under names that depend on
  the token secret; a configuration is put together from three places in an order
  that decides what `Validate` sees, and `float64`s may be NaN or out of range.

What makes it correct, per component: the monitor never delivers past the
ceiling, delivers past the limit only with a grade, kills only for cause, and
accounts for all it delivers; the fail-open client makes no request wait long for
Redis, degrades only in an outage, and notices one that lasts; the grace system counts violations in
windows and forgets them; the server bounds concurrent requests, and drains them
before it closes what they use; the statistics add up what was recorded; a name
is shared only by requests that present one credential, and only a role from a
token of the proxy's own, or the bypass secret, lifts a limit; an accepted
configuration is one the engine can work with; the counters of `/metrics` agree
with one another whatever way a stream ended.

`PROJECT.json` lists the hazards one by one, each with its line and the
properties that guard it.

## 2. Modules

    Threshold        pure operators: Evaluate, ShouldKill, ShouldThrottle
      Monitor        one request: handler start, the loop, kill, grade, finalize
        MonitorRefinement   Monitor implements EgressContract (abstract)
        Metrics             Monitor with the counters its steps move
    FailOpen         the fail-open client; Redis going down and coming back
      Grace          the violation keys, through FailOpen; implements
                     GraceWindow (abstract) when calls do not overlap
        Sentinel     Monitor, Grace and FailOpen: the streams of one user over
                     the Redis they share
    Behavior         the statistics keys
    Config           defaults, file, environment, Validate
    Identity         token, key, fingerprint
      Admission      Config, Identity, IsBypassed and Threshold across restarts:
                     what a request is granted
    Backend          the gRPC service: one generator per call
      Egress         Monitor reading from Backend
    ProxyServer      start, semaphore, wait group, shutdown
    MonitorProofs          theorems about Threshold and Monitor
    RefinementProofs       about MonitorRefinement
    GraceProofs            about FailOpen and Grace
    SentinelProofs, EgressProofs, AdmissionProofs, ProxyServerProofs
    TotalsProofs           about what is summed: Behavior and Metrics
    MCMonitor, MCEgress, MCSentinel, MCAdmission   constants of the instances

### How they correspond to the code

* **Threshold** is `engine.go`, operator by operator. Go multiplies `float64`s; a
  multiplier here is an integer over `Unit`, and `int64(...)` divides towards zero
  (`Trunc`). Its assumption is what `Config.Validate` enforces of numbers, and that
  they are numbers: `Validate` looks at no multiplier of an endpoint or a role, so
  these are any integers, zero where an override leaves one out, negative where it
  says so. NaN and infinite multipliers are left out here and, for endpoints and
  roles, everywhere; products an int64 does not hold are Admission's.
* **Monitor** has one `pc` per stream. `select` is the top of the loop, `recv` the
  call of `Recv`, `evaluate` the call of `evaluateSoftBreach`, `write` the call of
  `w.Write` with what follows it, `finalize` the last call of every exit.
  `monitor` is the Go struct; `outcome` the result's; `delivered`, `recorded` and
  `grade` remember what the code does not keep, for the properties.
  `SelectDefault` and `ClientDisconnect` are separate so that the client may leave
  after the select and before `Recv`. The backend sends any chunks, marks any of
  them last, ends, fails, or goes silent. `RecvChunk` is one step from the return
  of `Recv` to the write or to the call of the enforcer: nothing in between
  blocks, and the struct belongs to the goroutine. A killed stream is finalized by
  the same action as the others, since `hardKill` calls `finalize` last.
* **EgressContract** says what the proxy promises about a stream with none of the
  loop in it; **MonitorRefinement** maps one to the other.
* **FailOpen** gives the four operations their common shape: the guard, the inner
  call, the second ping of `handleError`, the store of its result, the return.
  The store is apart from the ping, as it is in the code. `Ping` is there because
  the type exports it; nothing in the proxy calls it, so it has no fairness and
  `Pingers` is empty in every run. The theorems about FailOpen are for any callers
  and any pingers.
* **Grace** runs `Enforcer.Evaluate` through it. A Redis command is a step; the
  keys have TTLs; the counter is kept as the times of its increments, whose number
  is its value. The `:last` key is written and read but nothing depends on it. Any
  connection that fails may have its pipeline sent again, the increment's and the
  reset's.
  **GraceWindow** is counting in windows, without keys.
* **Behavior** is `RecordRequest`, again a step per command, and the script with
  the arithmetic of `GetBehaviorStats` as operators, since a script is atomic and
  changes nothing. `begun` and `acked` remember what was recorded. Averages and
  rates are whole bytes.
* **Backend** is the service. A generator is at the top of its loop, making a
  chunk, or in `Send`; `job` holds its locals. The three generators have one shape
  and are one set of actions; the rows are a payload's size. `RngRace` is what
  concurrent use of one `rand.Rand` can do: numbers stay in the ranges they are
  drawn from, but an index can leave the table, and that panic ends the process.
* **Egress** composes the two: the chunks, the end and the errors Monitor takes
  come from a generator, through a window, and the context Monitor cancels reaches
  the generator some time later. gRPC between them is external: messages in order,
  then the status; a lost connection may take the messages with it.
* **ProxyServer** is the process. A request takes a token, is counted a step
  later, is served, returns its token, and is counted off; main returns from
  `ListenAndServe` once the listener is closed, and its deferred `close` waits and
  closes the two connections. What a handler does meanwhile is Monitor.

* **Metrics** conjoins each action of Monitor with the counters that step moves:
  the kill's in `hardKill`, the grade's in `evaluateSoftBreach`, the bytes' after
  the write, the status after `Stream` has returned. Labels that name users,
  endpoints and methods are summed over.
* **Sentinel** runs Monitor with its Redis calls spelled out. `handleStream` asks
  for the history, the loop for a grade, `finalize` records, all through one
  FailOpen client; between the call of the enforcer and its return the stream
  takes Grace's steps, and the grade it acts on is the one the shared keys give.
  Any call may fail while Redis is up, of a client that is present as of one that
  left: a reply is late, a connection breaks, a context is cancelled. The record and
  the ping of `handleError` have contexts of their own. `unanswered` remembers the
  streams whose grade is the fail-open client's and not the counter's.
* **Config** is `Load`: defaults, the file decoded over them (an entry of a map is
  decoded into a new value, so a multiplier it leaves out is zero), the variables
  of the environment, and only then `Validate`, with NaN and infinities compared
  the way IEEE 754 compares them. A configuration is a record of the fields a
  decision reads.
* **Identity** is `Resolve`. A token is a record of its key, subject, role and
  soundness; a name is the method with what is hashed or copied into it.
* **Admission** starts and stops the proxy with one source after another and
  grants requests in between: a name, a role, a bypass and the three limits,
  every product converted the way the machine converts it (`saturates`).

The contract between Monitor and Grace is the grade: Monitor takes any, Grace
says which can come, and Sentinel puts the two together. The contract between
Monitor and Behavior is the history: Monitor takes any `BehaviorStats`, Behavior
says which can come. The contract between Admission and Monitor is the decision.

A definition that is followed by another of nearly its name (`Permits`,
`PermitsNone`) is a fault of the code as a mutation would put it; PROJECT.json
says which property finds it.

## 3. Runs

| Run | What it shows |
|---|---|
| `monitor` | Eight kinds of enforced requests and a bypassed one, four histories, two rates and two chunk sizes, up to six chunks: delivery, grades, kills, throttle, accounting, the counters of `/metrics`, what a handler still does once its client has left (`OneMoreChunk`), and that it ends; and that Monitor implements EgressContract, `Settle` under fairness included. |
| `grace` | Two streams race: no strike outlives the window, and a user who stops is forgiven. |
| `grace_window` | Calls that do not overlap implement GraceWindow, and each stream is graded by the place its violation has in the window. |
| `grace_failures` | Slow calls, lost replies, resent pipelines, TTLs that race and two outages: every evaluation returns a grade, a client that was never made is never called, and a call that meets an outage which lasts marks the client unavailable, so that no request waits for Redis any more. |
| `behavior` | Two streams of one user, one on a connection that may break: the window holds what was acknowledged, once, and nothing that was not begun; and until a pipeline breaks, the average settles at no more than the largest request, the set is bounded, a user who stays away is forgotten. |
| `egress` | A stream and the generator behind it: complete means whole, every stream is served to its end, its end ends the generator, and a graceful stop of the backend cuts nothing. |
| `proxy_server` | Tokens, rejections, draining and the end of the process. |
| `admission` | Ten sources, partial, malformed, negative, corrected by the environment or spoilt by it, and nine requests that mix credentials: privileges come from the secrets of the start, names keep users apart and survive a restart, a request without its credentials is allowed no more (where that is so, see section 6), and what `Validate` lets pass the engine can work with. |
| `sentinel` | Two streams of one user, an outage at any moment, clients that leave, replies that are late or lost while Redis is up, and resent pipelines: a stream is terminated only for the violations of the user's streams, of those the counter graded no more are let off than `log_only_count` says, and only the outage degrades the proxy. |
| `log_only`, `health`, `grace_race` | Each finds the code doing something else than the repository says; see section 6. |

The type invariants of Admission and Sentinel are checked, the second with Monitor's
and Grace's in it. All type invariants are theorems.

Bounds, and why they are enough:

* `Streams = {s1}` in the monitor runs. Streams share no variable of Monitor, so a
  second one adds interleavings and no behaviour; the theorems are for any number.
* Floor 10, ceiling 20 and chunks of 4 and 9 put the limit, its 70%, and the
  ceiling between chunks and inside one, and let one chunk cross from below the
  limit to over the ceiling (a guest's limits are 5 and 10). The override of
  `/raw` names only its floor, which leaves a ceiling of zero, below the floor; the
  ceiling of `/off` is negative. The contract is given the chunk sizes (`Bytes`) and
  the limits (`Amounts`) these make.
  `MaxChunks` lets a throttled stream go from below 70% to over the ceiling.
* `grace_failures`: one stream, because a second one, with its slow calls, makes
  two liveness properties take longer than a run may. What another stream does to
  this one is to expire or delete keys, which the clock and the TTLs do here, and to
  clear the flag, which sends the rest of its calls past Redis. That calls which
  race do not degrade the client is checked in `sentinel`, and proved for any number
  of them. `MaxOutages = 2`: one outage may be the one at the start and
  another follow.
* `sentinel`: two streams, so that each breaches in every step of the other's
  evaluation; a stream has one chunk, which is over the limit. `MaxTroubles = 2`: of
  outages, clients that have left and evaluations that sent a pipeline again, any two
  come together, and not three; replies that are late or lost while Redis is up are
  not counted, and any number of them may come on top. The theorems of this module
  hold for every `MaxTroubles`, `Escalates` among them. Time
  stands still (`MaxTime = 1`): windows and their ends are the subject of `grace`
  and `grace_window`. A request is enforced, and `MaxStrikes` is over what two
  streams and their resent pipelines can count, so that it bounds nothing.
* `admission`: bytes are megabytes and `TwoTo63` is 10000 of them, so that one
  source can put a product out of range; multipliers are halves, one role's and one
  ceiling's negative. Two secrets, no
  header with a vertical bar in it. The last grant of each of two clients is kept,
  which is what a property about two requests needs.
* `W`, `LastStart`, `MaxTime`, `MaxStrikes`: two windows and the gap after them,
  and enough strikes to reach `terminate`.
* `SlowCalls = FALSE` and `TTLsRace = FALSE` in `grace` and `grace_window`: calls
  take less than a second, and two TTLs that one pipeline set microseconds apart
  end together and not within another pipeline. `grace_failures` has both TRUE.
* `MaxRetries = 1`, where the Redis library's default is three: a second resend
  repeats the first. A resend is assumed not to overlap the execution it repeats.
* `Keep = 1`, `WindowSize = 2`, three records of one size, in `behavior`: the trim
  by rank and the trim by age both take entries, and the TTLs end before the clock
  stops. `Lag = 1`: a pipeline takes a millisecond or less, against a slack, ten
  minutes in the code, of one. `TTLsRace = FALSE`: no TTL ends within a pipeline.
* Three requests and two slots in `proxy_server`: one request too many.
* `Window = 1`, at most four chunks in `egress`: the generator waits in `Send` for
  every chunk but the first. One stream, since streams meet in the backend only;
  `OtherClients` stands for the calls its generator may race with. An attack and
  an enforced export go over their ceilings, a normal stream may end below the
  limit, under 70% of it or over it, and bypassed ones always complete.

Fairness. The handler's own steps are weakly fair because each has a deadline:
Redis calls have `read_timeout` and `write_timeout`, the recording five seconds,
a write the server's `WriteTimeout`. `Recv` has none, so it is fair only once its
context is cancelled. Calls of FailOpen, Grace and Behavior, time and TTLs are
fair; Redis is not: it need not come back. In Egress the
generators and the delivery of messages and cancellations are fair as well, and so
`Recv` is whenever there is something to receive. In ProxyServer main and the
middleware are fair and the return of a handler is not: `ShutdownEnds` assumes it.
Starting a request, disconnecting, outages and signals are never fair. Sentinel and
Admission state safety only and assume no fairness.

Deadlock is checked everywhere; where a system comes to its end (every handler
has returned, the clock has stopped, the process has exited) a stuttering action
says so.

## 4. Proofs

All for any constants that satisfy the assumptions named in the modules.

Every safety invariant and every action property of the passing runs is a theorem,
and so is the safety half of each refinement. The compositions (Egress, Sentinel,
Metrics) are shown to take only steps of the modules they are made of, so that the
theorems about these hold there as well. Where a theorem needs more than the
modules assume, its hypothesis is a definition of its own with a comment that says
what it excludes; each is listed here.

**MonitorProofs**

* The engine returns a decision whatever the multipliers of endpoint and role are, and
  one with natural limits where none is negative (`EvaluateType`); a user with history
  is held within the ceiling and given at least the floor where that is below the
  ceiling (`HistoryWithinLimits`). Division and products are lemmas:
  the provers need them stated.
* `TypeCorrect`, then the safety invariants. None of them is inductive. The
  strengthening, `StreamInv`, is per stream and has two parts. *Accounting* says
  what `totalBytes` is at each `pc`: what was delivered, or that and the chunk in
  hand, and at the end that, between the two. *Grading* says what the grade and
  the flags mean there: a stream in `write` is under its ceiling and, if over its
  limit, was charged and graded; one in `evaluate` is between the two; one killed
  has a cause. Each action preserves each part for its own stream and changes no
  other. `GradedOnce` follows from *Grading*; `LimitsFixed` needs only the type and
  that `Observed` keeps the two limits of the decision.
* `ThrottledPastPoint` has a strengthening of its own, `Pacing`: a stream graded
  throttle stays throttled in the loop, and one about to write past the throttle
  point is throttled or was graded log_only.
* `LeavingTheorem` (`OneMoreChunk`): once the client is gone every step of its handler
  brings it nearer its end, by `StepsLeft`, which is at most five while it runs; no way
  leads back to `Recv`. It needs the type only.
* `MonitorSafety` puts all of these together, and under `Init /\ [][Next]_vars`, without
  the fairness of `Spec`, which is what a composition can be shown to satisfy.

**RefinementProofs**: `ContractTheorem`, that the initial states of Monitor are the
contract's and that each step is one of the contract's or a stutter, under the
mapping of MonitorRefinement and with its `BytesAssumption`. One lemma per action
names the contract's step: a chunk is `Fetch` or, over the ceiling, `Cut`; a grade is
`Pardon` or `Cut`; a write is `Deliver` or `Break`. `StreamInv` supplies the guards.
The fairness of `Settle` stays with the `monitor` run. The lemma about a step
(`ContractStep`) serves the compositions too: see `EgressContractTheorem` and
`SentinelContractTheorem`.

**GraceProofs**

* `FailOpenType`; `Blameless`, which adds to the two invariants of the fail-open
  client that a result on its way to the flag (a caller in `store`, a pinger with
  `failed`) is one an outage caused. `DegradedForGood`: with no pinger, and the proxy
  has none, unavailable is for ever.
* `GraceTypeTheorem`. `GraceCallsFailOpen`: with the enforcer on top, each step is a
  step of FailOpen or leaves it alone, so that the invariants of FailOpen hold
  there too (`GraceOutageTheorem`).
* `StrikesTheorem`, under `Reliable`: no outage, no unlucky connection, calls of less
  than a second, TTLs that end together. These are the bounds of the `grace` run, and
  all four are needed: with any one of them lifted there, TLC finds a strike that
  outlived the window. `QuickInv` is the strengthening: the client never leaves the healthy
  path (`Healthy`); what each place of the evaluation has established (`CallInv`); and
  how the two keys and their TTLs go together (`KeysInv`): a strike of an earlier
  second has its `:first` key, which is no younger than the strike and does not end
  after the counter unless somebody is between the commands that set them.
* `WindowTheorem`, under `Reliable` and `Sole` (one evaluation at a time): the safety
  half of GraceWindow. `SoleInv` adds that `:first` is then the time of the first
  strike exactly.
* `GradesTheorem`, under `Reliable` and `Sole`: a stream is graded by the place of its
  violation in the window (`GradesFollowWindow`). Between the counter and the grade are
  the rest of a pipeline and the return of two calls; `CountInv` says from the increment
  to the end of the evaluation that the reply is the number of strikes there are, and
  `QuickInv` that no TTL ends and no second passes meanwhile.
* `EvaluationTheorem`, with no hypothesis: `EvaluationLeft` is at most
  `8 * MaxRetries + 17` and every step of an evaluation lowers it, failures, outages,
  resends and slow calls included. `Placed` ties the place of a call in FailOpen to
  the place of the evaluation.

**SentinelProofs**: any number of streams of the user, any outages, resends and
disconnections. `SharedInv` is the type with what ties a stream's place in the loop to
its call in Redis.

* `TerminatedTheorem`. A count alone is not inductive: the strikes are *traced*. There
  is an injection from strikes into pairs of a stream that was charged and a try of
  its pipeline already sent (`Traced`), so their number is bounded by the streams that
  were charged times `MaxRetries + 1`, and a grade of terminate bounds it from below
  (`Reach`, `CountsBounded`).
* `EscalatesTheorem`. While the first window lasts (`Calm`) the counter only grows,
  whatever fails: no reset is due and no TTL ends (`Lasting`). Each stream that the
  counter graded, or is about to, has a place of its own among the strikes (`Places`),
  which the grade is a function of. A stream whose own call for a strike failed has
  none; it is in `unanswered`, and excused.

* `SentinelIsMonitor` and `SentinelCallsFailOpen`: a step of the composition is one of
  Monitor, or leaves its streams alone, and one of FailOpen, or leaves its client alone.
  From the first, `SentinelSafety` and `SentinelContractTheorem`; from the second,
  `SentinelOutageTheorem` (only an outage degrades the client, clients that leave in
  the middle of a call included) and `SentinelDegradedForGood`.

`SentinelAssumption` bounds nothing the code bounds: `MaxStrikes` is over what the
streams and their resends can count, so that an evaluation may always begin.

**EgressProofs**: `EgressTypeTheorem`, `CompleteTheorem`, `GracefulStopTheorem`, and
`EgressIsMonitor`, that the composition only takes steps of Monitor. The invariant
has Monitor's and, per call, four parts: what the generator has made and sent
(`GeneratorInv`), what is in the channel (`ChannelInv`), what the status at its end
means (`EndInv`) and what a cancellation has reached (`CancelInv`). The sum of the
messages in the channel is stated by the existence of running totals (`Adds`), not
by a recursive definition: appending and taking the head are then two lemmas.
`EgressSafety` and `EgressContractTheorem` carry what is proved of Monitor over.
`CancelledTheorem`: a generator whose call was cancelled only goes towards its end and
sends nothing more, whatever it was in the middle of.

**AdmissionProofs**: `GrantsInv` says that the process runs with what `Load` makes of
its source, and that each grant kept is what that configuration gives its request.
From it: the type; `PlainTheorem`, over every file and environment, NaN and infinities
included, for endpoints and roles with any finite multipliers, negative ones
included; `PrivilegesTheorem`; `StrippingTheorem`, that a request without credentials
has no role, and then monotonicity of products, quotients, minimum and maximum, lemma by
lemma; `RestartTheorem`; and `NamesTheorem`
under `NoSeparators` (no user agent contains the bar that the resolver puts between
the parts), which needs that two sequences joined by an element neither contains can be
taken apart. Without `NoSeparators` the property fails: see section 6.

**ProxyServerProofs**: `ProxyTypeTheorem`; `Counters` says that the semaphore and the
wait group hold the cardinalities of the sets they count, which bounds the first and
makes an empty wait group mean that nothing is served; `Drained` says that the requests
in service at the signal only go forward and are done when `Wait` has returned.

**TotalsProofs**

* Sums over a finite set are folds. Induction over the set is done without the
  library's induction theorems: of the subsets a statement fails for, one is minimal
  (`MinimalSet`, from the well-foundedness of strict inclusion). From it, that a sum is
  changed by exactly what one member changes.
* Behavior: `RecordsInv`, the type, and that all that is in the set, in a pipeline
  or acknowledged was begun, and not in the future; `KeptInv`, that a record its
  pipeline has added is in the set, too old, or behind `Keep` others, and that
  the set's TTL outlasts the window of those renewed since; `BoundedInv`; `TotalsInv`,
  that the lifetime sum is at most the largest request times the count and the
  pipelines between the two increments, and that the sum ends no later than the
  count unless a pipeline is about to renew it. `WindowHoldsTheorem`
  and `AverageTheorem` assume that TTLs set together end together (`~TTLsRace`;
  with it TLC refutes both on the instance of `behavior`, see section 6 for what
  becomes of the average). `AverageTheorem` assumes `WeightsBlend` too,
  that the two weights add up to at most one. The defaults are 0.7 and 0.3;
  `Validate` looks at neither.
* Metrics: `MetricsInv` is the type, `StreamInv`, that a bypassed stream stays below
  its limits and an outcome is set only by leaving the loop (`PathInv`), and `Books`,
  the equations with what is in flight on each side. Each step is balanced for its own
  stream. `MetricsIsMonitor` (counting changes nothing of what is counted, and the
  fairness is the same) and with it `MetricsSafety`. `ReconcileTheorem` assumes `TrafficBounded`: finitely many streams, and no
  bypassed one that carries 2^62 bytes.

Only model-checked: the liveness properties, since the provers have neither fairness
nor ENABLED (`DisconnectEndsHandler`, `EvaluateReturns`, `Forgiven`, `Forgotten`,
`GeneratorEnds`, `OutageNoticed`, `ServedInTheEnd`, `ShutdownEnds`, and `Settle` of the
contract). Of four of them the half that is about steps is proved: `LeavingTheorem`,
`EvaluationTheorem` and `CancelledTheorem` give a measure that only falls, or a place
that is only left forward, and `DegradedForGood` that `OutageNoticed` keeps the mark
once it is made. What the runs add is that a step is always enabled and fairness takes it.

## 5. Not modelled

* Logging, the middleware that logs, `Config.String` and `parseLogLevel`: they
  print. The values the histograms observe and the two series about Redis, of
  which one is never moved and the other by the fail-open callback only.
* The length of a throttle delay (`adaptiveDelay`): it only makes a write later.
* Generated protocol code, the scripts and the deployment; the content of the
  backend's rows.
* Addresses, timeouts, pool sizes: no decision reads them.
* Soundness of a token (its encoding, its expiry, the signature itself) is one
  flag: the token library's business. A hash has no collisions.
* Redis loses no data in an outage; persistence and eviction are out.

`/raw` in the monitor runs stands for an endpoint an operator configures; the proxy
routes `/data` and `/export` only.

## 6. Where code and documentation differ

Each is a run that ends in a counterexample; PROJECT.json quotes the lines.

1. `log_only`: a `log_only` grade releases the throttle that was set at 70% of the
   limit (`monitor.go:188`), so the stream speeds up at its first violation.
2. `health`: a client that was made while Redis was up is marked unavailable by one
   failed ping of `handleError`; only `FailOpenClient.Ping` would set the flag again,
   and nothing in the proxy calls it. So `/health` says that Redis is down, and the
   proxy runs on defaults, until it is restarted. `DegradedForGood` and
   `SentinelDegradedForGood` prove it for any number of streams and outages.
3. `grace_race`: two streams that find the window over delete each other's first
   strike; both are first.

Seen while modelling, without a run of their own:

* An increment whose reply is lost is sent again by the Redis library and counts
  twice (`client.go:245`), so that a user's first violation may be throttled. The
  bound of `TerminatedOnlyForViolations` is therefore `MaxRetries + 1` per stream.
* `anomalies_detected_total` is moved only by a kill (`monitor.go:283`), while
  `README.md:242` says "Rate anomalies detected"; `requests_total` counts neither
  bypassed requests nor those the semaphore rejects, while `README.md:240` says
  "Total requests". A killed stream is counted as 429, but its client was sent 200
  with the first byte. `Metrics` has all of it.
  It moves the counters that follow the end of a stream in one step (`FinalizeCounted`),
  the code one after another: only a scrape of `/metrics` can come between.
* `terminate_count` (`config.go:90`, `README.md:216`) is loaded and read by nobody:
  `gradeFromCount` terminates as soon as the count is over `throttle_count`, whatever
  `terminate_count` says (`GradeFromCount`). With the defaults 1, 2 and 3 the two agree.
* A multiplier an override leaves out is zero (`Decoded`), one below zero is taken as it
  is, and a ceiling of 2^63 or more after multiplication is the least integer on
  amd64 (`Int64`). `Validate` looks at none of it. A limit may then be negative, and
  a stream ends at its first byte; `PlainRequestsServed` and `StrippedGetsNoMore` say
  which configurations they are about (`InRange`).
* `README.md:42` says "Stripping credentials doesn't help". `StrippedGetsNoMore` is as
  much of it as holds: the request is resolved anew, under the name of its
  fingerprint and with no role, and if that name has the same history or none, it is
  allowed no more. But history and strikes belong to the name: a fingerprint that has
  earned a larger average is allowed more than the user was, and a user whose next
  violation would be terminated gets `log_only` again.
* A role multiplier below one makes a role's limits stricter than those of a
  request without a token; `StrippedGetsNoMore` assumes there is none.
* A stream whose call for a strike fails is graded as a first violation
  (`failopen.go:88`), however many there were, and any late reply will do; `Escalates`
  excuses those streams and no others.
* A user agent or an address with a vertical bar in it makes the string that is
  hashed ambiguous (`resolver.go:118`).
* The "sliding window" of `README.md:213` is fixed: when it ends, strikes of its
  last second go with the first (GraceWindow says exactly what is counted).
* Two records of one size in one millisecond are one member of the set, whatever
  `client.go:66` says of every byte.
* The sum and the count of the lifetime average are separate commands. A reader
  between them sees `AverageIsOfRequests` false; with `TTLsRace = TRUE`, where a
  TTL ends between two EXPIREs, `AverageSettles` fails too, and the average stays
  too high until the user is forgotten. Redis seldom interleaves a pipeline this
  short; it promises nothing about it.
* `main.go:113` logs "shutdown complete" when `ListenAndServe` returns, before the
  deferred `close` waits for running requests; a connection accepted before may
  still bring one, and it may find the connections closed (`DrainedBeforeClose`
  covers only requests in service at the signal).
* `status.Code(ctx.Err())` is Unknown, so the backend takes the branch of
  `cmd/backend/main.go:109` only when `Send` fails; the client has left either way.
* The backend's calls share one `rand.Rand` without a lock (`RngRace`).
* `Validate` compares with `<=`, which a NaN passes: `SENTINEL_BURST_MULTIPLIER=NaN`
  is accepted (Config and Admission have it; Threshold's assumption leaves NaN and
  infinities out).
* The rate anomaly compares with a tenth of the user's average bytes
  (`monitor.go:163`) and not with the user's rate.

## 7. Plan

Done: every module above, their runs, and the theorems of section 4. What the runs
check and no theorem states is liveness, of which section 4 says what is proved. Left:

1. What `StrikesTheorem` becomes when calls are slow: how far past the window a
   strike may be counted, as a bound in the length of a call. The model would need
   the deadline of a Redis call as a constant.
2. The same for `AverageTheorem` when TTLs set together do not end together: how long
   the average may stay too high.
