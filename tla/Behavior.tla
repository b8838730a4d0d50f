------------------------------- MODULE Behavior -------------------------------
(***************************************************************************)
(* The history of one user: RecordRequest and GetBehaviorStats of          *)
(* internal/redis/client.go, called by every stream of the user.           *)
(*                                                                         *)
(* RecordRequest sends one pipeline of eight commands, which is no          *)
(* transaction: each is a step.  The keys are user:<id>:bytes, a sorted     *)
(* set, and the counters user:<id>:sum and user:<id>:count.  A member       *)
(* "<ms>:<bytes>" of the set is the pair it prints; its score is its time.  *)
(*                                                                         *)
(* The clock counts milliseconds, for the proxy and for Redis; a key is     *)
(* gone in the millisecond its TTL ends.                                   *)
(***************************************************************************)
EXTENDS Integers, Sequences, FiniteSetsExt, SequencesExt

CONSTANTS
  Callers,       \* handler goroutines of the user's streams
  Sizes,         \* the byte counts they record, all positive
  WindowSize,    \* redis.window_size
  Slack,         \* the ten minutes a TTL exceeds the window by
  Keep,          \* 1000, the entries the set is trimmed to
  BlendWindow,   \* redis.blend_weight_window, in tenths
  BlendLifetime, \* redis.blend_weight_lifetime, in tenths
  MaxRetries,    \* times the Redis library re-sends a pipeline it got no
                 \* reply to
  Unlucky,       \* callers whose connection may fail
  TTLsRace,      \* whether a TTL may end while a pipeline runs
  Lag,           \* bound: the longest a call takes
  LastStart,     \* bound: no recording begins after this moment
  MaxRecords,    \* bound: recordings
  MaxTime        \* bound: the clock stops here

ASSUME BehaviorAssumption ==
  /\ Sizes \subseteq Nat \ {0}
  /\ WindowSize \in Nat /\ Slack \in Nat \ {0} /\ Keep \in Nat \ {0}
  /\ BlendWindow \in Nat /\ BlendLifetime \in Nat
  /\ MaxRetries \in Nat /\ Unlucky \subseteq Callers
  /\ TTLsRace \in BOOLEAN
  /\ Lag \in Nat /\ LastStart \in Nat /\ MaxRecords \in Nat
  /\ MaxTime \in Nat \ {0}

VARIABLES
  now,      \* the clock
  entries,  \* the sorted set
  sum,      \* the :sum key, 0 when absent
  count,    \* the :count key, 0 when absent
  until,    \* when each key expires
  cmd,      \* the next command of each caller's pipeline
  local,    \* what the caller records: its time, its bytes, its sendings
  broke,    \* a connection has broken
  begun,    \* the recordings that began, in order
  acked     \* the recordings that Redis acknowledged, in order

bvars == <<now, entries, sum, count, until, cmd, local, broke, begun, acked>>

Keys == {"bytes", "sum", "count"}
NoTTL == MaxTime + WindowSize + Slack + 1
TTL == WindowSize + Slack
Records == [at : 1 .. MaxTime, bytes : Sizes]

\* Type invariant; BehaviorTypeTheorem proves it.
BehaviorTypeOK ==
  /\ now \in 1 .. MaxTime
  /\ entries \subseteq Records
  /\ sum \in Nat /\ count \in Nat
  /\ until \in [Keys -> 0 .. NoTTL]
  /\ cmd \in [Callers -> {"none", "zadd", "trimAge", "trimRank", "incrSum",
                          "incrCount", "expireBytes", "expireSum",
                          "expireCount", "reply"}]
  /\ local \in [Callers -> [at : 0 .. MaxTime, bytes : Sizes \cup {0},
                            tries : 0 .. MaxRetries]]
  /\ broke \in BOOLEAN
  /\ begun \in Seq(Records)
  /\ acked \in Seq(Records)

NoLocals == [at |-> 0, bytes |-> 0, tries |-> 0]

BehaviorInit ==
  /\ now = 1
  /\ entries = {} /\ sum = 0 /\ count = 0
  /\ until = [k \in Keys |-> 0]
  /\ cmd = [c \in Callers |-> "none"]
  /\ local = [c \in Callers |-> NoLocals]
  /\ broke = FALSE
  /\ begun = <<>> /\ acked = <<>>

-----------------------------------------------------------------------------
Absent(k) ==
  CASE k = "bytes" -> entries = {}
    [] k = "sum"   -> sum = 0
    [] k = "count" -> count = 0

Quiescent == \A c \in Callers : cmd[c] = "none"

\* Time passes and takes the keys whose TTL ends.
Tick ==
  /\ now < MaxTime
  /\ \A c \in Callers : cmd[c] # "none" => now < local[c].at + Lag
  /\ TTLsRace \/ Quiescent
       \/ \A k \in Keys : Absent(k) \/ now + 1 < until[k]
  /\ now' = now + 1
  /\ entries' = IF now' >= until["bytes"] THEN {} ELSE entries
  /\ sum' = IF now' >= until["sum"] THEN 0 ELSE sum
  /\ count' = IF now' >= until["count"] THEN 0 ELSE count
  /\ UNCHANGED <<until, cmd, local, broke, begun, acked>>

Goes(c, from, to) ==
  /\ cmd[c] = from
  /\ cmd' = [cmd EXCEPT ![c] = to]

\* A key that a command makes has no TTL.
Made(k) == until' = [until EXCEPT ![k] = IF Absent(k) THEN NoTTL ELSE @]

\* The time is taken, and the member printed, before the pipeline is sent.
BeginRecord(c, bytes) ==
  /\ Goes(c, "none", "zadd")
  /\ now <= LastStart
  /\ Len(begun) < MaxRecords
  /\ local' = [local EXCEPT ![c] = [at |-> now, bytes |-> bytes, tries |-> 0]]
  /\ begun' = Append(begun, [at |-> now, bytes |-> bytes])
  /\ UNCHANGED <<now, entries, sum, count, until, broke, acked>>

Member(c) == [at |-> local[c].at, bytes |-> local[c].bytes]

\* Adding a member that is there changes nothing.
ZAdd(c) ==
  /\ Goes(c, "zadd", "trimAge")
  /\ entries' = entries \cup {Member(c)}
  /\ Made("bytes")
  /\ UNCHANGED <<now, sum, count, local, broke, begun, acked>>

TrimAge(c) ==
  /\ Goes(c, "trimAge", "trimRank")
  /\ entries' = {e \in entries : e.at > local[c].at - WindowSize}
  /\ UNCHANGED <<now, sum, count, until, local, broke, begun, acked>>

\* The n entries of highest rank; entries of one time are ranked by how their
\* members print, which is left open.
Newest(n) ==
  {kept \in SUBSET entries :
     /\ Cardinality(kept) = IF Cardinality(entries) < n
                            THEN Cardinality(entries) ELSE n
     /\ \A e \in kept, d \in entries \ kept : d.at <= e.at}

\* Faults: ZREMRANGEBYRANK 0 -1000; the set is not trimmed.
TrimmedOneMore   == Newest(Keep - 1)
TrimmedForgotten == {entries}

\* ZREMRANGEBYRANK 0 -1001
Trimmed == Newest(Keep)

TrimRank(c) ==
  /\ Goes(c, "trimRank", "incrSum")
  /\ entries' \in Trimmed
  /\ UNCHANGED <<now, sum, count, until, local, broke, begun, acked>>

IncrSum(c) ==
  /\ Goes(c, "incrSum", "incrCount")
  /\ sum' = sum + local[c].bytes
  /\ Made("sum")
  /\ UNCHANGED <<now, entries, count, local, broke, begun, acked>>

IncrCount(c) ==
  /\ Goes(c, "incrCount", "expireBytes")
  /\ count' = count + 1
  /\ Made("count")
  /\ UNCHANGED <<now, entries, sum, local, broke, begun, acked>>

\* Fault: the TTL of :sum is forgotten.
RenewedNotSum(k) ==
  until' = [until EXCEPT ![k] = IF Absent(k) \/ k = "sum" THEN @ ELSE now + TTL]

\* EXPIRE of an absent key does nothing.
Renewed(k) == until' = [until EXCEPT ![k] = IF Absent(k) THEN @ ELSE now + TTL]

ExpireKey(c, k, from, to) ==
  /\ Goes(c, from, to)
  /\ Renewed(k)
  /\ UNCHANGED <<now, entries, sum, count, local, broke, begun, acked>>

Expire(c) ==
  \/ ExpireKey(c, "bytes", "expireBytes", "expireSum")
  \/ ExpireKey(c, "sum", "expireSum", "expireCount")
  \/ ExpireKey(c, "count", "expireCount", "reply")

\* The reply arrives; the statistics RecordRequest then reads are not used.
Reply(c) ==
  /\ Goes(c, "reply", "none")
  /\ acked' = Append(acked, Member(c))
  /\ local' = [local EXCEPT ![c] = NoLocals]
  /\ UNCHANGED <<now, entries, sum, count, until, broke, begun>>

\* The connection fails before, in or after the pipeline: the whole of it is
\* sent again, or the call fails.
Resend(c) ==
  /\ c \in Unlucky
  /\ cmd[c] # "none"
  /\ local[c].tries < MaxRetries
  /\ local' = [local EXCEPT ![c].tries = @ + 1]
  /\ cmd' = [cmd EXCEPT ![c] = "zadd"]
  /\ broke' = TRUE
  /\ UNCHANGED <<now, entries, sum, count, until, begun, acked>>

RecordFails(c) ==
  /\ c \in Unlucky
  /\ cmd[c] # "none"
  /\ cmd' = [cmd EXCEPT ![c] = "none"]
  /\ local' = [local EXCEPT ![c] = NoLocals]
  /\ broke' = TRUE
  /\ UNCHANGED <<now, entries, sum, count, until, begun, acked>>

-----------------------------------------------------------------------------
\* What the statistics script reads, at one moment, and what GetBehaviorStats
\* makes of it.
InWindow == {e \in entries : e.at >= now - WindowSize}

BytesOf(S) == MapThenSumSet(LAMBDA e : e.bytes, S)
OldestOf(S) == Min({e.at : e \in S})
NewestOf(S) == Max({e.at : e \in S})

RateOf(S) ==
  IF NewestOf(S) > OldestOf(S)
  THEN (BytesOf(S) * 1000) \div (NewestOf(S) - OldestOf(S))
  ELSE 0

\* The average blends the window's with the lifetime's, when there is one.
AverageOf(S) ==
  IF count > 0
  THEN (BlendWindow * BytesOf(S) * count + BlendLifetime * sum * Cardinality(S))
         \div (10 * Cardinality(S) * count)
  ELSE BytesOf(S) \div Cardinality(S)

GetBehaviorStats ==
  IF InWindow = {}
  THEN [average |-> 0, rate |-> 0, requests |-> 0, isNewUser |-> TRUE]
  ELSE [average |-> AverageOf(InWindow), rate |-> RateOf(InWindow),
        requests |-> Cardinality(InWindow), isNewUser |-> FALSE]

-----------------------------------------------------------------------------
PipelineStep(c) ==
  \/ ZAdd(c) \/ TrimAge(c) \/ TrimRank(c) \/ IncrSum(c) \/ IncrCount(c)
  \/ Expire(c) \/ Reply(c)

Over == Quiescent /\ now = MaxTime /\ UNCHANGED bvars

BehaviorNext ==
  \/ Tick
  \/ \E c \in Callers :
       \/ \E bytes \in Sizes : BeginRecord(c, bytes)
       \/ PipelineStep(c)
       \/ Resend(c)
       \/ RecordFails(c)
  \/ Over

BehaviorSpec ==
  /\ BehaviorInit
  /\ [][BehaviorNext]_bvars
  /\ WF_bvars(Tick)
  /\ \A c \in Callers : WF_bvars(PipelineStep(c))

-----------------------------------------------------------------------------
\* Properties.

\* The set holds what was recorded and nothing else, once, however often a
\* pipeline was sent and wherever it broke; only age and the trim take an
\* acknowledged entry out, and the trim takes the oldest.
WindowHoldsRecords ==
  /\ entries \subseteq ToSet(begun)
  /\ Quiescent =>
       \A i \in DOMAIN acked :
         \/ acked[i] \in entries
         \/ acked[i].at <= now - WindowSize
         \/ Cardinality({e \in ToSet(begun) \ {acked[i]} : e.at >= acked[i].at}) >= Keep

\* client.go:86 trims the set "to prevent unbounded set growth": it is never
\* larger than Keep by more than the pipelines that have yet to trim it.
SetBounded ==
  ~broke =>
    Cardinality(entries) <=
      Keep + Cardinality({c \in Callers : cmd[c] \in {"trimAge", "trimRank"}})

\* The README says the script "computes a blended average of windowed (recent)
\* and lifetime behavior": an average of requests is never above the largest.
AverageIsOfRequests ==
  \A bound \in Sizes :
    (\A e \in ToSet(begun) : e.bytes <= bound) => GetBehaviorStats.average <= bound

\* So it is between pipelines, unless one of them broke: the two counters are
\* renewed, and expire, together.
AverageSettles == Quiescent /\ ~broke => AverageIsOfRequests

\* A user who stops is forgotten, unless a pipeline broke before it gave a key
\* it had made a TTL.
Forgotten == <>[](broke \/ (entries = {} /\ sum = 0 /\ count = 0))
=============================================================================
