------------------------------ MODULE Threshold ------------------------------
(***************************************************************************)
(* internal/threshold/engine.go: the pure decisions of the threshold       *)
(* engine.  Go computes with float64 multipliers; here a multiplier m is an *)
(* integer standing for m / Unit, and the limits are exact: a multiplier    *)
(* that is no number, and a product no int64 holds, are Admission's.        *)
(* Averages are whole bytes.                                               *)
(***************************************************************************)
EXTENDS Integers

CONSTANTS
  GlobalFloorBytes,      \* threshold.global_floor_bytes
  AbsoluteCeilingBytes,  \* threshold.absolute_ceiling_bytes
  BurstMultiplier,       \* threshold.burst_multiplier, in units of 1/Unit
  RateAnomalyFactor,     \* threshold.rate_anomaly_factor, in units of 1/Unit
  MinSamplesForAvg,      \* threshold.min_samples_for_avg
  EndpointOverrides,     \* policies.endpoint_overrides: endpoint -> multipliers
  RoleMultipliers,       \* policies.role_multipliers: role -> multiplier
  NoRole,                \* the empty role of API-key and fingerprint users
  Unit                   \* the multiplier 1.0

\* What Config.Validate enforces of numbers (a NaN passes its comparisons).  It
\* looks at no multiplier of an endpoint or of a role, so these may be zero or
\* negative.
ASSUME ThresholdAssumption ==
  /\ GlobalFloorBytes \in Nat \ {0}
  /\ AbsoluteCeilingBytes \in Nat
  /\ AbsoluteCeilingBytes >= GlobalFloorBytes
  /\ Unit \in Nat \ {0}
  /\ BurstMultiplier \in Nat \ {0}
  /\ RateAnomalyFactor \in Nat
  /\ RateAnomalyFactor > Unit
  /\ MinSamplesForAvg \in Nat
  /\ \A e \in DOMAIN EndpointOverrides :
       EndpointOverrides[e] \in [floor : Int, ceiling : Int, burst : Int]
  /\ \A r \in DOMAIN RoleMultipliers : RoleMultipliers[r] \in Int

-----------------------------------------------------------------------------
\* BehaviorStats as the engine reads it, and the Decision it returns.
Stats == [average : Nat, rate : Nat, requests : Nat, isNewUser : BOOLEAN]

Decision == [allowed : Int, floor : Int, ceiling : Int, average : Nat,
             isNewUser : BOOLEAN, anomaly : BOOLEAN]

FloorMult(endpoint) ==
  IF endpoint \in DOMAIN EndpointOverrides
  THEN EndpointOverrides[endpoint].floor ELSE Unit

CeilingMult(endpoint) ==
  IF endpoint \in DOMAIN EndpointOverrides
  THEN EndpointOverrides[endpoint].ceiling ELSE Unit

\* An override whose burst multiplier is absent, zero or negative leaves the
\* default.
BurstMult(endpoint) ==
  IF /\ endpoint \in DOMAIN EndpointOverrides
     /\ EndpointOverrides[endpoint].burst > 0
  THEN BurstMultiplier * EndpointOverrides[endpoint].burst
  ELSE BurstMultiplier * Unit

\* Fault: Go's zero value of a missing map entry is taken for the multiplier.
RoleMultUnchecked(role) ==
  IF role = NoRole THEN Unit
  ELSE IF role \in DOMAIN RoleMultipliers THEN RoleMultipliers[role] ELSE 0

RoleMult(role) ==
  IF role # NoRole /\ role \in DOMAIN RoleMultipliers
  THEN RoleMultipliers[role] ELSE Unit

\* int64(n / d): towards zero.
Trunc(n, d) == IF n < 0 THEN -((-n) \div d) ELSE n \div d

EffectiveFloor(endpoint, role) ==
  Trunc(GlobalFloorBytes * FloorMult(endpoint) * RoleMult(role), Unit * Unit)

EffectiveCeiling(endpoint, role) ==
  Trunc(AbsoluteCeilingBytes * CeilingMult(endpoint) * RoleMult(role),
        Unit * Unit)

\* int64(burstAllowed)
BurstAllowed(average, endpoint, role) ==
  Trunc(average * BurstMult(endpoint) * RoleMult(role), Unit * Unit * Unit)

LacksHistory(stats) ==
  stats.isNewUser \/ stats.requests < MinSamplesForAvg

\* The adaptive limit: the burst over the average, raised to the floor, then
\* lowered to the ceiling.
AdaptiveLimit(floor, burst, ceiling) ==
  LET raised == IF burst > floor THEN burst ELSE floor
  IN  IF raised > ceiling THEN ceiling ELSE raised

RateAnomaly(stats, currentRate) ==
  /\ currentRate > 0
  /\ stats.rate > 0
  /\ currentRate * Unit > stats.rate * RateAnomalyFactor

\* Engine.Evaluate
Evaluate(stats, endpoint, role, currentRate) ==
  LET floor   == EffectiveFloor(endpoint, role)
      ceiling == EffectiveCeiling(endpoint, role)
      new     == LacksHistory(stats)
  IN  [allowed   |-> IF new THEN floor
                     ELSE AdaptiveLimit(floor,
                            BurstAllowed(stats.average, endpoint, role),
                            ceiling),
       floor     |-> floor,
       ceiling   |-> ceiling,
       average   |-> stats.average,
       isNewUser |-> new,
       anomaly   |-> ~new /\ RateAnomaly(stats, currentRate)]

\* Fault: the limit is looked at before the ceiling.
ShouldKillLimitFirst(totalBytes, decision) ==
  IF totalBytes > decision.allowed THEN "soft"
  ELSE IF totalBytes > decision.ceiling THEN "hard"
  ELSE "none"

\* Engine.ShouldKill: the kind of breach, the ceiling looked at first.
ShouldKill(totalBytes, decision) ==
  IF totalBytes > decision.ceiling THEN "hard"
  ELSE IF totalBytes > decision.allowed THEN "soft"
  ELSE "none"

\* Engine.ShouldThrottle: between 70% of the limit and the limit.
ThrottlePoint(decision) == Trunc(decision.allowed * 7, 10)

\* Fault: a stream exactly at its limit is not throttled.
ShouldThrottleBelowLimit(totalBytes, decision) ==
  /\ totalBytes > ThrottlePoint(decision)
  /\ totalBytes < decision.allowed

ShouldThrottle(totalBytes, decision) ==
  /\ totalBytes > ThrottlePoint(decision)
  /\ totalBytes <= decision.allowed
=============================================================================
