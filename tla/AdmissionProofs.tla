---------------------------- MODULE AdmissionProofs ----------------------------
(***************************************************************************)
(* What a request is granted, for every request and environment, and every *)
(* file whose endpoint and role multipliers are finite numbers.            *)
(***************************************************************************)
EXTENDS Admission, SequenceTheorems, TLAPS

-----------------------------------------------------------------------------
(* The configuration a start of the proxy gets.                            *)

\* A configuration that Load returns.
ConfigOK(c) ==
  /\ DOMAIN c = DOMAIN DefaultConfig
  /\ c.floor \in Nat \ {0} /\ c.ceiling \in c.floor .. TwoTo63
  /\ c.burst \in Nat \cup {NaN, Inf}
  /\ \A e \in DOMAIN c.overrides :
       /\ DOMAIN c.overrides[e] = {"floor", "ceiling", "burst"}
       /\ \A m \in {"floor", "ceiling", "burst"} : c.overrides[e][m] \in Int
  /\ \A r \in DOMAIN c.roles : c.roles[r] \in Int

\* The fields of a configuration.
LEMMA Fields ==
  DOMAIN DefaultConfig =
    {"floor", "ceiling", "burst", "anomaly", "minSamples", "poolSize",
     "maxConcurrent", "jwtSecret", "bypassHeader", "bypassSecret",
     "overrides", "roles"}
  BY DEF DefaultConfig

\* What a Load that succeeds returns.
LEMMA Loaded ==
  ASSUME NEW s, Load(s) # Rejected
  PROVE  /\ s.file \notin {Unreadable, Malformed}
         /\ Load(s) = FromEnv(FromFile(DefaultConfig, s.file), s.env)
         /\ Valid(Load(s))
  BY DEF Load

\* A field that is no map comes from the environment, the file or the defaults.
LEMMA ScalarField ==
  ASSUME NEW s, Load(s) # Rejected,
         NEW f \in DOMAIN DefaultConfig \ {"overrides", "roles"}
  PROVE  Load(s)[f] =
           IF f \in DOMAIN s.env /\ s.env[f] # Unparsable THEN s.env[f]
           ELSE IF f \in DOMAIN s.file THEN s.file[f] ELSE DefaultConfig[f]
<1>1. FromFile(DefaultConfig, s.file)[f] =
        IF f \in DOMAIN s.file THEN s.file[f] ELSE DefaultConfig[f]
  BY DEF FromFile
<1>2. f \in DOMAIN FromFile(DefaultConfig, s.file)
  BY DEF FromFile
<1> QED BY <1>1, <1>2, Loaded DEF FromEnv

\* The two maps come from the file and the defaults.
LEMMA MapFields ==
  ASSUME NEW s \in Sources, Load(s) # Rejected
  PROVE  /\ DOMAIN Load(s) = DOMAIN DefaultConfig
         /\ Load(s).overrides =
              IF "overrides" \in DOMAIN s.file
              THEN Over([e \in DOMAIN s.file.overrides |->
                           Decoded(s.file.overrides[e])],
                        DefaultConfig.overrides)
              ELSE DefaultConfig.overrides
         /\ Load(s).roles =
              IF "roles" \in DOMAIN s.file
              THEN Over(s.file.roles, DefaultConfig.roles)
              ELSE DefaultConfig.roles
<1>1. {"overrides", "roles"} \cap DOMAIN s.env = {}
  BY AdmissionAssumption DEF AdmissionAssumption, SourceType
<1> DEFINE c == FromFile(DefaultConfig, s.file)
<1>2. /\ DOMAIN c = DOMAIN DefaultConfig
      /\ c.overrides =
           IF "overrides" \in DOMAIN s.file
           THEN Over([e \in DOMAIN s.file.overrides |->
                        Decoded(s.file.overrides[e])],
                     DefaultConfig.overrides)
           ELSE DefaultConfig.overrides
      /\ c.roles =
           IF "roles" \in DOMAIN s.file
           THEN Over(s.file.roles, DefaultConfig.roles)
           ELSE DefaultConfig.roles
  <2> DEFINE new == [e \in DOMAIN s.file.overrides |->
                       Decoded(s.file.overrides[e])]
  <2>1. DOMAIN c = DOMAIN DefaultConfig
    BY DEF FromFile
  <2>2. ASSUME "overrides" \in DOMAIN s.file
        PROVE  c.overrides = Over(new, DefaultConfig.overrides)
    BY <2>2, Fields DEF FromFile
  <2>3. ASSUME "overrides" \notin DOMAIN s.file
        PROVE  c.overrides = DefaultConfig.overrides
    BY <2>3, Fields DEF FromFile
  <2>4. ASSUME "roles" \in DOMAIN s.file
        PROVE  c.roles = Over(s.file.roles, DefaultConfig.roles)
    BY <2>4, Fields DEF FromFile
  <2>5. ASSUME "roles" \notin DOMAIN s.file
        PROVE  c.roles = DefaultConfig.roles
    BY <2>5, Fields DEF FromFile
  <2> HIDE DEF c
  <2> QED BY <2>1, <2>2, <2>3, <2>4, <2>5
<1> HIDE DEF c
<1>3. /\ DOMAIN FromEnv(c, s.env) = DOMAIN c
      /\ FromEnv(c, s.env).overrides = c.overrides
      /\ FromEnv(c, s.env).roles = c.roles
  BY <1>1, <1>2, Fields DEF FromEnv
<1> QED BY <1>2, <1>3, Loaded DEF c

\* The secrets are those Named says.
LEMMA SecretsNamed ==
  ASSUME NEW s \in Sources, Load(s) # Rejected
  PROVE  /\ Load(s).jwtSecret = Named(s, "jwtSecret")
         /\ Load(s).bypassSecret = Named(s, "bypassSecret")
<1>1. \A f \in {"jwtSecret", "bypassSecret"} \cap DOMAIN s.env :
        s.env[f] # Unparsable
  BY AdmissionAssumption DEF AdmissionAssumption, SourceType, Typed
<1> QED BY <1>1, Fields, ScalarField DEF Named

\* What the YAML decoder makes of an entry has all three multipliers.
LEMMA DecodedEntry ==
  ASSUME NEW o, DOMAIN o \subseteq {"floor", "ceiling", "burst"},
         \A m \in DOMAIN o : o[m] \in Int
  PROVE  Decoded(o) \in [{"floor", "ceiling", "burst"} -> Int]
<1> DEFINE zero == Multipliers(0, 0, 0)
<1>1. /\ DOMAIN zero = {"floor", "ceiling", "burst"}
      /\ \A m \in DOMAIN zero : zero[m] \in Int
  BY ConfigAssumption DEF ConfigAssumption, Multipliers, Times
<1> HIDE DEF zero
<1>2. Over(o, zero) \in [{"floor", "ceiling", "burst"} -> Int]
  BY <1>1 DEF Over
<1> QED BY <1>2 DEF Decoded, zero

\* The defaults are in order.
LEMMA DefaultMaps ==
  /\ \A e \in DOMAIN DefaultConfig.overrides :
       DefaultConfig.overrides[e] \in [{"floor", "ceiling", "burst"} -> Int]
  /\ \A r \in DOMAIN DefaultConfig.roles : DefaultConfig.roles[r] \in Int
<1>1. \A n \in Nat : Times(n) \in Nat
  BY ConfigAssumption DEF ConfigAssumption, Times
<1>2. \A a, b, d \in Nat :
        Multipliers(a, b, d) \in [{"floor", "ceiling", "burst"} -> Int]
  <2> SUFFICES ASSUME NEW a \in Nat, NEW b \in Nat, NEW d \in Nat
               PROVE  Multipliers(a, b, d)
                        \in [{"floor", "ceiling", "burst"} -> Int]
    OBVIOUS
  <2>1. Times(a) \in Nat /\ Times(b) \in Nat /\ Times(d) \in Nat
    BY <1>1
  <2> QED BY <2>1 DEF Multipliers
<1>3. \A e \in {"/export", "/data"} :
        (IF e = "/export" THEN Multipliers(3, 5, 2) ELSE Multipliers(1, 1, 1))
          \in [{"floor", "ceiling", "burst"} -> Int]
  BY <1>2
<1>4. DefaultConfig.overrides =
        [e \in {"/export", "/data"} |->
           IF e = "/export" THEN Multipliers(3, 5, 2) ELSE Multipliers(1, 1, 1)]
  BY DEF DefaultConfig
<1>5. DefaultConfig.roles =
        [admin |-> Times(5), analyst |-> Times(3), exporter |-> Times(10),
         user |-> Times(1)]
  BY DEF DefaultConfig
<1>6. Times(5) \in Nat /\ Times(3) \in Nat /\ Times(10) \in Nat /\ Times(1) \in Nat
  BY <1>1
<1> QED BY <1>3, <1>4, <1>5, <1>6

\* The configuration Validate lets pass is one the engine can work with, NaN
\* and infinities included.
LEMMA LoadType ==
  ASSUME NEW s \in Sources, Load(s) # Rejected
  PROVE  ConfigOK(Load(s))
<1> DEFINE c == Load(s)
<1>1. Valid(c) /\ s.file \notin {Unreadable, Malformed}
  BY Loaded
<1>2. /\ SourceType(s) /\ Typed(s.env) /\ Typed(s.file)
      /\ \A f \in DOMAIN s.file : s.file[f] # Unparsable
  BY <1>1, AdmissionAssumption DEF AdmissionAssumption, SourceType
<1>3. TwoTo63 \in Nat /\ TwoTo63 >= 100
  BY AdmissionAssumption DEF AdmissionAssumption
<1>4. /\ DefaultConfig.floor = 1 /\ DefaultConfig.ceiling = 100
      /\ DefaultConfig.burst \in Nat
  BY ConfigAssumption DEF ConfigAssumption, DefaultConfig, Times
<1>5. c.floor \in Integer64 /\ c.ceiling \in Integer64
  BY <1>2, <1>3, <1>4, Fields, ScalarField DEF Typed, Integer64
<1>6. c.burst \in Int \cup {NaN, Inf}
  BY <1>2, <1>4, Fields, ScalarField DEF Typed
<1>7. /\ c.floor \in Nat \ {0} /\ c.ceiling \in c.floor .. TwoTo63
      /\ c.burst \in Nat \cup {NaN, Inf}
  BY <1>1, <1>3, <1>5, <1>6 DEF Valid, Above, Integer64
<1>8. \A e \in DOMAIN c.overrides :
        c.overrides[e] \in [{"floor", "ceiling", "burst"} -> Int]
  <2>1. CASE "overrides" \in DOMAIN s.file
    <3> DEFINE o == s.file.overrides
               new == [e \in DOMAIN o |-> Decoded(o[e])]
    <3>1. \A e \in DOMAIN o : /\ DOMAIN o[e] \subseteq {"floor", "ceiling", "burst"}
                              /\ \A m \in DOMAIN o[e] : o[e][m] \in Int
      BY <1>1, <1>2, <2>1 DEF SourceType
    <3>2. \A e \in DOMAIN new :
            new[e] \in [{"floor", "ceiling", "burst"} -> Int]
      BY <3>1, DecodedEntry
    <3>3. c.overrides = Over(new, DefaultConfig.overrides)
      BY <2>1, MapFields
    <3> HIDE DEF new
    <3> QED BY <3>2, <3>3, DefaultMaps DEF Over
  <2>2. CASE "overrides" \notin DOMAIN s.file
    BY <2>2, MapFields, DefaultMaps
  <2> QED BY <2>1, <2>2
<1>9. \A r \in DOMAIN c.roles : c.roles[r] \in Int
  <2>1. CASE "roles" \in DOMAIN s.file
    <3>1. \A r \in DOMAIN s.file.roles : s.file.roles[r] \in Int
      BY <1>1, <1>2, <2>1 DEF SourceType
    <3>2. c.roles = Over(s.file.roles, DefaultConfig.roles)
      BY <2>1, MapFields
    <3> QED BY <3>1, <3>2, DefaultMaps DEF Over
  <2>2. CASE "roles" \notin DOMAIN s.file
    BY <2>2, MapFields, DefaultMaps
  <2> QED BY <2>1, <2>2
<1>10. DOMAIN c = DOMAIN DefaultConfig
  BY MapFields
<1> HIDE DEF c
<1>11. \A e \in DOMAIN c.overrides :
         /\ DOMAIN c.overrides[e] = {"floor", "ceiling", "burst"}
         /\ \A m \in {"floor", "ceiling", "burst"} : c.overrides[e][m] \in Int
  BY <1>8
<1> QED
  <2>1. ConfigOK(c)
    BY <1>7, <1>9, <1>10, <1>11 DEF ConfigOK
  <2> QED BY <2>1 DEF c

-----------------------------------------------------------------------------
(* The limits the engine makes of it.                                      *)

\* A product of naturals is one, and grows with its factors.
LEMMA TimesNat ==
  ASSUME NEW a \in Nat, NEW b \in Nat
  PROVE  a * b \in Nat
  OBVIOUS

LEMMA TimesMono ==
  ASSUME NEW a \in Nat, NEW b \in Nat, NEW d \in Nat, b <= d
  PROVE  a * b <= a * d
<1>1. PICK k \in Nat : d = b + k
  <2>1. d - b \in Nat /\ d = b + (d - b)
    OBVIOUS
  <2> QED BY <2>1
<1>2. a * d = a * b + a * k /\ a * k \in Nat /\ a * b \in Nat
  BY <1>1
<1> QED BY <1>2

\* A quotient of naturals is one, and grows with its dividend.
LEMMA DivNat ==
  ASSUME NEW a \in Nat, NEW n \in Nat \ {0}
  PROVE  a \div n \in Nat
  OBVIOUS

LEMMA DivMono ==
  ASSUME NEW a \in Nat, NEW b \in Nat, a <= b, NEW n \in Nat \ {0}
  PROVE  a \div n <= b \div n
<1> DEFINE q == a \div n
           r == b \div n
<1>1. /\ q \in Nat /\ r \in Nat
      /\ n * q <= a /\ b < n * (r + 1)
  OBVIOUS
<1> HIDE DEF q, r
<1>2. n * q < n * (r + 1)
  <2>1. n * q \in Nat /\ n * (r + 1) \in Nat
    BY <1>1, TimesNat
  <2> QED BY <1>1, <2>1
<1>3. ~(r + 1 <= q)
  BY <1>1, <1>2, TimesMono
<1> QED BY <1>1, <1>3 DEF q, r

LEMMA DivCancel ==
  ASSUME NEW a \in Nat, NEW n \in Nat \ {0}
  PROVE  (a * n) \div n = a
<1> DEFINE q == (a * n) \div n
<1>1. a * n \in Nat
  OBVIOUS
<1>2. q \in Nat /\ n * q <= a * n /\ a * n < n * (q + 1)
  BY <1>1
<1> HIDE DEF q
<1>3. a * n = n * a
  OBVIOUS
<1>4. ~(a + 1 <= q)
  <2>1. a + 1 <= q => n * (a + 1) <= n * q
    BY <1>2, TimesMono
  <2>2. n * (a + 1) = n * a + n
    OBVIOUS
  <2>3. n * a \in Nat /\ n * q \in Nat
    BY <1>2, TimesNat
  <2> QED BY <1>2, <1>3, <2>1, <2>2, <2>3
<1>5. ~(q + 1 <= a)
  <2>1. q + 1 <= a => n * (q + 1) <= n * a
    BY <1>2, TimesMono
  <2>2. n * (q + 1) \in Nat /\ n * a \in Nat
    BY <1>2, TimesNat
  <2> QED BY <1>2, <1>3, <2>1, <2>2
<1> QED BY <1>2, <1>4, <1>5 DEF q

\* A product of integers is one.
LEMMA TimesInt ==
  ASSUME NEW a \in Int, NEW b \in Int
  PROVE  a * b \in Int
  OBVIOUS

\* A conversion cuts off towards zero.
LEMMA TruncType ==
  ASSUME NEW c, NEW a \in Int, NEW n \in Nat \ {0}
  PROVE  /\ Engine(c)!Trunc(a, n) \in Int
         /\ a >= 0 => Engine(c)!Trunc(a, n) = a \div n
<1>1. CASE a < 0
  <2>1. -a \in Nat
    BY <1>1
  <2>2. (-a) \div n \in Nat
    BY <2>1, DivNat
  <2> QED BY <1>1, <2>2 DEF Engine!Trunc
<1>2. CASE a >= 0
  <2>1. a \div n \in Nat
    BY <1>2, DivNat
  <2> QED BY <1>2, <2>1 DEF Engine!Trunc
<1> QED BY <1>1, <1>2

\* Every multiplier the engine finds is a whole number of units, and the one of
\* the burst is not negative.
LEMMA MultsType ==
  ASSUME NEW c, ConfigOK(c), NEW endpoint, NEW role
  PROVE  /\ Engine(c)!FloorMult(endpoint) \in Int
         /\ Engine(c)!CeilingMult(endpoint) \in Int
         /\ Engine(c)!RoleMult(role) \in Int
         /\ c.burst \in Nat => Engine(c)!BurstMult(endpoint) \in Nat
<1>1. Unit \in Nat
  BY ConfigAssumption DEF ConfigAssumption
<1>2. \A e \in DOMAIN c.overrides :
        /\ c.overrides[e].floor \in Int
        /\ c.overrides[e].ceiling \in Int
        /\ c.overrides[e].burst \in Int
  BY DEF ConfigOK
<1>3. Engine(c)!FloorMult(endpoint) \in Int
  BY <1>1, <1>2 DEF Engine!FloorMult
<1>4. Engine(c)!CeilingMult(endpoint) \in Int
  BY <1>1, <1>2 DEF Engine!CeilingMult
<1>5. Engine(c)!RoleMult(role) \in Int
  <2>1. Unit \in Int /\ \A r \in DOMAIN c.roles : c.roles[r] \in Int
    BY <1>1 DEF ConfigOK
  <2> QED BY <2>1 DEF Engine!RoleMult
<1>6. ASSUME c.burst \in Nat
      PROVE  Engine(c)!BurstMult(endpoint) \in Nat
  <2>1. CASE endpoint \in DOMAIN c.overrides /\ c.overrides[endpoint].burst > 0
    <3>1. c.overrides[endpoint].burst \in Nat
      BY <1>2, <2>1
    <3> QED BY <1>6, <2>1, <3>1, TimesNat DEF Engine!BurstMult
  <2>2. CASE ~(/\ endpoint \in DOMAIN c.overrides
               /\ c.overrides[endpoint].burst > 0)
    BY <1>1, <1>6, <2>2, TimesNat DEF Engine!BurstMult
  <2> QED BY <2>1, <2>2
<1> QED BY <1>3, <1>4, <1>5, <1>6

\* A request without a role gets a multiplier of 1.
LEMMA NoRoleMult ==
  ASSUME NEW c
  PROVE  Engine(c)!RoleMult("") = Unit
  BY DEF Engine!RoleMult

\* The floor, the ceiling and the burst are whole numbers of bytes.
LEMMA EffectiveType ==
  ASSUME NEW c, ConfigOK(c), NEW endpoint, NEW role, NEW average \in Nat
  PROVE  /\ Engine(c)!EffectiveFloor(endpoint, role) \in Int
         /\ Engine(c)!EffectiveCeiling(endpoint, role) \in Int
         /\ c.burst \in Nat =>
              Engine(c)!BurstAllowed(average, endpoint, role) \in Int
<1> DEFINE U2 == Unit * Unit
           U3 == Unit * Unit * Unit
           nf == c.floor * Engine(c)!FloorMult(endpoint) * Engine(c)!RoleMult(role)
           nc == c.ceiling * Engine(c)!CeilingMult(endpoint)
                   * Engine(c)!RoleMult(role)
           nb == average * Engine(c)!BurstMult(endpoint) * Engine(c)!RoleMult(role)
<1>1. U2 \in Nat \ {0} /\ U3 \in Nat \ {0}
  BY ConfigAssumption DEF ConfigAssumption
<1>2. c.floor \in Nat /\ c.ceiling \in Nat
  BY AdmissionAssumption DEF AdmissionAssumption, ConfigOK
<1>3. nf \in Int /\ nc \in Int /\ (c.burst \in Nat => nb \in Int)
  BY <1>2, MultsType, TimesInt
<1> HIDE DEF U2, U3, nf, nc, nb
<1>4. /\ Engine(c)!Trunc(nf, U2) \in Int /\ Engine(c)!Trunc(nc, U2) \in Int
      /\ c.burst \in Nat => Engine(c)!Trunc(nb, U3) \in Int
  BY <1>1, <1>3, TruncType
<1> QED BY <1>4
    DEF U2, U3, nf, nc, nb, Engine!EffectiveFloor, Engine!EffectiveCeiling,
        Engine!BurstAllowed

\* A multiplier of at least 1 lowers no natural number.
LEMMA MultRaises ==
  ASSUME NEW c, NEW a \in Nat, NEW m \in Int, Unit <= m, NEW n \in Nat \ {0}
  PROVE  /\ Engine(c)!Trunc(a * Unit, n) \in Nat
         /\ Engine(c)!Trunc(a * Unit, n) <= Engine(c)!Trunc(a * m, n)
<1>1. Unit \in Nat /\ m \in Nat
  BY ConfigAssumption DEF ConfigAssumption
<1>2. a * Unit <= a * m /\ a * Unit \in Nat /\ a * m \in Nat
  BY <1>1, TimesMono, TimesNat
<1> DEFINE x == a * Unit
           y == a * m
<1>3. x \in Nat /\ y \in Nat /\ x <= y
  BY <1>2
<1> HIDE DEF x, y
<1>4. x \div n <= y \div n /\ x \div n \in Nat
  BY <1>3, DivMono, DivNat
<1>5. Engine(c)!Trunc(x, n) = x \div n /\ Engine(c)!Trunc(y, n) = y \div n
  BY <1>3, TruncType
<1> QED BY <1>4, <1>5 DEF x, y

\* With a role whose multiplier is at least 1, none of them is lower than
\* without, at an endpoint whose own multipliers are not negative.
LEMMA RoleRaises ==
  ASSUME NEW c, ConfigOK(c), NEW endpoint, NEW role, NEW average \in Nat,
         Unit <= Engine(c)!RoleMult(role)
  PROVE  /\ Engine(c)!FloorMult(endpoint) >= 0 =>
              /\ Engine(c)!EffectiveFloor(endpoint, "") \in Nat
              /\ Engine(c)!EffectiveFloor(endpoint, "")
                   <= Engine(c)!EffectiveFloor(endpoint, role)
         /\ Engine(c)!CeilingMult(endpoint) >= 0 =>
              /\ Engine(c)!EffectiveCeiling(endpoint, "") \in Nat
              /\ Engine(c)!EffectiveCeiling(endpoint, "")
                   <= Engine(c)!EffectiveCeiling(endpoint, role)
         /\ c.burst \in Nat =>
              /\ Engine(c)!BurstAllowed(average, endpoint, "") \in Nat
              /\ Engine(c)!BurstAllowed(average, endpoint, "")
                   <= Engine(c)!BurstAllowed(average, endpoint, role)
<1> DEFINE U2 == Unit * Unit
           U3 == Unit * Unit * Unit
           R  == Engine(c)!RoleMult(role)
           af == c.floor * Engine(c)!FloorMult(endpoint)
           ac == c.ceiling * Engine(c)!CeilingMult(endpoint)
           ab == average * Engine(c)!BurstMult(endpoint)
<1>1. U2 \in Nat \ {0} /\ U3 \in Nat \ {0}
  BY ConfigAssumption DEF ConfigAssumption
<1>2. c.floor \in Nat /\ c.ceiling \in Nat
  BY AdmissionAssumption DEF AdmissionAssumption, ConfigOK
<1>3. R \in Int /\ Unit <= R
  BY MultsType
<1>4. /\ Engine(c)!FloorMult(endpoint) >= 0 => af \in Nat
      /\ Engine(c)!CeilingMult(endpoint) >= 0 => ac \in Nat
      /\ c.burst \in Nat => ab \in Nat
  <2>1. ASSUME Engine(c)!FloorMult(endpoint) >= 0
        PROVE  af \in Nat
    <3>1. Engine(c)!FloorMult(endpoint) \in Nat
      BY <2>1, MultsType
    <3> QED BY <1>2, <3>1, TimesNat
  <2>2. ASSUME Engine(c)!CeilingMult(endpoint) >= 0
        PROVE  ac \in Nat
    <3>1. Engine(c)!CeilingMult(endpoint) \in Nat
      BY <2>2, MultsType
    <3> QED BY <1>2, <3>1, TimesNat
  <2>3. ASSUME c.burst \in Nat
        PROVE  ab \in Nat
    BY <2>3, MultsType, TimesNat
  <2> QED BY <2>1, <2>2, <2>3
<1> HIDE DEF U2, U3, R, af, ac, ab
<1>5. Engine(c)!FloorMult(endpoint) >= 0 =>
        /\ Engine(c)!Trunc(af * Unit, U2) \in Nat
        /\ Engine(c)!Trunc(af * Unit, U2) <= Engine(c)!Trunc(af * R, U2)
  BY <1>1, <1>3, <1>4, MultRaises
<1>6. Engine(c)!CeilingMult(endpoint) >= 0 =>
        /\ Engine(c)!Trunc(ac * Unit, U2) \in Nat
        /\ Engine(c)!Trunc(ac * Unit, U2) <= Engine(c)!Trunc(ac * R, U2)
  BY <1>1, <1>3, <1>4, MultRaises
<1>7. c.burst \in Nat =>
        /\ Engine(c)!Trunc(ab * Unit, U3) \in Nat
        /\ Engine(c)!Trunc(ab * Unit, U3) <= Engine(c)!Trunc(ab * R, U3)
  BY <1>1, <1>3, <1>4, MultRaises
<1>8. /\ Engine(c)!EffectiveFloor(endpoint, "") = Engine(c)!Trunc(af * Unit, U2)
      /\ Engine(c)!EffectiveCeiling(endpoint, "") = Engine(c)!Trunc(ac * Unit, U2)
      /\ Engine(c)!BurstAllowed(average, endpoint, "")
           = Engine(c)!Trunc(ab * Unit, U3)
  BY NoRoleMult
  DEF U2, U3, af, ac, ab, Engine!EffectiveFloor, Engine!EffectiveCeiling,
      Engine!BurstAllowed
<1>9. /\ Engine(c)!EffectiveFloor(endpoint, role) = Engine(c)!Trunc(af * R, U2)
      /\ Engine(c)!EffectiveCeiling(endpoint, role) = Engine(c)!Trunc(ac * R, U2)
      /\ Engine(c)!BurstAllowed(average, endpoint, role)
           = Engine(c)!Trunc(ab * R, U3)
  BY DEF U2, U3, R, af, ac, ab, Engine!EffectiveFloor, Engine!EffectiveCeiling,
         Engine!BurstAllowed
<1> QED BY <1>5, <1>6, <1>7, <1>8, <1>9

\* At an endpoint with multipliers of 1 a request without a role gets the
\* configured floor and ceiling.
LEMMA PlainLimits ==
  ASSUME NEW c, ConfigOK(c), NEW endpoint,
         c.overrides[endpoint] = Multipliers(1, 1, 1)
  PROVE  /\ Engine(c)!EffectiveFloor(endpoint, "") = c.floor
         /\ Engine(c)!EffectiveCeiling(endpoint, "") = c.ceiling
<1> DEFINE U2 == Unit * Unit
<1>1. Unit \in Nat \ {0} /\ U2 \in Nat \ {0}
  BY ConfigAssumption DEF ConfigAssumption
<1>2. c.floor \in Nat /\ c.ceiling \in Nat
  BY AdmissionAssumption DEF AdmissionAssumption, ConfigOK
<1>3. Times(1) = Unit
  BY <1>1 DEF Times
<1>4. /\ Engine(c)!FloorMult(endpoint) = Unit
      /\ Engine(c)!CeilingMult(endpoint) = Unit
  BY <1>3 DEF Engine!FloorMult, Engine!CeilingMult, Multipliers
<1>5. \A a \in Nat : a * Unit * Unit = a * U2
  BY <1>1
<1> HIDE DEF U2
<1>6. ASSUME NEW a \in Nat
      PROVE  Engine(c)!Trunc(a * Unit * Unit, U2) = a
  <2> DEFINE x == a * U2
  <2>1. x \in Nat /\ x \div U2 = a
    BY <1>1, DivCancel, TimesNat
  <2> HIDE DEF x
  <2>2. Engine(c)!Trunc(x, U2) = a
    BY <1>1, <2>1, TruncType
  <2> QED BY <1>5, <2>2 DEF x
<1>7. /\ Engine(c)!Trunc(c.floor * Unit * Unit, U2) = c.floor
      /\ Engine(c)!Trunc(c.ceiling * Unit * Unit, U2) = c.ceiling
  BY <1>2, <1>6
<1> QED BY <1>4, <1>7, NoRoleMult
    DEF U2, Engine!EffectiveFloor, Engine!EffectiveCeiling

\* Whatever the machine, a conversion gives an int64, and a product an int64
\* holds is left as it is.
LEMMA Int64Type ==
  ASSUME NEW x \in Int \cup {NaN, Inf}
  PROVE  /\ Int64(x) \in Integer64 /\ Int64(x) \in Int
         /\ x \in Nat /\ x < TwoTo63 => Int64(x) = x
         /\ x \in Int /\ Int64(x) \notin {TwoTo63, -TwoTo63} =>
              x < TwoTo63 /\ Int64(x) = x
<1>1. TwoTo63 \in Nat
  BY AdmissionAssumption DEF AdmissionAssumption
<1>2. NaN \notin Int /\ Inf \notin Int
  BY ConfigAssumption DEF ConfigAssumption
<1>3. CASE x \in Int
  BY <1>1, <1>2, <1>3 DEF Int64, Integer64
<1>4. CASE x \in {NaN, Inf}
  BY <1>1, <1>2, <1>4 DEF Int64, Integer64
<1> QED BY <1>3, <1>4

\* The burst is a whole number, infinite or not a number.
LEMMA BurstType ==
  ASSUME NEW c, ConfigOK(c), NEW history \in Histories, NEW req, NEW role
  PROVE  Burst(c, history, req, role) \in Int \cup {NaN, Inf}
<1>1. history.average \in Nat /\ -TwoTo63 \in Int
  BY AdmissionAssumption DEF AdmissionAssumption
<1>2. c.burst \in Nat \cup {NaN, Inf}
  BY DEF ConfigOK
<1>3. CASE c.burst \in {NaN, Inf}
  BY <1>1, <1>3 DEF Burst
<1>4. CASE c.burst \in Nat
  <2>1. Engine(c)!BurstAllowed(history.average, req.endpoint, role) \in Int
    BY <1>1, <1>4, EffectiveType
  <2> QED BY <1>1, <2>1 DEF Burst
<1> QED BY <1>2, <1>3, <1>4

\* A role's burst is not below the one without: both are NaN, which comes of
\* nothing times infinity, or neither is.
LEMMA BurstRaises ==
  ASSUME NEW c, ConfigOK(c), NEW history \in Histories, NEW req, NEW role,
         Unit <= Engine(c)!RoleMult(role),
         Burst(c, history, req, role) \in {NaN, Inf} \cup 0 .. TwoTo63 - 1
  PROVE  Int64(Burst(c, history, req, "")) <= Int64(Burst(c, history, req, role))
<1>1. history.average \in Nat /\ TwoTo63 \in Nat /\ Unit \in Nat \ {0}
  BY AdmissionAssumption, ConfigAssumption
  DEF AdmissionAssumption, ConfigAssumption
<1>2. NaN \notin Int /\ Inf \notin Int
  BY ConfigAssumption DEF ConfigAssumption
<1>3. c.burst \in Nat \cup {NaN, Inf}
  BY DEF ConfigOK
<1>4. CASE c.burst = NaN
  <2>1. /\ Burst(c, history, req, "") = NaN
        /\ Burst(c, history, req, role) = NaN
    BY <1>4 DEF Burst
  <2>2. Int64(NaN) \in Int
    BY Int64Type
  <2>3. Int64(NaN) <= Int64(NaN)
    BY <2>2
  <2> QED BY <2>1, <2>3
<1>5. CASE c.burst = Inf /\ c.burst # NaN
  <2> DEFINE R == Engine(c)!RoleMult(role)
             x == history.average * Engine(c)!RoleMult("")
             y == history.average * R
  <2>1. R \in Nat \ {0}
    BY <1>1, MultsType
  <2>2. /\ Burst(c, history, req, "")
             = IF x = 0 THEN NaN ELSE IF x > 0 THEN Inf ELSE -TwoTo63
        /\ Burst(c, history, req, role)
             = IF y = 0 THEN NaN ELSE IF y > 0 THEN Inf ELSE -TwoTo63
    BY <1>5, Zenon DEF Burst
  <2> DEFINE P(m) == /\ history.average = 0 => history.average * m = 0
                     /\ history.average # 0 =>
                          history.average * m > 0 /\ history.average * m # 0
  <2>3. \A m \in Nat \ {0} : P(m)
    <3> DEFINE a == history.average
    <3>1. a \in Nat
      BY <1>1
    <3> HIDE DEF a
    <3>2. \A m \in Nat \ {0} : /\ a = 0 => a * m = 0
                               /\ a # 0 => a * m > 0 /\ a * m # 0
      BY <3>1
    <3> QED BY <3>2 DEF a
  <2> HIDE DEF P
  <2>4. P(Engine(c)!RoleMult("")) /\ P(R)
    BY <1>1, <2>1, <2>3, NoRoleMult
  <2> HIDE DEF x, y, R
  <2>5. Burst(c, history, req, "") = Burst(c, history, req, role)
    <3>1. CASE history.average = 0
      <4>1. /\ Burst(c, history, req, "") = NaN
            /\ Burst(c, history, req, role) = NaN
        BY <2>2, <2>4, <3>1, Zenon DEF P, x, y
      <4> QED BY <4>1
    <3>2. CASE history.average # 0
      <4>1. /\ Burst(c, history, req, "") = Inf
            /\ Burst(c, history, req, role) = Inf
        BY <2>2, <2>4, <3>2, Zenon DEF P, x, y
      <4> QED BY <4>1
    <3> QED BY <3>1, <3>2
  <2>6. Burst(c, history, req, role) \in Int \cup {NaN, Inf}
    BY BurstType
  <2>7. Int64(Burst(c, history, req, role)) \in Int
    BY <2>6, Int64Type
  <2>8. Int64(Burst(c, history, req, role)) <= Int64(Burst(c, history, req, role))
    BY <2>7
  <2> QED BY <2>5, <2>8
<1>6. CASE c.burst \in Nat
  <2> DEFINE plain  == Engine(c)!BurstAllowed(history.average, req.endpoint, "")
             raised == Engine(c)!BurstAllowed(history.average, req.endpoint, role)
  <2>1. plain \in Nat /\ raised \in Int /\ plain <= raised
    BY <1>1, <1>6, EffectiveType, RoleRaises
  <2>2. c.burst # NaN /\ c.burst # Inf
    BY <1>2, <1>6
  <2>3. /\ Burst(c, history, req, "") = plain
        /\ Burst(c, history, req, role) = raised
    BY <2>2 DEF Burst
  <2> HIDE DEF plain, raised
  <2>4. raised # NaN /\ raised # Inf
    BY <1>2, <2>1
  <2>5. raised \in 0 .. TwoTo63 - 1
    BY <2>3, <2>4
  <2>6. raised < TwoTo63 /\ plain < TwoTo63 /\ raised \in Nat
    BY <1>1, <2>1, <2>5
  <2>7. Int64(plain) = plain /\ Int64(raised) = raised
    BY <2>1, <2>6, Int64Type
  <2> QED BY <2>1, <2>3, <2>7
<1> QED BY <1>3, <1>4, <1>5, <1>6

\* The three limits are int64s.
LEMMA LimitsType ==
  ASSUME NEW c, ConfigOK(c), NEW history \in Histories, NEW req, NEW role
  PROVE  LET l == Limits(c, history, req, role)
         IN  l.floor \in Integer64 /\ l.ceiling \in Integer64 /\ l.allowed \in Integer64
<1> DEFINE floor   == Int64(Engine(c)!EffectiveFloor(req.endpoint, role))
           ceiling == Int64(Engine(c)!EffectiveCeiling(req.endpoint, role))
           burst   == Int64(Burst(c, history, req, role))
<1>1. history.average \in Nat
  BY AdmissionAssumption DEF AdmissionAssumption
<1>2. floor \in Integer64 /\ ceiling \in Integer64 /\ burst \in Integer64
  BY <1>1, EffectiveType, BurstType, Int64Type
<1> HIDE DEF floor, ceiling, burst
<1>3. Engine(c)!AdaptiveLimit(floor, burst, ceiling) \in Integer64
  BY <1>2 DEF Engine!AdaptiveLimit
<1> QED BY <1>2, <1>3 DEF Limits, floor, ceiling, burst

\* The adaptive limit grows with the floor, the burst and the ceiling.
LEMMA AdaptiveMono ==
  ASSUME NEW c, NEW f \in Int, NEW b \in Int, NEW t \in Int,
         NEW F \in Int, NEW B \in Int, NEW T \in Int,
         f <= F, b <= B, t <= T
  PROVE  Engine(c)!AdaptiveLimit(f, b, t) <= Engine(c)!AdaptiveLimit(F, B, T)
  BY DEF Engine!AdaptiveLimit

\* PlainRequestsServed, of one configuration.
LEMMA PlainServed ==
  ASSUME NEW c, ConfigOK(c), NEW history \in Histories, NEW req,
         c.overrides[req.endpoint] = Multipliers(1, 1, 1),
         LET l == Limits(c, history, req, "")
         IN  {l.floor, l.ceiling} \cap {TwoTo63, -TwoTo63} = {}
  PROVE  LET l == Limits(c, history, req, "")
         IN  l.allowed \in 1 .. l.ceiling
<1> DEFINE l == Limits(c, history, req, "")
           burst == Int64(Burst(c, history, req, ""))
<1>1. /\ c.floor \in Nat \ {0} /\ c.ceiling \in Nat /\ c.floor <= c.ceiling
      /\ history.average \in Nat
  BY AdmissionAssumption DEF AdmissionAssumption, ConfigOK
<1>2. l.floor = Int64(c.floor) /\ l.ceiling = Int64(c.ceiling)
  BY PlainLimits DEF Limits
<1>3. l.floor = c.floor /\ l.ceiling = c.ceiling
  <2>1. l.floor \notin {TwoTo63, -TwoTo63} /\ l.ceiling \notin {TwoTo63, -TwoTo63}
    OBVIOUS
  <2> HIDE DEF l
  <2>2. c.floor \in Int /\ c.ceiling \in Int
    BY <1>1
  <2> QED BY <1>2, <2>1, <2>2, Int64Type
<1>4. burst \in Int
  BY BurstType, Int64Type
<1>5. l.allowed = IF Engine(c)!LacksHistory(history) THEN l.floor
                  ELSE Engine(c)!AdaptiveLimit(l.floor, burst, l.ceiling)
  BY DEF Limits
<1> HIDE DEF l, burst
<1>6. Engine(c)!AdaptiveLimit(l.floor, burst, l.ceiling) \in 1 .. l.ceiling
  BY <1>1, <1>3, <1>4 DEF Engine!AdaptiveLimit
<1>7. l.allowed \in 1 .. l.ceiling
  BY <1>1, <1>3, <1>5, <1>6
<1> QED BY <1>7 DEF l

\* StrippedGetsNoMore, of one configuration: q is the request without its
\* credentials, at the same endpoint, and finds history h.
LEMMA StrippedNotMore ==
  ASSUME NEW c, ConfigOK(c), NEW history \in Histories, NEW h \in Histories,
         NEW req, NEW q, q.endpoint = req.endpoint, NEW role,
         \A r \in DOMAIN c.roles : c.roles[r] >= Unit,
         Engine(c)!FloorMult(req.endpoint) >= 0,
         Engine(c)!CeilingMult(req.endpoint) >= 0,
         LET l == Limits(c, history, req, role)
         IN  /\ {l.floor, l.ceiling} \cap {TwoTo63, -TwoTo63} = {}
             /\ \/ h = history
                \/ Engine(c)!LacksHistory(h) /\ l.floor <= l.ceiling,
         Burst(c, history, req, role) \in {NaN, Inf} \cup 0 .. TwoTo63 - 1
  PROVE  LET l == Limits(c, history, req, role)
             m == Limits(c, h, q, "")
         IN  m.allowed <= l.allowed /\ m.ceiling <= l.ceiling
<1> DEFINE l == Limits(c, history, req, role)
           m == Limits(c, h, q, "")
           F == Engine(c)!EffectiveFloor(req.endpoint, role)
           f == Engine(c)!EffectiveFloor(req.endpoint, "")
           T == Engine(c)!EffectiveCeiling(req.endpoint, role)
           t == Engine(c)!EffectiveCeiling(req.endpoint, "")
           B == Int64(Burst(c, history, req, role))
           b == Int64(Burst(c, h, q, ""))
<1>1. /\ history.average \in Nat /\ Unit \in Nat /\ TwoTo63 \in Nat
  BY AdmissionAssumption, ConfigAssumption
  DEF AdmissionAssumption, ConfigAssumption
<1>2. Unit <= Engine(c)!RoleMult(role)
  <2>1. CASE role # "" /\ role \in DOMAIN c.roles
    <3>1. Engine(c)!RoleMult(role) = c.roles[role]
      BY <2>1 DEF Engine!RoleMult
    <3>2. c.roles[role] \in Int /\ c.roles[role] >= Unit
      BY <2>1 DEF ConfigOK
    <3> QED BY <1>1, <3>1, <3>2
  <2>2. CASE ~(role # "" /\ role \in DOMAIN c.roles)
    <3>1. Engine(c)!RoleMult(role) = Unit
      BY <2>2 DEF Engine!RoleMult
    <3> QED BY <1>1, <3>1
  <2> QED BY <2>1, <2>2
<1>3. f \in Nat /\ F \in Int /\ f <= F /\ t \in Nat /\ T \in Int /\ t <= T
  BY <1>1, <1>2, EffectiveType, RoleRaises
<1>4. b \in Int /\ B \in Int
  BY BurstType, Int64Type
<1>5. h = history => b <= B
  <2>1. Burst(c, history, q, "") = Burst(c, history, req, "")
    BY DEF Burst
  <2> QED BY <1>2, <2>1, BurstRaises
<1>6. l.floor = Int64(F) /\ l.ceiling = Int64(T)
  BY DEF Limits
<1>7. m.floor = Int64(f) /\ m.ceiling = Int64(t)
  BY DEF Limits
<1>8. /\ l.allowed = IF Engine(c)!LacksHistory(history) THEN l.floor
                     ELSE Engine(c)!AdaptiveLimit(l.floor, B, l.ceiling)
      /\ m.allowed = IF Engine(c)!LacksHistory(h) THEN m.floor
                     ELSE Engine(c)!AdaptiveLimit(m.floor, b, m.ceiling)
  BY DEF Limits
<1>9. /\ l.floor \notin {TwoTo63, -TwoTo63} /\ l.ceiling \notin {TwoTo63, -TwoTo63}
      /\ \/ h = history
         \/ Engine(c)!LacksHistory(h) /\ l.floor <= l.ceiling
  OBVIOUS
<1> HIDE DEF l, m, F, f, T, t, B, b
<1>10. /\ F < TwoTo63 /\ l.floor = F
       /\ T < TwoTo63 /\ l.ceiling = T
  BY <1>3, <1>6, <1>9, Int64Type
<1>11. m.floor = f /\ m.ceiling = t
  BY <1>1, <1>3, <1>7, <1>10, Int64Type
<1>12. CASE h = history
  <2>1. Engine(c)!AdaptiveLimit(f, b, t) <= Engine(c)!AdaptiveLimit(F, B, T)
    BY <1>3, <1>4, <1>5, <1>12, AdaptiveMono
  <2> QED BY <1>3, <1>8, <1>10, <1>11, <1>12, <2>1 DEF l, m
<1>13. CASE Engine(c)!LacksHistory(h) /\ l.floor <= l.ceiling
  <2>1. F <= Engine(c)!AdaptiveLimit(F, B, T)
    BY <1>3, <1>4, <1>10, <1>13 DEF Engine!AdaptiveLimit
  <2>2. Engine(c)!AdaptiveLimit(F, B, T) \in Int
    BY <1>3, <1>4 DEF Engine!AdaptiveLimit
  <2>3. m.allowed = f /\ m.ceiling = t
    BY <1>8, <1>11, <1>13
  <2>4. l.allowed \in {F, Engine(c)!AdaptiveLimit(F, B, T)}
    BY <1>8, <1>10
  <2>5. m.allowed <= l.allowed /\ m.ceiling <= l.ceiling
    BY <1>3, <1>10, <2>1, <2>2, <2>3, <2>4
  <2> QED BY <2>5 DEF l, m
<1> QED BY <1>9, <1>12, <1>13

-----------------------------------------------------------------------------
(* The state machine.  A grant keeps what it was made of: the source of the *)
(* process that made it, the request and the history.                      *)

\* What a grant records follows from its source, request and history.
GrantOK(a) ==
  /\ a.source \in Sources /\ Load(a.source) # Rejected
  /\ a.req \in Requests /\ a.history \in Histories
  /\ a.user = Resolve(Load(a.source).jwtSecret, a.req).user
  /\ a.role = Resolve(Load(a.source).jwtSecret, a.req).role
  /\ a.bypass = IsBypassed(Load(a.source), a.req)
  /\ a.limits = Limits(Load(a.source), a.history, a.req, a.role)

\* The inductive invariant: a process runs with what it loaded, and every
\* grant was computed from the configuration its source still gives.
GrantsInv ==
  /\ saturates \in BOOLEAN
  /\ source \in Sources
  /\ cfg # Down => Load(source) # Rejected /\ cfg = Load(source)
  /\ last = [c \in Clients |-> last[c]]
  /\ \A c \in Granted : GrantOK(last[c])

LEMMA GrantsInit == AdmissionInit => GrantsInv
  BY DEF AdmissionInit, GrantsInv, Granted, None

\* A step keeps it: no grant depends on anything a restart changes.
LEMMA GrantsStep == GrantsInv /\ [AdmissionNext]_avars => GrantsInv'
<1> SUFFICES ASSUME GrantsInv, [AdmissionNext]_avars
             PROVE  GrantsInv'
  OBVIOUS
<1>1. ASSUME saturates' = saturates, NEW a, GrantOK(a)
      PROVE  GrantOK(a)'
  <2>1. \A x : Int64(x)' = Int64(x)
    BY <1>1 DEF Int64
  <2>2. Limits(Load(a.source), a.history, a.req, a.role)'
          = Limits(Load(a.source), a.history, a.req, a.role)
    BY <2>1 DEF Limits
  <2> QED BY <1>1, <2>2 DEF GrantOK
<1>2. ASSUME UNCHANGED <<saturates, last>>
      PROVE  (\A c \in Granted : GrantOK(last[c]))'
  <2>1. Granted' = Granted
    BY <1>2 DEF Granted
  <2> SUFFICES ASSUME NEW c \in Granted PROVE GrantOK(last[c])'
    BY <2>1
  <2>2. GrantOK(last[c])
    BY DEF GrantsInv
  <2>3. \A a : GrantOK(a) => GrantOK(a)'
    BY <1>1, <1>2
  <2> QED BY <1>2, <2>2, <2>3
<1>3. ASSUME NEW s \in Sources, StartProxy(s)
      PROVE  GrantsInv'
  BY <1>2, <1>3 DEF GrantsInv, StartProxy
<1>4. CASE StopProxy
  BY <1>2, <1>4 DEF GrantsInv, StopProxy
<1>5. ASSUME NEW client \in Clients, NEW req \in Requests,
             NEW history \in Histories, Grant(client, req, history)
      PROVE  GrantsInv'
  <2> DEFINE who == Resolve(cfg.jwtSecret, req)
             new == [granted |-> TRUE,
                     req     |-> req,
                     history |-> history,
                     source  |-> source,
                     user    |-> who.user,
                     role    |-> who.role,
                     bypass  |-> IsBypassed(cfg, req),
                     limits  |-> Limits(cfg, history, req, who.role)]
  <2>1. /\ source \in Sources /\ Load(source) # Rejected /\ cfg = Load(source)
        /\ last' = [last EXCEPT ![client] = new]
        /\ UNCHANGED <<saturates, source, cfg>>
    BY <1>5 DEF GrantsInv, Grant
  <2>2. PICK n : n = new
    OBVIOUS
  <2>3. GrantOK(n)
    BY <2>1, <2>2 DEF GrantOK
  <2> HIDE DEF new
  <2>4. /\ last' = [c \in Clients |-> last'[c]]
        /\ \A c \in Clients : last'[c] = IF c = client THEN n ELSE last[c]
    BY <2>1, <2>2 DEF GrantsInv
  <2>5. ASSUME NEW c \in Clients, last'[c].granted
        PROVE  GrantOK(last[c])'
    <3>1. PICK a : a = last'[c]
      OBVIOUS
    <3>2. GrantOK(a)
      <4>1. CASE c = client
        BY <2>3, <2>4, <3>1, <4>1
      <4>2. CASE c # client
        BY <2>4, <2>5, <3>1, <4>2 DEF GrantsInv, Granted
      <4> QED BY <4>1, <4>2
    <3>3. GrantOK(a)'
      BY <1>1, <2>1, <3>2
    <3> QED BY <3>1, <3>3
  <2>6. (\A c \in Granted : GrantOK(last[c]))'
    BY <2>5 DEF Granted
  <2> QED BY <2>1, <2>4, <2>6 DEF GrantsInv
<1>6. CASE UNCHANGED avars
  BY <1>2, <1>6 DEF GrantsInv, avars
<1> QED BY <1>3, <1>4, <1>5, <1>6 DEF AdmissionNext

THEOREM GrantsTheorem == AdmissionSpec => []GrantsInv
<1>1. AdmissionInit => GrantsInv
  BY GrantsInit
<1>2. GrantsInv /\ [AdmissionNext]_avars => GrantsInv'
  BY GrantsStep
<1> QED BY <1>1, <1>2, PTL DEF AdmissionSpec

\* AdmissionTypeOK: the engine finds three multipliers in every override, and
\* numbers Validate has seen; every limit granted is an int64, whatever finite
\* multipliers, negative ones too, the file gives an endpoint or a role.
THEOREM AdmissionTypeTheorem == AdmissionSpec => []AdmissionTypeOK
<1>1. GrantsInv => AdmissionTypeOK
  <2> SUFFICES ASSUME GrantsInv PROVE AdmissionTypeOK
    OBVIOUS
  <2>1. ASSUME cfg # Down
        PROVE  ConfigOK(cfg)
    BY <2>1, LoadType DEF GrantsInv
  <2>2. ASSUME NEW c \in Granted
        PROVE  last[c].limits.allowed \in -TwoTo63 .. TwoTo63
    <3>1. GrantOK(last[c])
      BY DEF GrantsInv
    <3>2. ConfigOK(Load(last[c].source))
      BY <3>1, LoadType DEF GrantOK
    <3> QED BY <3>1, <3>2, LimitsType DEF GrantOK, Integer64
  <2> QED BY <2>1, <2>2 DEF GrantsInv, AdmissionTypeOK, ConfigOK
<1> QED BY <1>1, GrantsTheorem, PTL

\* PlainRequestsServed: Validate lets no configuration pass with which a request
\* without a role is allowed nothing or more than its ceiling.
THEOREM PlainTheorem == AdmissionSpec => []PlainRequestsServed
<1>1. GrantsInv => PlainRequestsServed
  <2> SUFFICES ASSUME GrantsInv, NEW c \in Granted,
                      last[c].role = "",
                      Load(last[c].source).overrides[last[c].req.endpoint]
                        = Multipliers(1, 1, 1),
                      InRange(c)
               PROVE  last[c].limits.allowed \in 1 .. last[c].limits.ceiling
    BY DEF PlainRequestsServed
  <2>1. GrantOK(last[c])
    BY DEF GrantsInv
  <2>2. ConfigOK(Load(last[c].source))
    BY <2>1, LoadType DEF GrantOK
  <2> QED BY <2>1, <2>2, PlainServed DEF GrantOK, InRange
<1> QED BY <1>1, GrantsTheorem, PTL

\* PrivilegesTraceToSecrets: a role comes from a token signed with the secret
\* the process was started with, and the bypass from the bypass secret.
THEOREM PrivilegesTheorem == AdmissionSpec => []PrivilegesTraceToSecrets
<1>1. GrantsInv => PrivilegesTraceToSecrets
  <2> SUFFICES ASSUME GrantsInv, NEW c \in Granted
               PROVE  LET a == last[c]
                          secret == Named(a.source, "jwtSecret")
                      IN  /\ a.role # "" =>
                               /\ secret # "" /\ a.req.token # NoToken
                               /\ a.req.token.key = secret
                          /\ a.bypass =>
                               /\ a.req.bypass # ""
                               /\ a.req.bypass = Named(a.source, "bypassSecret")
    BY DEF PrivilegesTraceToSecrets
  <2>1. PICK a : a = last[c]
    OBVIOUS
  <2>2. GrantOK(a)
    BY <2>1 DEF GrantsInv
  <2>3. /\ Load(a.source).jwtSecret = Named(a.source, "jwtSecret")
        /\ Load(a.source).bypassSecret = Named(a.source, "bypassSecret")
    BY <2>2, SecretsNamed DEF GrantOK
  <2>4. a.role # "" => Authentic(Load(a.source).jwtSecret, a.req)
    BY <2>2 DEF GrantOK, Resolve, Info
  <2> QED BY <2>1, <2>2, <2>3, <2>4 DEF GrantOK, Authentic, IsBypassed
<1> QED BY <1>1, GrantsTheorem, PTL

\* Without a token the proxy knows no role.
LEMMA StrippedRole ==
  ASSUME NEW secret, NEW req \in Requests
  PROVE  /\ Resolve(secret, Stripped(req)).role = ""
         /\ Stripped(req).endpoint = req.endpoint
<1>1. req \in RequestType
  BY AdmissionAssumption DEF AdmissionAssumption
<1>2. Stripped(req).token = NoToken /\ Stripped(req).endpoint = req.endpoint
  BY <1>1 DEF Stripped, RequestType
<1> QED BY <1>2 DEF Resolve, Authentic, Info

\* StrippedGetsNoMore: a request Resolve finds no credentials on is allowed no
\* more than it was with them, if the name it falls back to has the same history
\* or none.
THEOREM StrippingTheorem == AdmissionSpec => []StrippedGetsNoMore
<1>1. GrantsInv => StrippedGetsNoMore
  <2> SUFFICES ASSUME GrantsInv, NEW c \in Granted, NEW h \in Histories,
                      cfg # Down, last[c].source = source,
                      \/ h = last[c].history
                      \/ /\ Engine(cfg)!LacksHistory(h)
                         /\ last[c].limits.floor <= last[c].limits.ceiling,
                      \A r \in DOMAIN cfg.roles : cfg.roles[r] >= Unit,
                      Engine(cfg)!FloorMult(Stripped(last[c].req).endpoint) >= 0,
                      Engine(cfg)!CeilingMult(Stripped(last[c].req).endpoint) >= 0,
                      InRange(c),
                      Burst(cfg, last[c].history, last[c].req, last[c].role)
                        \in {NaN, Inf} \cup 0 .. TwoTo63 - 1
               PROVE  LET a    == last[c]
                          req  == Stripped(a.req)
                          bare == Limits(cfg, h, req,
                                         Resolve(cfg.jwtSecret, req).role)
                      IN  /\ bare.allowed <= a.limits.allowed
                          /\ bare.ceiling <= a.limits.ceiling
    BY DEF StrippedGetsNoMore
  <2>1. GrantOK(last[c]) /\ cfg = Load(source)
    BY DEF GrantsInv
  <2>2. ConfigOK(cfg)
    BY <2>1, LoadType DEF GrantOK
  <2>3. /\ last[c].history \in Histories
        /\ last[c].limits = Limits(cfg, last[c].history, last[c].req, last[c].role)
    BY <2>1 DEF GrantOK
  <2>4. /\ Resolve(cfg.jwtSecret, Stripped(last[c].req)).role = ""
        /\ Stripped(last[c].req).endpoint = last[c].req.endpoint
    BY <2>1, StrippedRole DEF GrantOK
  <2> QED BY <2>2, <2>3, <2>4, StrippedNotMore DEF InRange
<1> QED BY <1>1, GrantsTheorem, PTL

-----------------------------------------------------------------------------
(* The names of Identity.                                                  *)

\* The parts of a request the resolver reads are the same in two requests with
\* the same credentials.
LEMMA SameParts ==
  ASSUME NEW q \in Requests, NEW r \in Requests, SameCredentials(q, r)
  PROVE  /\ q.token = r.token /\ q.apiKey = r.apiKey
         /\ ClientIP(q) = ClientIP(r)
         /\ Fingerprint(q) = Fingerprint(r)
<1>1. q \in RequestType /\ r \in RequestType
  BY AdmissionAssumption DEF AdmissionAssumption
<1>2. /\ q.token = r.token /\ q.apiKey = r.apiKey
      /\ q.xff = r.xff /\ q.realIP = r.realIP
      /\ q.userAgent = r.userAgent
  BY <1>1 DEF RequestType, SameCredentials
<1>3. q.remote.host = r.remote.host
  <2>1. r.remote = [q.remote EXCEPT !.port = r.remote.port]
    BY <1>1 DEF RequestType, SameCredentials
  <2>2. q.remote \in [host : STRING, port : Nat]
    BY <1>1 DEF RequestType
  <2> QED BY <2>1, <2>2
<1>4. q.language.tag = r.language.tag
  <2>1. r.language = [q.language EXCEPT !.written = r.language.written]
    BY <1>1 DEF RequestType, SameCredentials
  <2>2. q.language \in [tag : Seq(STRING), written : STRING]
    BY <1>1 DEF RequestType
  <2> QED BY <2>1, <2>2
<1> QED BY <1>2, <1>3, <1>4 DEF ClientIP, Fingerprint

\* The same credentials give the same name.
LEMMA SameName ==
  ASSUME NEW q \in Requests, NEW r \in Requests, SameCredentials(q, r),
         NEW secret
  PROVE  Resolve(secret, q) = Resolve(secret, r)
<1>1. /\ q.token = r.token /\ q.apiKey = r.apiKey
      /\ Fingerprint(q) = Fingerprint(r)
  BY SameParts
<1>2. Authentic(secret, q) <=> Authentic(secret, r)
  BY <1>1 DEF Authentic
<1> QED BY <1>1, <1>2 DEF Resolve

\* Where no token counts the secret does not matter.
LEMMA NoTokenCounts ==
  ASSUME NEW req, NEW k, NEW l, ~Authentic(k, req), ~Authentic(l, req)
  PROVE  Resolve(k, req) = Resolve(l, req)
  BY DEF Resolve

\* A pair has its parts.
LEMMA Pair ==
  ASSUME NEW x, NEW y
  PROVE  <<x, y>>[1] = x /\ <<x, y>>[2] = y
  OBVIOUS

\* The three layers of Resolve.
LEMMA Layers ==
  ASSUME NEW secret, NEW req
  PROVE  /\ Authentic(secret, req) =>
              Resolve(secret, req).user = <<"jwt", <<req.token.sub>>>>
         /\ ~Authentic(secret, req) /\ req.apiKey # "" =>
              Resolve(secret, req).user = <<"apikey", <<req.apiKey>>>>
         /\ ~Authentic(secret, req) /\ req.apiKey = "" =>
              Resolve(secret, req).user = <<"fp", Fingerprint(req)>>
  BY DEF Resolve, Info

\* A name tells the layer it was found in and what was found there.
LEMMA NameParts ==
  ASSUME NEW secret, NEW req
  PROVE  LET user == Resolve(secret, req).user
         IN  /\ user[1] = IF Authentic(secret, req) THEN "jwt"
                          ELSE IF req.apiKey # "" THEN "apikey" ELSE "fp"
             /\ user[2] = IF Authentic(secret, req) THEN <<req.token.sub>>
                          ELSE IF req.apiKey # "" THEN <<req.apiKey>>
                          ELSE Fingerprint(req)
<1>1. CASE Authentic(secret, req)
  <2>1. Resolve(secret, req).user = <<"jwt", <<req.token.sub>>>>
    BY <1>1, Layers
  <2> QED BY <1>1, <2>1, Pair
<1>2. CASE ~Authentic(secret, req) /\ req.apiKey # ""
  <2>1. Resolve(secret, req).user = <<"apikey", <<req.apiKey>>>>
    BY <1>2, Layers
  <2>2. /\ Resolve(secret, req).user[1] = "apikey"
        /\ Resolve(secret, req).user[2] = <<req.apiKey>>
    BY <2>1, Pair
  <2> QED BY <1>2, <2>2
<1>3. CASE ~Authentic(secret, req) /\ req.apiKey = ""
  <2>1. PICK raw : raw = Fingerprint(req)
    OBVIOUS
  <2>2. Resolve(secret, req).user = <<"fp", raw>>
    BY <1>3, <2>1, Layers
  <2>3. /\ Resolve(secret, req).user[1] = "fp"
        /\ Resolve(secret, req).user[2] = raw
    BY <2>2, Pair
  <2> QED BY <1>3, <2>1, <2>3
<1> QED BY <1>1, <1>2, <1>3

\* NamesSurviveRestarts: no restart renames a client that sends the same
\* credentials, unless the token secret it is known by changed.
THEOREM RestartTheorem == AdmissionSpec => NamesSurviveRestarts
<1>1. ASSUME GrantsInv, GrantsInv', NEW c \in Clients
      PROVE  KeepsName(last[c], last'[c])
  <2>1. PICK a, b : a = last[c] /\ b = last'[c]
    OBVIOUS
  <2> SUFFICES ASSUME a.granted, b.granted, SameCredentials(a.req, b.req),
                      \/ Named(a.source, "jwtSecret") = Named(b.source, "jwtSecret")
                      \/ a.user[1] # "jwt" /\ b.user[1] # "jwt"
               PROVE  a.user = b.user
    BY <2>1 DEF KeepsName
  <2>2. GrantOK(a)
    BY <1>1, <2>1 DEF GrantsInv, Granted
  <2>3. GrantOK(b)'
    BY <1>1, <2>1 DEF GrantsInv, Granted
  <2> DEFINE k == Load(a.source).jwtSecret
             l == Load(b.source).jwtSecret
  <2>4. /\ a.req \in Requests /\ b.req \in Requests
        /\ a.user = Resolve(k, a.req).user
        /\ b.user = Resolve(l, b.req).user
        /\ k = Named(a.source, "jwtSecret")
        /\ l = Named(b.source, "jwtSecret")
    BY <2>2, <2>3, SecretsNamed DEF GrantOK
  <2> HIDE DEF k, l
  <2>5. Resolve(k, a.req) = Resolve(k, b.req)
    BY <2>4, SameName
  <2>6. CASE k = l
    BY <2>4, <2>5, <2>6
  <2>7. CASE a.user[1] # "jwt" /\ b.user[1] # "jwt"
    <3>1. /\ Resolve(k, b.req).user[1] # "jwt"
          /\ Resolve(l, b.req).user[1] # "jwt"
      BY <2>4, <2>5, <2>7
    <3>2. ~Authentic(k, b.req) /\ ~Authentic(l, b.req)
      BY <3>1, NameParts
    <3> QED BY <2>4, <2>5, <3>2, NoTokenCounts
  <2> QED BY <2>4, <2>6, <2>7
<1>2. GrantsInv /\ GrantsInv' /\ [AdmissionNext]_avars
        => [\A c \in Clients : KeepsName(last[c], last'[c])]_avars
  BY <1>1
<1> QED BY <1>2, GrantsTheorem, PTL DEF AdmissionSpec, NamesSurviveRestarts

\* No user agent contains the separator of the fingerprint's parts.
NoSeparators ==
  \A r \in Requests : \A i \in DOMAIN r.userAgent : r.userAgent[i] # "|"

\* Where the parts of a barred pair are.
LEMMA BarParts ==
  ASSUME NEW S, NEW u \in Seq(S), NEW s \in Seq(S)
  PROVE  /\ Len(Bar(u, s)) = Len(u) + 1 + Len(s)
         /\ \A i \in 1 .. Len(u) : Bar(u, s)[i] = u[i]
         /\ Bar(u, s)[Len(u) + 1] = "|"
<1>1. Len(Bar(u, s)) = Len(u) + 1 + Len(s)
  BY DEF Bar
<1>2. \A i \in 1 .. Len(u) : Bar(u, s)[i] = u[i]
  BY DEF Bar
<1>3. Bar(u, s)[Len(u) + 1] = "|"
  BY DEF Bar
<1> QED BY <1>1, <1>2, <1>3

\* Parts of one length before a bar are equal when the wholes are.
LEMMA BarSplit ==
  ASSUME NEW S, NEW u \in Seq(S), NEW v \in Seq(S), NEW s \in Seq(S),
         NEW t \in Seq(S), Len(u) = Len(v), Bar(u, s) = Bar(v, t)
  PROVE  u = v /\ s = t
<1> DEFINE x == Bar(u, s)
           y == Bar(v, t)
<1>1. /\ \A i \in 1 .. Len(u) : x[i] = u[i]
      /\ \A i \in 1 .. Len(s) : x[Len(u) + 1 + i] = s[i]
      /\ Len(x) = Len(u) + 1 + Len(s)
  <2>1. \A i \in 1 .. Len(u) : x[i] = u[i]
    BY BarParts
  <2>2. \A i \in 1 .. Len(s) : x[Len(u) + 1 + i] = s[i]
    BY DEF Bar
  <2>3. Len(x) = Len(u) + 1 + Len(s)
    BY BarParts
  <2> QED BY <2>1, <2>2, <2>3
<1>2. /\ \A i \in 1 .. Len(v) : y[i] = v[i]
      /\ \A i \in 1 .. Len(t) : y[Len(v) + 1 + i] = t[i]
      /\ Len(y) = Len(v) + 1 + Len(t)
  <2>1. \A i \in 1 .. Len(v) : y[i] = v[i]
    BY BarParts
  <2>2. \A i \in 1 .. Len(t) : y[Len(v) + 1 + i] = t[i]
    BY DEF Bar
  <2>3. Len(y) = Len(v) + 1 + Len(t)
    BY BarParts
  <2> QED BY <2>1, <2>2, <2>3
<1>3. Len(u) \in Nat /\ Len(s) \in Nat /\ Len(t) \in Nat
  OBVIOUS
<1>4. x = y
  OBVIOUS
<1> HIDE DEF x, y
<1>5. Len(s) = Len(t)
  BY <1>1, <1>2, <1>3, <1>4
<1>6. \A i \in 1 .. Len(u) : u[i] = v[i]
  BY <1>1, <1>2, <1>4
<1>7. \A i \in 1 .. Len(s) : s[i] = t[i]
  BY <1>1, <1>2, <1>4, <1>5
<1> QED BY <1>5, <1>6, <1>7, SeqEqual

\* Of two sequences without a bar the shorter one ends before the other's.
LEMMA BarApart ==
  ASSUME NEW S, NEW u \in Seq(S), NEW v \in Seq(S), NEW s \in Seq(S),
         NEW t \in Seq(S), \A i \in DOMAIN v : v[i] # "|",
         Bar(u, s) = Bar(v, t)
  PROVE  Len(u) >= Len(v)
<1> SUFFICES ASSUME Len(u) < Len(v) PROVE FALSE
  OBVIOUS
<1> DEFINE x == Bar(u, s)
           y == Bar(v, t)
<1>1. x[Len(u) + 1] = "|"
  BY BarParts
<1>2. \A i \in 1 .. Len(v) : y[i] = v[i]
  BY BarParts
<1>3. x = y
  OBVIOUS
<1> HIDE DEF x, y
<1>4. Len(u) + 1 \in 1 .. Len(v)
  OBVIOUS
<1>5. v[Len(u) + 1] = "|"
  BY <1>1, <1>2, <1>3, <1>4
<1>6. v[Len(u) + 1] # "|"
  BY <1>4
<1> QED BY <1>5, <1>6

\* The parts of a fingerprint can be read off it.
LEMMA FingerprintParts ==
  ASSUME NoSeparators, NEW q \in Requests, NEW r \in Requests,
         Fingerprint(q) = Fingerprint(r)
  PROVE  /\ ClientIP(q) = ClientIP(r)
         /\ q.userAgent = r.userAgent
         /\ q.language.tag = r.language.tag
<1>1. q \in RequestType /\ r \in RequestType
  BY AdmissionAssumption DEF AdmissionAssumption
<1>2. PICK W : W = STRING \cup {"|"}
  OBVIOUS
<1>3. \A w \in Seq(STRING) : w \in Seq(W)
  BY <1>2
<1>4. \A p \in RequestType : ClientIP(p) \in Seq(W) /\ Len(ClientIP(p)) = 1
  <2> SUFFICES ASSUME NEW p \in RequestType
               PROVE  ClientIP(p) \in Seq(W) /\ Len(ClientIP(p)) = 1
    OBVIOUS
  <2>1. p.xff \in Seq(STRING) /\ p.realIP \in STRING /\ p.remote.host \in STRING
    BY DEF RequestType
  <2>2. p.xff # <<>> => Head(p.xff) \in STRING
    BY <2>1
  <2>3. PICK h \in STRING : ClientIP(p) = <<h>>
    BY <2>1, <2>2 DEF ClientIP
  <2> QED BY <1>2, <2>3
<1>5. PICK g \in Seq(W), h \in Seq(W), u \in Seq(W), v \in Seq(W),
           s \in Seq(W), t \in Seq(W) :
        /\ g = ClientIP(q) /\ u = q.userAgent /\ s = q.language.tag
        /\ h = ClientIP(r) /\ v = r.userAgent /\ t = r.language.tag
        /\ Len(g) = Len(h)
  <2>1. /\ q.userAgent \in Seq(STRING) /\ q.language.tag \in Seq(STRING)
        /\ r.userAgent \in Seq(STRING) /\ r.language.tag \in Seq(STRING)
    BY <1>1 DEF RequestType
  <2> QED BY <1>1, <1>3, <1>4, <2>1
<1>6. (\A i \in DOMAIN u : u[i] # "|") /\ (\A i \in DOMAIN v : v[i] # "|")
  BY <1>5 DEF NoSeparators
<1>7. PICK x \in Seq(W), y \in Seq(W) : x = Bar(u, s) /\ y = Bar(v, t)
  <2>1. \A e \in W : <<e>> \in Seq(W)
    OBVIOUS
  <2>2. <<"|">> \in Seq(W)
    BY <1>2, <2>1
  <2>3. u \o <<"|">> \in Seq(W) /\ v \o <<"|">> \in Seq(W)
    BY <2>2, ConcatProperties
  <2>4. Bar(u, s) \in Seq(W) /\ Bar(v, t) \in Seq(W)
    BY <2>3, ConcatProperties DEF Bar
  <2> QED BY <2>4
<1>8. Bar(g, x) = Bar(h, y)
  BY <1>5, <1>7 DEF Fingerprint
<1>9. g = h /\ x = y
  BY <1>5, <1>8, BarSplit
<1>10. Len(u) = Len(v)
  <2>1. Bar(u, s) = Bar(v, t) /\ Bar(v, t) = Bar(u, s)
    BY <1>7, <1>9
  <2>2. Len(u) >= Len(v)
    BY <1>6, <2>1, BarApart
  <2>3. Len(v) >= Len(u)
    BY <1>6, <2>1, BarApart
  <2>4. Len(u) \in Nat /\ Len(v) \in Nat
    OBVIOUS
  <2> QED BY <2>2, <2>3, <2>4
<1>11. u = v /\ s = t
  BY <1>7, <1>9, <1>10, BarSplit
<1> QED BY <1>5, <1>9, <1>11

\* NamesTellUsersApart: two clients have one name only if they present one
\* subject, one key, or one address, user agent and language.
THEOREM NamesTheorem ==
  ASSUME NoSeparators
  PROVE  AdmissionSpec => []NamesTellUsersApart
<1>1. GrantsInv => NamesTellUsersApart
  <2> SUFFICES ASSUME GrantsInv, NEW c \in Granted, NEW d \in Granted,
                      last[c].user = last[d].user
               PROVE  LET a == last[c].req
                          b == last[d].req
                      IN  \/ /\ a.token # NoToken /\ b.token # NoToken
                             /\ a.token.sub = b.token.sub
                          \/ a.apiKey # "" /\ a.apiKey = b.apiKey
                          \/ /\ ClientIP(a) = ClientIP(b)
                             /\ a.userAgent = b.userAgent
                             /\ a.language.tag = b.language.tag
    BY DEF NamesTellUsersApart
  <2>1. GrantOK(last[c]) /\ GrantOK(last[d])
    BY DEF GrantsInv
  <2>2. PICK a, b, k, l :
          /\ a = last[c].req /\ b = last[d].req
          /\ k = Load(last[c].source).jwtSecret
          /\ l = Load(last[d].source).jwtSecret
    OBVIOUS
  <2>3. /\ a \in Requests /\ b \in Requests
        /\ Resolve(k, a).user = Resolve(l, b).user
    BY <2>1, <2>2 DEF GrantOK
  <2>4. /\ Authentic(k, a) <=> Authentic(l, b)
        /\ ~Authentic(k, a) => (a.apiKey # "" <=> b.apiKey # "")
    BY <2>3, NameParts
  <2>5. CASE Authentic(k, a)
    <3>1. <<a.token.sub>> = <<b.token.sub>>
      BY <2>3, <2>4, <2>5, NameParts
    <3>2. a.token.sub = b.token.sub
      BY <3>1
    <3> QED BY <2>2, <2>4, <2>5, <3>2 DEF Authentic
  <2>6. CASE ~Authentic(k, a) /\ a.apiKey # ""
    <3>1. <<a.apiKey>> = <<b.apiKey>>
      BY <2>3, <2>4, <2>6, NameParts
    <3>2. a.apiKey = b.apiKey
      BY <3>1
    <3> QED BY <2>2, <2>6, <3>2
  <2>7. CASE ~Authentic(k, a) /\ a.apiKey = ""
    <3>1. Fingerprint(a) = Fingerprint(b)
      BY <2>3, <2>4, <2>7, NameParts
    <3> QED BY <2>2, <2>3, <3>1, FingerprintParts
  <2> QED BY <2>5, <2>6, <2>7
<1> QED BY <1>1, GrantsTheorem, PTL
=============================================================================
