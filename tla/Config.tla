-------------------------------- MODULE Config --------------------------------
(***************************************************************************)
(* internal/config/config.go: what a start of the proxy makes of the        *)
(* defaults, the YAML file and the environment.  Addresses, timeouts and    *)
(* logging, which no decision reads, are left out.                         *)
(*                                                                         *)
(* Bytes are megabytes and multipliers units of 1/Unit.  A floating-point   *)
(* field may also be NaN or Inf, which both the YAML decoder and ParseFloat *)
(* accept.  A file is a record of the fields it names, <<>> when there is   *)
(* none or it is empty; the environment a record of the variables that are  *)
(* set and not empty.                                                      *)
(***************************************************************************)
EXTENDS Integers

CONSTANTS
  NaN, Inf,
  Unit,        \* the multiplier 1.0
  Unreadable,  \* a file that exists and cannot be read
  Malformed,   \* a file the YAML decoder rejects
  Unparsable,  \* an environment variable that is not a number
  Rejected     \* the result of a Load that fails

ASSUME ConfigAssumption ==
  /\ Unit \in Nat \ {0}
  /\ NaN \notin Int /\ Inf \notin Int

Times(n) == n * Unit

Multipliers(floor, ceiling, burst) ==
  [floor |-> Times(floor), ceiling |-> Times(ceiling), burst |-> Times(burst)]

DefaultConfig ==
  [floor        |-> 1,
   ceiling      |-> 100,
   burst        |-> Times(3),
   anomaly      |-> Times(5),
   minSamples   |-> 3,
   poolSize     |-> 50,
   maxConcurrent |-> 1000,
   jwtSecret    |-> "",
   bypassHeader |-> "X-Sentinel-Bypass",
   bypassSecret |-> "",
   overrides    |-> [e \in {"/export", "/data"} |->
                      IF e = "/export" THEN Multipliers(3, 5, 2)
                      ELSE Multipliers(1, 1, 1)],
   roles        |-> [admin |-> Times(5), analyst |-> Times(3),
                     exporter |-> Times(10), user |-> Times(1)]]

\* A map laid over another, key by key.
Over(new, old) ==
  [k \in DOMAIN new \cup DOMAIN old |->
     IF k \in DOMAIN new THEN new[k] ELSE old[k]]

\* Fault: an entry has the multipliers it names and no others.
DecodedAsNamed(entry) == entry

\* The decoder makes a new value for an entry of a map: a multiplier the entry
\* leaves out is zero, whatever the entry was before.
Decoded(entry) == Over(entry, Multipliers(0, 0, 0))

\* yaml.Unmarshal into the defaults: a field the file names replaces the
\* default; a map is merged key by key.
FromFile(cfg, file) ==
  [f \in DOMAIN cfg |->
     IF f \notin DOMAIN file THEN cfg[f]
     ELSE IF f = "overrides"
     THEN Over([e \in DOMAIN file[f] |-> Decoded(file[f][e])], cfg[f])
     ELSE IF f = "roles" THEN Over(file[f], cfg[f])
     ELSE file[f]]

\* Fault: the environment replaces defaults and not what the file says.
FromEnvUnlessFile(cfg, env) ==
  [f \in DOMAIN cfg |->
     IF /\ f \in DOMAIN env /\ env[f] # Unparsable
        /\ cfg[f] = DefaultConfig[f]
     THEN env[f] ELSE cfg[f]]

\* applyEnvOverrides.  A number that does not parse is ignored.
FromEnv(cfg, env) ==
  [f \in DOMAIN cfg |->
     IF f \in DOMAIN env /\ env[f] # Unparsable THEN env[f] ELSE cfg[f]]

\* Not x <= n, as IEEE 754 has it: NaN is not at most anything.
Above(x, n) == x \in {NaN, Inf} \/ x > n

\* Config.Validate
Valid(cfg) ==
  /\ cfg.floor > 0
  /\ Above(cfg.burst, 0)
  /\ cfg.ceiling > 0
  /\ cfg.ceiling >= cfg.floor
  /\ Above(cfg.anomaly, Unit)
  /\ cfg.poolSize > 0
  /\ cfg.maxConcurrent > 0

\* Fault: the configuration is validated before the environment is applied.
LoadCheckedEarly(source) ==
  IF \/ source.file \in {Unreadable, Malformed}
     \/ ~Valid(FromFile(DefaultConfig, source.file))
  THEN Rejected
  ELSE FromEnv(FromFile(DefaultConfig, source.file), source.env)

\* Load(path), with the file at the path and the environment of the process.
Load(source) ==
  IF source.file \in {Unreadable, Malformed} THEN Rejected
  ELSE LET cfg == FromEnv(FromFile(DefaultConfig, source.file), source.env)
       IN  IF Valid(cfg) THEN cfg ELSE Rejected
=============================================================================
