------------------------------- MODULE Admission -------------------------------
(***************************************************************************)
(* What a request is granted, across restarts of the proxy: newProxy and    *)
(* the first lines of handleStream in cmd/proxy/main.go, over Config,       *)
(* Identity, IsBypassed and the engine.                                    *)
(*                                                                         *)
(* int64(f) of a float64 that an int64 cannot hold depends on the machine:  *)
(* amd64 gives the least integer, arm64 the nearest one and 0 for NaN.  A   *)
(* product that reaches 2^63, rounded to the 53 bits of a float64, is out   *)
(* of range; minus infinity stands at -2^63, which both machines make of it.*)
(***************************************************************************)
EXTENDS Config, Identity

CONSTANTS
  Clients,
  Requests,   \* what clients send: the headers Resolve reads, the value under
              \* the bypass header, the endpoint
  Sources,    \* what starts of the proxy find: [file, env]
  Histories,  \* BehaviorStats a request can find
  TwoTo63,    \* 2^63
  Down        \* no process runs

\* A request, as far as the proxy reads it.
RequestType ==
  [token     : {NoToken} \cup [key : STRING, sub : STRING, role : STRING,
                               sound : BOOLEAN],
   apiKey    : STRING,
   xff       : Seq(STRING),
   realIP    : STRING,
   remote    : [host : STRING, port : Nat],
   userAgent : Seq(STRING),
   language  : [tag : Seq(STRING), written : STRING],
   bypass    : STRING,
   endpoint  : STRING]

Integer64 == -TwoTo63 .. TwoTo63

\* What the fields of a file or the variables of an environment hold: only a
\* number may be unparsable.
Typed(fields) ==
  /\ \A f \in {"floor", "ceiling"} \cap DOMAIN fields :
       fields[f] \in Integer64 \cup {Unparsable}
  /\ "burst" \in DOMAIN fields =>
       fields.burst \in Int \cup {NaN, Inf, Unparsable}
  /\ \A f \in {"jwtSecret", "bypassSecret"} \cap DOMAIN fields :
       fields[f] # Unparsable

\* Validate looks at no multiplier of an endpoint or a role: a file may give any
\* number.  That it gives none that is NaN or infinite is a limit of the model.
SourceType(s) ==
  /\ DOMAIN s.env \subseteq {"floor", "ceiling", "burst", "anomaly",
                             "jwtSecret", "bypassSecret"}
  /\ Typed(s.env)
  /\ s.file \notin {Unreadable, Malformed} =>
       /\ Typed(s.file)
       /\ \A f \in DOMAIN s.file : s.file[f] # Unparsable
       /\ "overrides" \in DOMAIN s.file =>
            \A e \in DOMAIN s.file.overrides :
              LET o == s.file.overrides[e]
              IN  /\ DOMAIN o \subseteq {"floor", "ceiling", "burst"}
                  /\ \A m \in DOMAIN o : o[m] \in Int
       /\ "roles" \in DOMAIN s.file =>
            \A r \in DOMAIN s.file.roles : s.file.roles[r] \in Int

ASSUME AdmissionAssumption ==
  /\ TwoTo63 \in Nat /\ TwoTo63 >= 100
  /\ Requests \subseteq RequestType
  /\ \A s \in Sources : SourceType(s)
  /\ Histories \subseteq [average : Nat, rate : Nat, requests : Nat,
                          isNewUser : BOOLEAN]

VARIABLES
  saturates,  \* how this machine converts
  source,     \* what the process was started with
  cfg,        \* its configuration, Down when there is no process
  last        \* what each client was last granted

avars == <<saturates, source, cfg, last>>

Engine(c) == INSTANCE Threshold WITH
  GlobalFloorBytes     <- c.floor,
  AbsoluteCeilingBytes <- c.ceiling,
  BurstMultiplier      <- c.burst,
  RateAnomalyFactor    <- c.anomaly,
  MinSamplesForAvg     <- c.minSamples,
  EndpointOverrides    <- c.overrides,
  RoleMultipliers      <- c.roles,
  NoRole               <- ""

Int64(x) ==
  IF x = NaN THEN IF saturates THEN 0 ELSE -TwoTo63
  ELSE IF x = Inf \/ x >= TwoTo63 THEN IF saturates THEN TwoTo63 ELSE -TwoTo63
  ELSE IF x < -TwoTo63 THEN -TwoTo63
  ELSE x

\* The average times the burst multiplier and the role's, in floating point: an
\* infinite one leaves only the sign of the others.
Burst(c, history, req, role) ==
  LET rest == history.average * Engine(c)!RoleMult(role)
  IN  IF c.burst = NaN \/ (c.burst = Inf /\ rest = 0) THEN NaN
      ELSE IF c.burst = Inf THEN IF rest > 0 THEN Inf ELSE -TwoTo63
      ELSE Engine(c)!BurstAllowed(history.average, req.endpoint, role)

\* The limits of Engine.Evaluate, every product converted.
Limits(c, history, req, role) ==
  LET floor   == Int64(Engine(c)!EffectiveFloor(req.endpoint, role))
      ceiling == Int64(Engine(c)!EffectiveCeiling(req.endpoint, role))
  IN  [floor   |-> floor,
       ceiling |-> ceiling,
       allowed |-> IF Engine(c)!LacksHistory(history) THEN floor
                   ELSE Engine(c)!AdaptiveLimit(
                          floor, Int64(Burst(c, history, req, role)), ceiling)]

IsBypassed(c, req) ==
  /\ c.bypassHeader # ""
  /\ c.bypassSecret # ""
  /\ req.bypass = c.bypassSecret

-----------------------------------------------------------------------------
None == [granted |-> FALSE]

AdmissionInit ==
  /\ saturates \in BOOLEAN
  /\ source \in Sources
  /\ cfg = Down
  /\ last = [c \in Clients |-> None]

\* main loads the configuration, or exits.
StartProxy(s) ==
  /\ cfg = Down
  /\ Load(s) # Rejected
  /\ source' = s
  /\ cfg' = Load(s)
  /\ UNCHANGED <<saturates, last>>

StopProxy ==
  /\ cfg # Down
  /\ cfg' = Down
  /\ UNCHANGED <<saturates, source, last>>

\* The first lines of handleStream, for a request that finds this history.
Grant(client, req, history) ==
  /\ cfg # Down
  /\ LET who == Resolve(cfg.jwtSecret, req)
     IN  last' = [last EXCEPT ![client] =
           [granted |-> TRUE,
            req     |-> req,
            history |-> history,
            source  |-> source,
            user    |-> who.user,
            role    |-> who.role,
            bypass  |-> IsBypassed(cfg, req),
            limits  |-> Limits(cfg, history, req, who.role)]]
  /\ UNCHANGED <<saturates, source, cfg>>

AdmissionNext ==
  \/ \E s \in Sources : StartProxy(s)
  \/ StopProxy
  \/ \E c \in Clients, r \in Requests, h \in Histories : Grant(c, r, h)

AdmissionSpec == AdmissionInit /\ [][AdmissionNext]_avars

-----------------------------------------------------------------------------
\* Properties.

Granted == {c \in Clients : last[c].granted}

\* A field of the configuration, as the last of environment, file and defaults
\* to name it has it.
Named(s, field) ==
  IF field \in DOMAIN s.env THEN s.env[field]
  ELSE IF field \in DOMAIN s.file THEN s.file[field]
  ELSE DefaultConfig[field]

\* No limit of the client's grant came from a product out of range.
InRange(c) ==
  LET l == last[c].limits
  IN  {l.floor, l.ceiling} \cap {TwoTo63, -TwoTo63} = {}

\* Type invariant: the engine finds three multipliers in every override, and
\* numbers Validate has seen.
AdmissionTypeOK ==
  /\ saturates \in BOOLEAN
  /\ source \in Sources
  /\ cfg # Down =>
       /\ DOMAIN cfg = DOMAIN DefaultConfig
       /\ cfg.floor \in Nat \ {0} /\ cfg.ceiling \in cfg.floor .. TwoTo63
       /\ cfg.burst \in Nat \cup {NaN, Inf}
       /\ \A e \in DOMAIN cfg.overrides :
            DOMAIN cfg.overrides[e] = {"floor", "ceiling", "burst"}
  /\ \A c \in Granted : last[c].limits.allowed \in -TwoTo63 .. TwoTo63

\* A configuration that Validate let pass is one the engine can work with: at
\* an endpoint whose multipliers are 1 a request without a role is allowed
\* something and not more than its ceiling, NaN, infinities and
\* variables that do not parse included.
PlainRequestsServed ==
  \A c \in Granted :
    LET a == last[c]
    IN  /\ a.role = ""
        /\ Load(a.source).overrides[a.req.endpoint] = Multipliers(1, 1, 1)
        /\ InRange(c)
        => a.limits.allowed \in 1 .. a.limits.ceiling

\* Only a role from a token of the proxy's own, or the bypass secret, lifts the
\* limits, and the secrets are those of the start, the environment before the
\* file: a proxy without them knows neither.
PrivilegesTraceToSecrets ==
  \A c \in Granted :
    LET a == last[c]
        secret == Named(a.source, "jwtSecret")
    IN  /\ a.role # "" =>
             secret # "" /\ a.req.token # NoToken /\ a.req.token.key = secret
        /\ a.bypass =>
             a.req.bypass # "" /\ a.req.bypass = Named(a.source, "bypassSecret")

\* Two clients have one name only if they present one subject, one key, or
\* one address, user agent and language: whatever the layer, histories and
\* strikes are shared by no one else.
NamesTellUsersApart ==
  \A c, d \in Granted :
    LET a == last[c].req
        b == last[d].req
    IN  last[c].user = last[d].user =>
          \/ a.token # NoToken /\ b.token # NoToken /\ a.token.sub = b.token.sub
          \/ a.apiKey # "" /\ a.apiKey = b.apiKey
          \/ /\ ClientIP(a) = ClientIP(b)
             /\ a.userAgent = b.userAgent
             /\ a.language.tag = b.language.tag

\* A request with the credentials taken off.
Stripped(req) == [req EXCEPT !.token = NoToken, !.apiKey = ""]

\* Taken off their credentials, clients fall back to the name of their
\* fingerprint and to no role; if that name has the same history or none, the
\* request is allowed no more than it was with them, new user or not.  That holds
\* where roles have multipliers of 1 and more and the endpoint none below 0, and
\* an int64 holds the products.  Nothing holds where the name has earned a larger
\* history of its own, and its strikes start over in any case (Grace).
StrippedGetsNoMore ==
  \A c \in Granted, h \in Histories :
    LET a    == last[c]
        req  == Stripped(a.req)
        bare == Limits(cfg, h, req, Resolve(cfg.jwtSecret, req).role)
    IN  /\ cfg # Down /\ a.source = source
        /\ \/ h = a.history
           \/ Engine(cfg)!LacksHistory(h) /\ a.limits.floor <= a.limits.ceiling
        /\ \A r \in DOMAIN cfg.roles : cfg.roles[r] >= Unit
        /\ Engine(cfg)!FloorMult(req.endpoint) >= 0
        /\ Engine(cfg)!CeilingMult(req.endpoint) >= 0
        /\ InRange(c)
        /\ Burst(cfg, a.history, a.req, a.role)
             \in {NaN, Inf} \cup 0 .. TwoTo63 - 1
        => bare.allowed <= a.limits.allowed /\ bare.ceiling <= a.limits.ceiling

\* Two requests are alike but for their ports and the case of a header.
SameCredentials(q, r) ==
  [q EXCEPT !.remote.port = r.remote.port,
            !.language.written = r.language.written] = r

\* Two grants whose names must be equal have equal names.
KeepsName(a, b) ==
  /\ a.granted /\ b.granted
  /\ SameCredentials(a.req, b.req)
  /\ \/ Named(a.source, "jwtSecret") = Named(b.source, "jwtSecret")
     \/ a.user[1] # "jwt" /\ b.user[1] # "jwt"
  => a.user = b.user

\* What the proxy keys its history by outlives it: a client that sends the same
\* credentials over another connection, to a proxy restarted with other limits
\* or another bypass secret, keeps its name; a new token secret renames only the
\* users whose token it accepts or no longer accepts.
NamesSurviveRestarts ==
  [][\A c \in Clients : KeepsName(last[c], last'[c])]_avars
=============================================================================
