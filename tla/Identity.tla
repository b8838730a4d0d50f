------------------------------- MODULE Identity -------------------------------
(***************************************************************************)
(* internal/identity/resolver.go: who a request is from.                   *)
(*                                                                         *)
(* A header that is absent is "".  A request's token is NoToken or a record *)
(* of the key it was signed with, its subject and role, and whether it is   *)
(* sound in every other way: a Bearer token, signed with HMAC, not expired. *)
(* xff is X-Forwarded-For split at its commas; language the tag of          *)
(* Accept-Language, which the code lower-cases, and how it was written.     *)
(* A name is a pair of the method and what is hashed or copied into it:     *)
(* SHA-256, of which the code keeps 64 bits, is taken to have no collision. *)
(***************************************************************************)
EXTENDS Sequences

CONSTANT NoToken

\* resolveJWT: without a secret of the proxy's own no token counts.
Authentic(secret, req) ==
  /\ secret # ""
  /\ req.token # NoToken
  /\ req.token.sound
  /\ req.token.key = secret
  /\ req.token.sub # ""

\* Fault: the whole of RemoteAddr is the address.
ClientIPWithPort(req) ==
  IF req.xff # <<>> /\ Head(req.xff) # "" THEN <<Head(req.xff)>>
  ELSE IF req.realIP # "" THEN <<req.realIP>>
  ELSE <<req.remote.host, req.remote.port>>

\* extractClientIP
ClientIP(req) ==
  IF req.xff # <<>> /\ Head(req.xff) # "" THEN <<Head(req.xff)>>
  ELSE IF req.realIP # "" THEN <<req.realIP>>
  ELSE <<req.remote.host>>

\* ... + "|" + ...
Bar(part, rest) == part \o <<"|">> \o rest

\* Fault: the fingerprint before the language was added to it.
FingerprintShort(req) == Bar(ClientIP(req), req.userAgent)

\* resolveFingerprint
Fingerprint(req) ==
  Bar(ClientIP(req), Bar(req.userAgent, req.language.tag))

Info(method, raw, role) == [user |-> <<method, raw>>, method |-> method,
                            role |-> role]

Resolve(secret, req) ==
  IF Authentic(secret, req)
  THEN Info("jwt", <<req.token.sub>>, req.token.role)
  ELSE IF req.apiKey # "" THEN Info("apikey", <<req.apiKey>>, "")
  ELSE Info("fp", Fingerprint(req), "")
=============================================================================
