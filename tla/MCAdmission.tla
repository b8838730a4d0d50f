----------------------------- MODULE MCAdmission -----------------------------
(***************************************************************************)
(* A small instance of Admission: two secrets, ten sources, nine requests. *)
(***************************************************************************)
EXTENDS Admission, TLC

\* A request without credentials, from behind a proxy that names the client.
Plain ==
  [token |-> NoToken, apiKey |-> "", xff |-> <<"10.0.0.1", "10.9.9.9">>,
   realIP |-> "", remote |-> [host |-> "10.9.9.9", port |-> 1],
   userAgent |-> <<"curl">>, language |-> [tag |-> <<"en">>, written |-> "en"],
   bypass |-> "", endpoint |-> "/data"]

Direct == [Plain EXCEPT !.xff = <<"">>]

TokenOf(key, sub, role) ==
  [key |-> key, sub |-> sub, role |-> role, sound |-> TRUE]

MCRequests ==
  {[Plain EXCEPT !.token = TokenOf("k1", "ann", "admin"), !.endpoint = "/export"],
   [Plain EXCEPT !.token = TokenOf("k2", "ann", "ghost"), !.apiKey = "ann"],
   [Plain EXCEPT !.token = TokenOf("", "ann", "admin"), !.bypass = "open"],
   [Plain EXCEPT !.token = TokenOf("k1", "", "admin"), !.endpoint = "/export"],
   Plain,
   [Plain EXCEPT !.language = [tag |-> <<"de">>, written |-> "DE"]],
   [Direct EXCEPT !.realIP = "10.0.0.1"],
   Direct,
   [Direct EXCEPT !.remote.port = 2,
                  !.language = [tag |-> <<"en">>, written |-> "EN"]]}

From(file, env) == [file |-> file, env |-> env]

\* The last three are not accepted; the floor of the fifth is, thanks to the
\* environment.
MCSources ==
  {From(<<>>, <<>>),
   From([jwtSecret |-> "k1", bypassSecret |-> "open",
         overrides |-> "/export" :> [floor |-> Times(2)]], <<>>),
   From([jwtSecret |-> "k1"], [jwtSecret |-> "k2", burst |-> NaN]),
   From([jwtSecret |-> "k1", roles |-> "admin" :> Times(8)],
        [burst |-> Inf, floor |-> Unparsable]),
   From([floor |-> 120, jwtSecret |-> "k2"], [ceiling |-> 150]),
   From([ceiling |-> TwoTo63, jwtSecret |-> "k1"], [bypassSecret |-> "open"]),
   From([jwtSecret |-> "k2", roles |-> "ghost" :> Times(-3),
         overrides |-> "/export" :> [ceiling |-> Times(-1)]], <<>>),
   From([maxConcurrent |-> 10], [floor |-> 300]),
   From(Malformed, [floor |-> 2]),
   From(Unreadable, <<>>)}

\* The clients are alike.
Symmetry == Permutations(Clients)

MCHistories ==
  {[average |-> 0, rate |-> 0, requests |-> 0, isNewUser |-> TRUE],
   [average |-> 20, rate |-> 2, requests |-> 5, isNewUser |-> FALSE]}
=============================================================================
