---------------------------- MODULE EgressContract ----------------------------
(***************************************************************************)
(* What the proxy promises of each stream, without its loop, contexts,     *)
(* throttle or Redis: the limits are set once, at admission; bytes go out   *)
(* up to the limit freely, up to the ceiling after one pardon, never past   *)
(* it; an offence is answered by a cut; and every stream is entered in the  *)
(* user's account with all that was fetched for it.                        *)
(***************************************************************************)
EXTENDS Integers

CONSTANTS
  Streams,
  Bytes,    \* chunk sizes
  Amounts   \* limits, which a negative multiplier may make negative

VARIABLES
  status,    \* "new", "open", "cut", "closed", "settled", "refused"
  limits,    \* [allowed, ceiling], fixed at admission
  fetched,   \* bytes fetched from the backend for the stream
  sent,      \* bytes sent to the client
  pardoned,  \* the one pardon was granted
  account    \* bytes entered in the user's account

cvars == <<status, limits, fetched, sent, pardoned, account>>

Init ==
  /\ status = [s \in Streams |-> "new"]
  /\ limits = [s \in Streams |-> [allowed |-> 0, ceiling |-> 0]]
  /\ fetched = [s \in Streams |-> 0]
  /\ sent = [s \in Streams |-> 0]
  /\ pardoned = [s \in Streams |-> FALSE]
  /\ account = [s \in Streams |-> 0]

Admit(s, a, c) ==
  /\ status[s] = "new"
  /\ status' = [status EXCEPT ![s] = "open"]
  /\ limits' = [limits EXCEPT ![s] = [allowed |-> a, ceiling |-> c]]
  /\ UNCHANGED <<fetched, sent, pardoned, account>>

Refuse(s) ==
  /\ status[s] = "new"
  /\ status' = [status EXCEPT ![s] = "refused"]
  /\ UNCHANGED <<limits, fetched, sent, pardoned, account>>

\* One chunk at a time.
Fetch(s, n) ==
  /\ status[s] = "open"
  /\ fetched[s] = sent[s]
  /\ fetched' = [fetched EXCEPT ![s] = @ + n]
  /\ UNCHANGED <<status, limits, sent, pardoned, account>>

\* A stream over its limit, but not its ceiling, may be pardoned, once.
Pardon(s) ==
  /\ status[s] = "open"
  /\ ~pardoned[s]
  /\ fetched[s] > limits[s].allowed
  /\ fetched[s] <= limits[s].ceiling
  /\ pardoned' = [pardoned EXCEPT ![s] = TRUE]
  /\ UNCHANGED <<status, limits, fetched, sent, account>>

\* All that was fetched goes out, and the stream may be over.
Deliver(s) ==
  /\ status[s] = "open"
  /\ fetched[s] <= limits[s].ceiling
  /\ fetched[s] > limits[s].allowed => pardoned[s]
  /\ sent' = [sent EXCEPT ![s] = fetched[s]]
  /\ status' \in {status, [status EXCEPT ![s] = "closed"]}
  /\ UNCHANGED <<limits, fetched, pardoned, account>>

\* n more bytes, or what was fetched before, put the stream over its ceiling,
\* or over its limit with no pardon.
Cut(s, n) ==
  /\ status[s] = "open"
  /\ fetched' = [fetched EXCEPT ![s] = @ + n]
  /\ \/ fetched'[s] > limits[s].ceiling
     \/ fetched'[s] > limits[s].allowed /\ ~pardoned[s]
  /\ status' = [status EXCEPT ![s] = "cut"]
  /\ UNCHANGED <<limits, sent, pardoned, account>>

\* The client or the backend ended it, perhaps in the middle of a chunk that
\* was allowed to go out.
Break(s) ==
  /\ status[s] = "open"
  /\ \E n \in 0 .. fetched[s] - sent[s] :
       /\ n > 0 => /\ fetched[s] <= limits[s].ceiling
                   /\ fetched[s] > limits[s].allowed => pardoned[s]
       /\ sent' = [sent EXCEPT ![s] = @ + n]
  /\ status' = [status EXCEPT ![s] = "closed"]
  /\ UNCHANGED <<limits, fetched, pardoned, account>>

Settle(s) ==
  /\ status[s] \in {"cut", "closed"}
  /\ status' = [status EXCEPT ![s] = "settled"]
  /\ account' = [account EXCEPT ![s] = fetched[s]]
  /\ UNCHANGED <<limits, fetched, sent, pardoned>>

CNext ==
  \E s \in Streams :
    \/ \E a, c \in Amounts : Admit(s, a, c)
    \/ Refuse(s)
    \/ \E n \in Bytes : Fetch(s, n)
    \/ Pardon(s)
    \/ Deliver(s)
    \/ \E n \in Bytes : Cut(s, n)
    \/ Break(s)
    \/ Settle(s)

\* A stream that was cut or closed is settled; nothing makes an open one end.
CSpec ==
  Init /\ [][CNext]_cvars /\ \A s \in Streams : WF_cvars(Settle(s))
=============================================================================
