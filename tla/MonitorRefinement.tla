-------------------------- MODULE MonitorRefinement --------------------------
(***************************************************************************)
(* The monitor implements the egress contract.                             *)
(***************************************************************************)
EXTENDS Monitor

CONSTANTS Bytes, Amounts

\* The contract knows the sizes of the chunks and the limits of the requests.
ASSUME BytesAssumption ==
  /\ ChunkSizes \cup {0} \subseteq Bytes
  /\ NoLimit \in Amounts
  /\ \A h \in Histories, r \in Requests :
       LET d == Evaluate(h, r.endpoint, r.role, 0)
       IN  d.allowed \in Amounts /\ d.ceiling \in Amounts

\* Between the loop's end and finalize a stream is cut or closed; in the loop
\* it is open.
StatusOf(s) ==
  CASE pc[s] = "idle"     -> "new"
    [] pc[s] = "refused"  -> "refused"
    [] pc[s] = "finalize" -> IF monitor[s].killed THEN "cut" ELSE "closed"
    [] pc[s] = "done"     -> "settled"
    [] OTHER              -> "open"

Contract ==
  INSTANCE EgressContract WITH
    status   <- [s \in Streams |-> StatusOf(s)],
    limits   <- [s \in Streams |-> [allowed |-> monitor[s].decision.allowed,
                                    ceiling |-> monitor[s].decision.ceiling]],
    fetched  <- [s \in Streams |-> monitor[s].totalBytes],
    sent     <- delivered,
    pardoned <- [s \in Streams |-> grade[s] \in {"log_only", "throttle"}],
    account  <- recorded

\* Every behaviour of the monitor is one the contract allows, settling
\* included.
ImplementsContract == Contract!CSpec
=============================================================================
