----------------------------- MODULE GraceWindow -----------------------------
(***************************************************************************)
(* What the grace system's keys implement when the calls of one user do not *)
(* overlap: violations are counted in windows of W seconds, each opened by   *)
(* the first violation after the one before it ended.                      *)
(***************************************************************************)
EXTENDS Naturals

CONSTANT W

VARIABLES
  now,
  count,   \* violations of the current window
  opened   \* when it was opened, 0 when there is none

wvars == <<now, count, opened>>

Init == now = 1 /\ count = 0 /\ opened = 0

Tick == now' = now + 1 /\ UNCHANGED <<count, opened>>

\* The last second of a window, its W-th, may belong to it or not.
Open ==
  /\ count = 0
  /\ count' = 1
  /\ opened' = now
  /\ UNCHANGED now

Count ==
  /\ count > 0
  /\ now <= opened + W
  /\ count' = count + 1
  /\ UNCHANGED <<now, opened>>

Close ==
  /\ count > 0
  /\ now >= opened + W
  /\ count' = 0
  /\ opened' = 0
  /\ UNCHANGED now

WindowSpec == Init /\ [][Tick \/ Open \/ Count \/ Close]_wvars
=============================================================================
