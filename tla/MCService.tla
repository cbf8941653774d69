----------------------------- MODULE MCService -----------------------------
(***************************************************************************)
(* Instances of Service for TLC, with a bound on what goes wrong.          *)
(***************************************************************************)
EXTENDS Service

CONSTANT MaxMishaps     \* bound on exits, failures, reboots, acts of others

VARIABLE mishaps        \* how many there have been

MCInit == Init /\ mishaps = 0

MCNext ==
    \/ Calm /\ UNCHANGED mishaps
    \/ Mishap /\ mishaps < MaxMishaps /\ mishaps' = mishaps + 1

MCSpec == MCInit /\ [][MCNext]_<<vars, mishaps>>

MCFairSpec == MCSpec /\ Fairness
=============================================================================
