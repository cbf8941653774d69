--------------------------- MODULE MCControlPlane ---------------------------
(***************************************************************************)
(* Instances of ControlPlane for TLC, with a bound on what goes wrong.     *)
(***************************************************************************)
EXTENDS ControlPlane, Naturals, TLC

CONSTANT MaxMishaps     \* bound on crashes, failing statements and repairs

VARIABLE mishaps        \* how many there have been

MCInit == Init /\ mishaps = 0

MCNext ==
    \/ Calm /\ UNCHANGED mishaps
    \/ Mishap /\ mishaps < MaxMishaps /\ mishaps' = mishaps + 1

MCSpec == MCInit /\ [][MCNext]_<<vars, mishaps>>

MCFairSpec == MCSpec /\ Fairness

(* Requests, names and configurations are told apart and compared, never
   ordered. *)
Symmetry ==
    Permutations(Requests) \cup Permutations(Names) \cup Permutations(Configs)
=============================================================================
