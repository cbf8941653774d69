------------------------------ MODULE MCAgent ------------------------------
(***************************************************************************)
(* Instances of Agent for TLC, with a bound on what goes wrong.            *)
(***************************************************************************)
EXTENDS Agent, Naturals, TLC

CONSTANT MaxMishaps     \* bound on crashes, failing calls, interventions

VARIABLE mishaps        \* how many there have been

(* Drift takes a link away from the one MTU and address that are asked for. *)
MCConfigs ==
    [endpoints: Endpoints, ttl: TTLs, mtu: {CHOOSE mtu \in MTUs : TRUE},
     address: {CHOOSE address \in Addresses : TRUE}, masquerade: {TRUE}]

(* A link left behind is up, with every address and one TTL; its import has
   no masquerade. *)
LeftTTL == CHOOSE ttl \in TTLs : TRUE

MCImportConfigs ==
    MCConfigs \cup {[config EXCEPT !.masquerade = FALSE] :
                        config \in {c \in MCConfigs : c.ttl = LeftTTL}}

MCInit ==
    /\ AgentInit
    /\ \A name \in Names :
           Present(name) => /\ links[name].up
                            /\ links[name].addresses = Addresses
                            /\ links[name].ttl = LeftTTL
    /\ mishaps = 0

MCNext ==
    \/ AgentCalm /\ UNCHANGED mishaps
    \/ AgentMishap /\ mishaps < MaxMishaps /\ mishaps' = mishaps + 1

MCSpec == MCInit /\ [][MCNext]_<<agentVars, mishaps>>

MCFairSpec == MCSpec /\ AgentFairness

Symmetry == Permutations(Requests) \cup Permutations(Names)
=============================================================================
