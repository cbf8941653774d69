------------------------ MODULE AgentImplementation ------------------------
(***************************************************************************)
(* What is proved of ControlPlane, with an arbitrary provider, holds of    *)
(* Agent with the GRE provider: Agent is composed so that each of its      *)
(* steps is one of ControlPlane or leaves its variables alone.             *)
(***************************************************************************)
EXTENDS Agent, ControlPlaneSafety, ControlPlaneSteps

(* The end of Adopt is the step of the import. *)
LEMMA EndImplemented ==
    ASSUME NEW r \in Requests, NEW pc, EndAdoption(r, pc)
    PROVE  Next
  BY DEF EndAdoption, Next, Api, ApiStep, Serve, Handle

(* A call that returns is a step of the controller, and every step of a
   call, of the kernel or of others on the host a stutter. *)
LEMMA CalmImplemented == AgentCalm => [Next]_vars
  <1> SUFFICES ASSUME AgentCalm PROVE [Next]_vars
    OBVIOUS
  <1>1. CASE Enter \/ Provide
    BY <1>1 DEF Enter, Provide
  <1>2. CASE Receive
    <2>1. Accept => ControllerStep
      BY DEF Accept, ControllerStep, Progress, Misfortune, Unhealthy
    <2> QED BY <1>2, <2>1 DEF Receive, Next, Controller
  <1>3. CASE Proceed
    BY <1>3 DEF Proceed, Next, Controller, ControllerStep
  <1>4. ASSUME NEW r \in Requests, AgentServe(r)
        PROVE  Next
    BY <1>4 DEF AgentServe, Next, Api, ApiStep
  <1>5. ASSUME NEW r \in Requests, Import(r)
        PROVE  Next \/ UNCHANGED vars
    BY <1>5, EndImplemented DEF Import
  <1> QED BY <1>1, <1>2, <1>3, <1>4, <1>5
      DEF AgentCalm, AgentProgress, AgentApi

LEMMA MishapImplemented == AgentMishap => [Next]_vars
  <1> SUFFICES ASSUME AgentMishap PROVE [Next]_vars
    OBVIOUS
  <1>1. CASE StatementFails
    BY <1>1 DEF StatementFails, Next, Api, ApiStep, Controller,
                ControllerStep, Misfortune
  <1>2. CASE AgentCrash
    BY <1>2 DEF AgentCrash, Next
  <1>3. CASE CommandFails \/ Intervene
    BY <1>3, EndImplemented DEF CommandFails, Intervene
  <1> QED BY <1>1, <1>2, <1>3 DEF AgentMishap

(* The agent on its host behaves as ControlPlane allows. *)
LEMMA AgentImplements == AgentSpec => Spec
  <1>1. AgentInit => Init
    BY DEF AgentInit
  <1>2. [AgentNext]_agentVars => [Next]_vars
    <2>1. CASE AgentNext
      BY <2>1, CalmImplemented, MishapImplemented DEF AgentNext
    <2>2. CASE UNCHANGED agentVars
      BY <2>2 DEF agentVars
    <2> QED BY <2>1, <2>2
  <1> QED BY <1>1, <1>2, PTL DEF AgentSpec, Spec

(* So the agent has the invariants of the control plane, whatever the
   kernel, iptables and others on the host do. *)
COROLLARY AgentSafe ==
    AgentSpec => [](/\ TypeOK
                    /\ UniqueNames
                    /\ ClaimsAreReports
                    /\ SuccessIsReported
                    /\ BackoffMatchesHistory)
  BY AgentImplements, TypeCorrect, NamesUnique, ClaimsCorrect, SuccessCorrect,
     BackoffCorrect, PTL

(* And what its steps may not do: drop a record of a link the provider has
   not removed, disturb a row outside a race, undo a deletion nobody races,
   or take an operation record out of its life. *)
COROLLARY AgentSteps ==
    AgentSpec => /\ DroppedAfterRemoval
                 /\ DisturbsOnlyByRace
                 /\ DeletionStands
                 /\ LogSpec
  BY AgentImplements, DropsCorrect, DisturbanceCorrect, DeletionCorrect,
     LogImplemented
=============================================================================
