----------------------------- MODULE Reconciler -----------------------------
(***************************************************************************)
(* internal/controller/reconciler.go: one goroutine that lists the desired *)
(* tunnels, then takes them one by one through the provider and writes the *)
(* result back.  The provider (domain.TunnelProvider) is any provider: its *)
(* calls return whatever the interface lets them return, so what is shown  *)
(* here of the controller does not depend on Linux or on GRE.              *)
(***************************************************************************)
EXTENDS TunnelStore

VARIABLES
    controller, \* the goroutine's program counter and local variables
    reports     \* history: what the provider has said, never read by the code

(* A successful Observe of a link, and a Remove that has succeeded. *)
ReportStates == {"up", "down", "removed"}

Intent(row) ==
    [name |-> row.name, config |-> row.config, desired |-> row.desired]

Intents == [name: Names, config: Configs, desired: DesiredStates]

Report(id, row, state) ==
    [tunnel |-> id, intent |-> Intent(row), state |-> state]

Reports == [tunnel: Ids, intent: Intents, state: ReportStates]

(* Where a statement of the store is next, and where a provider call is. *)
StorePoints == {"boot", "resume", "list", "start", "drop", "mark", "fail",
                "succeed", "give_up"}
ProviderPoints == {"reconcile", "observe", "remove"}
Points == StorePoints \cup ProviderPoints \cup {"next"}

(* Inside ReconcileOne, with a tunnel in hand. *)
Busy == Points \ {"boot", "resume", "list", "next"}

(* What Observe can return without an error. *)
Healthy == {"up", "down"}
Unhealthy == {"missing", "error", "unknown"}

NoTunnels == [id \in Ids |-> None]

Started == [pc |-> "boot", pending |-> NoTunnels, tunnel |-> None,
            row |-> None, observed |-> "none"]

Goto(pc) == controller' = [controller EXCEPT !.pc = pc]

(* The loop of ReconcileAll, the rest of the list in rest. *)
Loop(rest) ==
    controller' = [Started EXCEPT
        !.pc = IF rest = NoTunnels THEN "list" ELSE "next", !.pending = rest]

(* ReconcileOne returns, with an error or without: the error is only logged. *)
Return == Loop(controller.pending)

-----------------------------------------------------------------------------
(* Run, before its first pass: RequeueInterruptedOperations. *)
Requeue ==
    /\ controller.pc = "boot"
    /\ RequeueRunning
    /\ Goto("resume")
    /\ UNCHANGED <<tunnels, reports>>

Resume ==
    /\ controller.pc = "resume"
    /\ ClearRetries
    /\ Goto("list")
    /\ UNCHANGED <<operations, reports>>

(* ReconcileAll takes a copy of the whole table and works from it. *)
ListTunnels_OnlyPending ==
    /\ controller.pc = "list"
    /\ Loop([id \in Ids |->
                IF Exists(id) /\ tunnels[id].actual \in Healthy
                THEN None ELSE tunnels[id]])
    /\ UNCHANGED <<storeVars, reports>>

ListTunnels ==
    /\ controller.pc = "list"
    /\ Loop(tunnels)
    /\ UNCHANGED <<storeVars, reports>>

(* The rows come in the order of created_at, a text whose fraction of a
   second has a varying number of digits: the order is left open. *)
InPass(id) == controller.pc = "next" /\ controller.pending[id] # None

Rest(id) == [controller.pending EXCEPT ![id] = None]

(* time.Now() is before the retry_at of the copy. *)
Skip(id) ==
    /\ InPass(id)
    /\ controller.pending[id].retry
    /\ Loop(Rest(id))
    /\ UNCHANGED <<storeVars, reports>>

Begin_NeverRetries(id) ==
    /\ InPass(id)
    /\ ~controller.pending[id].retry
    /\ controller' = [controller EXCEPT
           !.pc = "start", !.pending = Rest(id), !.tunnel = id,
           !.row = controller.pending[id]]
    /\ UNCHANGED <<storeVars, reports>>

(* There is no retry_at, or it has passed: time may always have passed. *)
Begin(id) ==
    /\ InPass(id)
    /\ controller' = [controller EXCEPT
           !.pc = "start", !.pending = Rest(id), !.tunnel = id,
           !.row = controller.pending[id]]
    /\ UNCHANGED <<storeVars, reports>>

-----------------------------------------------------------------------------
Start_RemovesDisabled ==
    /\ controller.pc = "start"
    /\ MarkOperationsRunning(controller.tunnel)
    /\ Goto(IF controller.row.desired = "enabled" THEN "reconcile"
                                                ELSE "remove")
    /\ UNCHANGED <<tunnels, reports>>

(* ReconcileOne, from MarkOperationsRunning on. *)
Start ==
    /\ controller.pc = "start"
    /\ MarkOperationsRunning(controller.tunnel)
    /\ Goto(IF controller.row.desired = "deleted" THEN "remove"
                                                ELSE "reconcile")
    /\ UNCHANGED <<tunnels, reports>>

Hear(state) ==
    reports' = reports \cup {Report(controller.tunnel, controller.row, state)}

RemoveSucceeds ==
    /\ controller.pc = "remove"
    /\ Hear("removed")
    /\ Goto("drop")
    /\ UNCHANGED storeVars

ReconcileSucceeds ==
    /\ controller.pc = "reconcile"
    /\ Goto("observe")
    /\ UNCHANGED <<storeVars, reports>>

ObserveHealthy(state) ==
    /\ controller.pc = "observe"
    /\ Hear(state)
    /\ controller' = [controller EXCEPT !.pc = "mark", !.observed = state]
    /\ UNCHANGED storeVars

ObserveUnhealthy(state) ==
    /\ controller.pc = "observe"
    /\ controller' = [controller EXCEPT !.pc = "mark", !.observed = state]
    /\ UNCHANGED <<storeVars, reports>>

ProviderFails_Ignored ==
    /\ controller.pc \in ProviderPoints
    /\ Goto(IF controller.pc = "remove" THEN "drop" ELSE "fail")
    /\ UNCHANGED <<storeVars, reports>>

ProviderFails ==
    /\ controller.pc \in ProviderPoints
    /\ Goto("fail")
    /\ UNCHANGED <<storeVars, reports>>

(* DeleteTunnel: by id, whatever the row has become since it was listed. *)
Drop ==
    /\ controller.pc = "drop"
    /\ \/ DeleteTunnel(controller.tunnel) /\ Goto("succeed")
       \/ ~Exists(controller.tunnel) /\ Return /\ UNCHANGED tunnels
    /\ UNCHANGED <<operations, reports>>

-----------------------------------------------------------------------------
(* mark: the row it is given, with an observation.  Being up or down clears
   the backoff. *)
Marked_KeepsBackoff(row, state) == [row EXCEPT !.actual = state]

Marked(row, state) ==
    IF state \in Healthy
    THEN [row EXCEPT !.actual = state, !.failing = FALSE, !.retry = FALSE]
    ELSE [row EXCEPT !.actual = state]

(* fail: one more failure, another attempt later. *)
Failed(row) ==
    Marked([row EXCEPT !.failing = TRUE, !.retry = TRUE], "error")

(* mark and fail write the whole row, as it was when it was listed. *)
WriteBack(row, pc) ==
    /\ \/ UpdateTunnel(controller.tunnel, row) /\ Goto(pc)
       \/ ~Updatable(controller.tunnel, row) /\ Return /\ UNCHANGED tunnels
    /\ UNCHANGED <<operations, reports>>

Mark_IgnoresObservation ==
    /\ controller.pc = "mark"
    /\ WriteBack(Marked(controller.row, controller.observed), "succeed")

Mark ==
    /\ controller.pc = "mark"
    /\ WriteBack(Marked(controller.row, controller.observed),
                 IF controller.observed \in Unhealthy THEN "fail"
                                                      ELSE "succeed")

Fail ==
    /\ controller.pc = "fail"
    /\ WriteBack(Failed(controller.row), "give_up")

Complete_WritesState ==
    /\ controller.pc \in {"succeed", "give_up"}
    /\ CompleteOperations(controller.tunnel, controller.observed)
    /\ Return
    /\ UNCHANGED <<tunnels, reports>>

(* CompleteOperations ends ReconcileOne, after success and after failure. *)
Complete ==
    /\ controller.pc \in {"succeed", "give_up"}
    /\ CompleteOperations(controller.tunnel,
                          IF controller.pc = "succeed" THEN "success"
                                                       ELSE "failed")
    /\ Return
    /\ UNCHANGED <<tunnels, reports>>

(* A statement fails: the pass goes on with the next tunnel; the start goes
   on without the rest of RequeueInterruptedOperations. *)
ControllerStoreError ==
    /\ controller.pc \in StorePoints
    /\ Return
    /\ UNCHANGED <<storeVars, reports>>

-----------------------------------------------------------------------------
(* What the goroutine does when nothing fails. *)
Progress ==
    \/ Requeue \/ Resume \/ ListTunnels
    \/ \E id \in Ids : Skip(id) \/ Begin(id)
    \/ Start \/ RemoveSucceeds \/ ReconcileSucceeds
    \/ \E state \in Healthy : ObserveHealthy(state)
    \/ Drop \/ Mark \/ Fail \/ Complete

Misfortune ==
    \/ ProviderFails
    \/ \E state \in Unhealthy : ObserveUnhealthy(state)
    \/ ControllerStoreError

ControllerStep == Progress \/ Misfortune

(* systemd starts the process again; nothing of the goroutine is left. *)
Restart == controller' = Started

ControllerInit ==
    /\ controller = Started
    /\ reports = {}

ControllerTypeOK ==
    /\ controller \in [pc: Points, pending: [Ids -> Row \cup {None}],
                       tunnel: Ids \cup {None}, row: Row \cup {None},
                       observed: Healthy \cup Unhealthy \cup {"none"}]
    /\ controller.pc \in Busy => /\ controller.tunnel \in Ids
                                 /\ controller.row \in Row
    /\ controller.pc = "mark" => controller.observed # "none"
    /\ reports \subseteq Reports
=============================================================================
