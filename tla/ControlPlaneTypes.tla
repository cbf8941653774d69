-------------------------- MODULE ControlPlaneTypes --------------------------
(***************************************************************************)
(* TypeOK is an invariant of the control plane.                            *)
(***************************************************************************)
EXTENDS ControlPlane, TLAPS

(* A handler's row is well formed whatever row it starts from. *)
LEMMA HandlerRows ==
    /\ \A name \in Names, config \in Configs : NewRow(name, config) \in Row
    /\ \A row \in Row, name \in Names, config \in Configs :
           Updated(row, name, config) \in Row
    /\ \A row \in Row, desired \in DesiredStates :
           WithDesired(row, desired) \in Row
  BY DEF NewRow, Updated, WithDesired, Reset, Row, DesiredStates, ActualStates

(* So is a row the controller writes back. *)
LEMMA WrittenRows ==
    /\ \A row \in Row, state \in Healthy \cup Unhealthy :
           Marked(row, state) \in Row
    /\ \A row \in Row : Failed(row) \in Row
    /\ \A row \in Row : [row EXCEPT !.retry = FALSE] \in Row
  <1>1. ASSUME NEW row \in Row, NEW state \in Healthy \cup Unhealthy
        PROVE  Marked(row, state) \in Row
    BY DEF Marked, Row, Healthy, Unhealthy, ActualStates
  <1>2. ASSUME NEW row \in Row
        PROVE  Failed(row) \in Row
    <2>1. [row EXCEPT !.failing = TRUE, !.retry = TRUE] \in Row
      BY DEF Row
    <2> QED BY <2>1, <1>1 DEF Failed, Unhealthy
  <1>3. \A row \in Row : [row EXCEPT !.retry = FALSE] \in Row
    BY DEF Row
  <1> QED BY <1>1, <1>2, <1>3

(* A write-back keeps the intent of the row it starts from. *)
LEMMA WrittenFields ==
    ASSUME NEW row \in Row
    PROVE  /\ \A state \in Healthy \cup Unhealthy :
                  /\ Marked(row, state).actual = state
                  /\ Intent(Marked(row, state)) = Intent(row)
           /\ Failed(row).actual = "error"
           /\ Failed(row).failing
           /\ Intent(Failed(row)) = Intent(row)
  <1>1. ASSUME NEW state \in Healthy \cup Unhealthy
        PROVE  /\ Marked(row, state).actual = state
               /\ Intent(Marked(row, state)) = Intent(row)
    BY DEF Marked, Intent, Row
  <1>2. /\ Failed(row).actual = "error"
        /\ Failed(row).failing
        /\ Intent(Failed(row)) = Intent(row)
    BY DEF Failed, Marked, Intent, Row, Healthy
  <1> QED BY <1>1, <1>2

(* The bulk updates keep the tables well formed. *)
LEMMA BulkTypes ==
    ASSUME StoreTypeOK
    PROVE  /\ \A id \in Ids : MarkOperationsRunning(id)
                  => operations' \in [Requests -> Operation \cup {None}]
           /\ \A id \in Ids, status \in Statuses : CompleteOperations(id, status)
                  => operations' \in [Requests -> Operation \cup {None}]
           /\ RequeueRunning => operations' \in [Requests -> Operation \cup {None}]
           /\ ClearRetries => tunnels' \in [Ids -> Row \cup {None}]
  <1>1. ASSUME NEW id \in Ids
        PROVE  MarkOperationsRunning(id)
                  => operations' \in [Requests -> Operation \cup {None}]
    BY DEF MarkOperationsRunning, SetStatus, Of, Recorded,
           StoreTypeOK, Operation, Statuses
  <1>2. ASSUME NEW id \in Ids, NEW status \in Statuses
        PROVE  CompleteOperations(id, status)
                  => operations' \in [Requests -> Operation \cup {None}]
    BY DEF CompleteOperations, SetStatus, Of, Recorded, Unfinished,
           StoreTypeOK, Operation, Statuses
  <1>3. RequeueRunning => operations' \in [Requests -> Operation \cup {None}]
    BY DEF RequeueRunning, SetStatus, Recorded,
           StoreTypeOK, Operation, Statuses
  <1>4. ClearRetries => tunnels' \in [Ids -> Row \cup {None}]
    BY DEF ClearRetries, StoreTypeOK, Row, Exists
  <1> QED BY <1>1, <1>2, <1>3, <1>4

-----------------------------------------------------------------------------
(* The assignments handlers and controller share. *)

LEMMA NoneIsNoRow == None \notin Row /\ None \notin Ids /\ None \notin Operation
  BY NoneAssumption

(* A handler's next state is well formed. *)
LEMMA HandlerTypes ==
    ASSUME ApiTypeOK, NEW r \in Requests
    PROVE  /\ Respond(r) => ApiTypeOK'
           /\ \A pc \in {"insert", "update"}, action \in Actions, id \in Ids,
                row \in Row : Hold(r, pc, action, id, row) => ApiTypeOK'
           /\ \A pc \in {"adopt", "withdraw", "audit"} :
                  InFlight(r) /\ Advance(r, pc) => ApiTypeOK'
           /\ DropRequests => ApiTypeOK'
  <1>1. ASSUME Respond(r)
        PROVE  ApiTypeOK'
    BY <1>1 DEF ApiTypeOK, Respond, Handler, Idle, InFlight
  <1>2. ASSUME NEW pc \in {"insert", "update"}, NEW action \in Actions,
               NEW id \in Ids, NEW row \in Row, Hold(r, pc, action, id, row)
        PROVE  ApiTypeOK'
    BY <1>2 DEF ApiTypeOK, Hold, Handler, Idle, InFlight
  <1>3. ASSUME NEW pc \in {"adopt", "withdraw", "audit"}, InFlight(r),
               Advance(r, pc)
        PROVE  ApiTypeOK'
    BY <1>3 DEF ApiTypeOK, Advance, Handler, InFlight
  <1>4. ASSUME DropRequests
        PROVE  ApiTypeOK'
    BY <1>4 DEF ApiTypeOK, DropRequests, Handler, Idle, InFlight
  <1> QED BY <1>1, <1>2, <1>3, <1>4

(* A request that is refused, held or answered leaves the store alone. *)
LEMMA AskTypes ==
    ASSUME TypeOK, NEW r \in Requests, Reject(r) \/ Ask(r)
    PROVE  StoreTypeOK' /\ ApiTypeOK'
  <1> USE DEF TypeOK
  <1>1. StoreTypeOK'
    BY DEF Reject, Ask, AskCreate, AskImport, AskUpdate, AskState, AskDelete,
           ReadForChange, StoreTypeOK, storeVars
  <1>2. CASE Reject(r)
    BY <1>1, <1>2, HandlerTypes DEF Reject
  <1>3. CASE AskCreate(r) \/ AskImport(r)
    <2>1. PICK name \in Names, config \in Configs, action \in Actions :
              Hold(r, "insert", action, r, NewRow(name, config))
      BY <1>3 DEF AskCreate, AskImport, Actions
    <2> QED BY <1>1, <2>1, HandlerRows, HandlerTypes DEF Ids
  <1>4. ASSUME NEW id \in Ids, NEW action \in Actions, NEW row,
               ReadForChange(r, id, action, row), Exists(id) => row \in Row
        PROVE  ApiTypeOK'
    BY <1>4, HandlerTypes DEF ReadForChange
  <1>5. \A id \in Ids : Exists(id) => tunnels[id] \in Row
    BY DEF StoreTypeOK, Exists
  <1>6. CASE AskUpdate(r)
    BY <1>1, <1>4, <1>5, <1>6, HandlerRows DEF AskUpdate, Actions
  <1>7. CASE AskState(r)
    BY <1>1, <1>4, <1>5, <1>7, HandlerRows DEF AskState, Actions, DesiredStates
  <1>8. CASE AskDelete(r)
    BY <1>1, <1>4, <1>5, <1>8, HandlerRows DEF AskDelete, Actions, DesiredStates
  <1> QED BY <1>1, <1>2, <1>3, <1>6, <1>7, <1>8 DEF Ask

(* Every statement of a handler leaves well-formed tables. *)
LEMMA HandleTypes ==
    ASSUME TypeOK, NEW r \in Requests, Handle(r) \/ RequestStoreError(r)
    PROVE  StoreTypeOK' /\ ApiTypeOK'
  <1> USE DEF TypeOK
  <1>1. InFlight(r)
    BY DEF Handle, Insert, Adopt, Withdraw, Update, Audit, RequestStoreError,
           InFlight
  <1>2. requests[r].tunnel \in Ids /\ requests[r].row \in Row
            /\ requests[r].action \in Actions
    BY <1>1 DEF ApiTypeOK
  <1>3. CASE Insert(r)
    <2>1. ApiTypeOK'
      BY <1>1, <1>3, HandlerTypes DEF Insert
    <2>2. StoreTypeOK'
      BY <1>2, <1>3 DEF Insert, CreateTunnel, StoreTypeOK
    <2> QED BY <2>1, <2>2
  <1>4. CASE Update(r)
    <2>1. ApiTypeOK'
      BY <1>1, <1>4, HandlerTypes DEF Update
    <2>2. StoreTypeOK'
      BY <1>2, <1>4 DEF Update, UpdateTunnel, StoreTypeOK
    <2> QED BY <2>1, <2>2
  <1>5. CASE Audit(r)
    <2>1. ApiTypeOK'
      BY <1>5, HandlerTypes DEF Audit
    <2>2. StoreTypeOK'
      BY <1>2, <1>5 DEF Audit, CreateOperation, StoreTypeOK, Operation, Statuses
    <2> QED BY <2>1, <2>2
  <1>6. CASE RequestStoreError(r)
    <2>1. ApiTypeOK'
      BY <1>6, HandlerTypes DEF RequestStoreError
    <2>2. StoreTypeOK'
      BY <1>6 DEF RequestStoreError, storeVars, StoreTypeOK
    <2> QED BY <2>1, <2>2
  <1>7. CASE Adopt(r)
    BY <1>1, <1>7, HandlerTypes DEF Adopt, storeVars, StoreTypeOK
  <1>8. CASE Withdraw(r)
    <2>1. ApiTypeOK'
      BY <1>8, HandlerTypes DEF Withdraw
    <2>2. StoreTypeOK'
      BY <1>2, <1>8 DEF Withdraw, DeleteTunnel, StoreTypeOK
    <2> QED BY <2>1, <2>2
  <1> QED BY <1>3, <1>4, <1>5, <1>6, <1>7, <1>8 DEF Handle

-----------------------------------------------------------------------------
(* The controller's program counter and local variables. *)

LEMMA ControllerGotos ==
    ASSUME ControllerTypeOK
    PROVE  /\ \A pc \in Points \ {"mark"} :
                  Goto(pc) /\ (pc \in Busy => controller.pc \in Busy)
                      /\ reports' = reports => ControllerTypeOK'
           /\ \A rest \in [Ids -> Row \cup {None}] :
                  Loop(rest) /\ reports' = reports => ControllerTypeOK'
           /\ Return /\ reports' = reports => ControllerTypeOK'
           /\ Restart /\ reports' = reports => ControllerTypeOK'
  <1> USE DEF ControllerTypeOK, Busy, Points, StorePoints, ProviderPoints
  <1>1. ASSUME NEW pc \in Points \ {"mark"}, Goto(pc), reports' = reports,
               pc \in Busy => controller.pc \in Busy
        PROVE  ControllerTypeOK'
    BY <1>1 DEF Goto
  <1>2. ASSUME NEW rest \in [Ids -> Row \cup {None}], Loop(rest),
               reports' = reports
        PROVE  ControllerTypeOK'
    BY <1>2 DEF Loop, Started
  <1>3. Return /\ reports' = reports => ControllerTypeOK'
    BY <1>2 DEF Return
  <1>4. Restart /\ reports' = reports => ControllerTypeOK'
    BY DEF Restart, Started, NoTunnels
  <1> QED BY <1>1, <1>2, <1>3, <1>4

(* What the provider says is recorded of the tunnel in hand. *)
LEMMA HearTypes ==
    ASSUME ControllerTypeOK, controller.pc \in Busy, NEW state \in ReportStates,
           Hear(state)
    PROVE  reports' \subseteq Reports
  <1>1. controller.tunnel \in Ids /\ controller.row \in Row
    BY DEF ControllerTypeOK
  <1>2. Intent(controller.row) \in Intents
    BY <1>1 DEF Intent, Intents, Row
  <1>3. Report(controller.tunnel, controller.row, state) \in Reports
    BY <1>1, <1>2 DEF Report, Reports
  <1> QED BY <1>3 DEF Hear, ControllerTypeOK

LEMMA ProgressTypes ==
    ASSUME TypeOK, Progress
    PROVE  StoreTypeOK' /\ ControllerTypeOK'
  <1> USE DEF TypeOK
  <1>t. controller.pc \in Busy =>
            controller.tunnel \in Ids /\ controller.row \in Row
    BY DEF ControllerTypeOK
  <1>p. /\ Busy \subseteq Points
        /\ {"start", "reconcile", "observe", "remove", "drop", "mark", "fail",
            "succeed", "give_up"} = Busy
    BY DEF Busy, Points, StorePoints, ProviderPoints
  <1>l. {"boot", "resume", "list", "next"} \cap Busy = {} /\ "resume" \in Points
            /\ "list" \in Points
    BY DEF Busy, Points, StorePoints
  <1>1. CASE Requeue
    BY <1>1, <1>l, ControllerGotos, BulkTypes DEF Requeue, StoreTypeOK
  <1>2. CASE Resume
    BY <1>2, <1>l, ControllerGotos, BulkTypes DEF Resume, StoreTypeOK
  <1>3. CASE ListTunnels
    BY <1>3, ControllerGotos DEF ListTunnels, StoreTypeOK, storeVars
  <1>4. ASSUME NEW id \in Ids, Skip(id)
        PROVE  StoreTypeOK' /\ ControllerTypeOK'
    <2>1. Rest(id) \in [Ids -> Row \cup {None}]
      BY DEF Rest, ControllerTypeOK
    <2> QED BY <1>4, <2>1, ControllerGotos DEF Skip, StoreTypeOK, storeVars
  <1>5. ASSUME NEW id \in Ids, Begin(id)
        PROVE  StoreTypeOK' /\ ControllerTypeOK'
    <2>1. Rest(id) \in [Ids -> Row \cup {None}]
      BY DEF Rest, ControllerTypeOK
    <2>2. controller.pending[id] \in Row
      BY <1>5 DEF Begin, InPass, ControllerTypeOK
    <2>3. ControllerTypeOK'
      BY <1>5, <2>1, <2>2, <1>p DEF Begin, ControllerTypeOK
    <2> QED BY <1>5, <2>3 DEF Begin, StoreTypeOK, storeVars
  <1>6. CASE Start
    BY <1>6, <1>p, <1>t, ControllerGotos, BulkTypes DEF Start, StoreTypeOK
  <1>7. CASE RemoveSucceeds
    <2>1. reports' \subseteq Reports
      BY <1>7, <1>p, HearTypes DEF RemoveSucceeds, ReportStates
    <2>2. ControllerTypeOK'
      BY <1>7, <1>p, <2>1 DEF RemoveSucceeds, Goto, ControllerTypeOK
    <2> QED BY <1>7, <2>2 DEF RemoveSucceeds, StoreTypeOK, storeVars
  <1>8. CASE ReconcileSucceeds
    BY <1>8, <1>p, ControllerGotos DEF ReconcileSucceeds, StoreTypeOK, storeVars
  <1>9. ASSUME NEW state \in Healthy, ObserveHealthy(state)
        PROVE  StoreTypeOK' /\ ControllerTypeOK'
    <2>1. reports' \subseteq Reports
      BY <1>9, <1>p, HearTypes DEF ObserveHealthy, ReportStates, Healthy
    <2>2. ControllerTypeOK'
      BY <1>9, <1>p, <2>1 DEF ObserveHealthy, ControllerTypeOK, Healthy
    <2> QED BY <1>9, <2>2 DEF ObserveHealthy, StoreTypeOK, storeVars
  <1>10. CASE Drop
    BY <1>10, <1>p, <1>t, ControllerGotos DEF Drop, DeleteTunnel, StoreTypeOK
  <1>11. ASSUME NEW row \in Row, NEW pc \in {"fail", "succeed", "give_up"},
                controller.pc \in Busy, WriteBack(row, pc)
         PROVE  StoreTypeOK' /\ ControllerTypeOK'
    BY <1>11, <1>p, <1>t, ControllerGotos
       DEF WriteBack, UpdateTunnel, StoreTypeOK
  <1>12. CASE Mark
    <2>1. controller.observed \in Healthy \cup Unhealthy
      BY <1>12 DEF Mark, ControllerTypeOK
    <2> QED BY <1>12, <2>1, <1>p, <1>t, <1>11, WrittenRows DEF Mark
  <1>13. CASE Fail
    BY <1>13, <1>p, <1>t, <1>11, WrittenRows DEF Fail
  <1>14. CASE Complete
    BY <1>14, <1>p, <1>t, ControllerGotos, BulkTypes
       DEF Complete, StoreTypeOK, Statuses
  <1> QED BY <1>1, <1>2, <1>3, <1>4, <1>5, <1>6, <1>7, <1>8, <1>9, <1>10,
             <1>12, <1>13, <1>14 DEF Progress

LEMMA MisfortuneTypes ==
    ASSUME TypeOK, Misfortune
    PROVE  StoreTypeOK' /\ ControllerTypeOK'
  <1> USE DEF TypeOK
  <1>p. ProviderPoints \subseteq Busy /\ "fail" \in Points /\ "mark" \in Points
    BY DEF Busy, Points, StorePoints, ProviderPoints
  <1>1. CASE ProviderFails
    BY <1>1, <1>p, ControllerGotos DEF ProviderFails, StoreTypeOK, storeVars
  <1>2. ASSUME NEW state \in Unhealthy, ObserveUnhealthy(state)
        PROVE  StoreTypeOK' /\ ControllerTypeOK'
    <2>1. controller.pc \in Busy
      BY <1>2, <1>p DEF ObserveUnhealthy, ProviderPoints
    <2>2. ControllerTypeOK'
      BY <1>2, <1>p, <2>1 DEF ObserveUnhealthy, ControllerTypeOK, Unhealthy
    <2> QED BY <1>2, <2>2 DEF ObserveUnhealthy, StoreTypeOK, storeVars
  <1>3. CASE ControllerStoreError
    BY <1>3, ControllerGotos DEF ControllerStoreError, StoreTypeOK, storeVars
  <1> QED BY <1>1, <1>2, <1>3 DEF Misfortune

-----------------------------------------------------------------------------
(* TypeOK holds in every reachable state, for any number of requests and
   names. *)
THEOREM TypeCorrect == Spec => []TypeOK
  <1>1. Init => TypeOK
    BY DEF Init, StoreInit, ApiInit, ControllerInit, TypeOK, StoreTypeOK,
           ApiTypeOK, ControllerTypeOK, Idle, Handler, InFlight, Started,
           NoTunnels, Busy, Points, StorePoints, ProviderPoints
  <1>2. TypeOK /\ [Next]_vars => TypeOK'
    <2> SUFFICES ASSUME TypeOK, [Next]_vars PROVE TypeOK'
      OBVIOUS
    <2>1. CASE Api
      <3>1. StoreTypeOK' /\ ApiTypeOK'
        BY <2>1, AskTypes, HandleTypes DEF Api, ApiStep, Serve
      <3>2. ControllerTypeOK'
        BY <2>1 DEF Api, ApiFrame, TypeOK, ControllerTypeOK
      <3> QED BY <2>1, <3>1, <3>2 DEF Api, ApiFrame, TypeOK
    <2>2. CASE Controller
      <3>1. StoreTypeOK' /\ ControllerTypeOK'
        BY <2>2, ProgressTypes, MisfortuneTypes DEF Controller, ControllerStep
      <3>2. ApiTypeOK'
        BY <2>2 DEF Controller, ControllerFrame, TypeOK, ApiTypeOK, InFlight
      <3> QED BY <2>2, <3>1, <3>2 DEF Controller, ControllerFrame, TypeOK
    <2>3. CASE Crash
      <3>1. StoreTypeOK'
        BY <2>3 DEF Crash, TypeOK, StoreTypeOK, storeVars
      <3>2. ControllerTypeOK'
        BY <2>3, ControllerGotos DEF Crash, TypeOK
      <3>3. ApiTypeOK'
        BY <2>3 DEF Crash, DropRequests, TypeOK, ApiTypeOK, Handler, Idle,
                    InFlight
      <3> QED BY <2>3, <3>1, <3>2, <3>3 DEF Crash, TypeOK
    <2>4. CASE UNCHANGED vars
      BY <2>4 DEF vars, storeVars, TypeOK, StoreTypeOK, ApiTypeOK,
                  ControllerTypeOK, InFlight
    <2> QED BY <2>1, <2>2, <2>3, <2>4 DEF Next
  <1> QED BY <1>1, <1>2, PTL DEF Spec
=============================================================================
