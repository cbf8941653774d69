------------------------- MODULE ControlPlaneSafety -------------------------
(***************************************************************************)
(* The safety properties of ControlPlane, proved for every number of       *)
(* requests and names.  Each invariant is strengthened by what the         *)
(* handlers and the controller have in hand between two statements.        *)
(***************************************************************************)
EXTENDS ControlPlaneTypes

(* Whoever is about to write row id, and what it will write. *)
Writes(id, row) ==
    \/ \E r \in Requests :
           /\ requests[r].pc \in {"insert", "update"}
           /\ id = requests[r].tunnel
           /\ row = requests[r].row
           /\ ~UNCHANGED requests
    \/ /\ controller.pc = "mark"
       /\ id = controller.tunnel
       /\ Exists(id)
       /\ row = Marked(controller.row, controller.observed)
    \/ /\ controller.pc = "fail"
       /\ id = controller.tunnel
       /\ Exists(id)
       /\ row = Failed(controller.row)

(* All that a step can do to the table tunnels. *)
LEMMA TableSteps ==
    ASSUME TypeOK, [Next]_vars
    PROVE  \/ UNCHANGED tunnels
           \/ \E id \in Ids, row \in Row :
                  /\ Writes(id, row)
                  /\ ~NameTaken(id, row.name)
                  /\ tunnels' = [tunnels EXCEPT ![id] = row]
           \/ /\ controller.pc = "drop"
              /\ controller.tunnel \in Ids
              /\ tunnels' = [tunnels EXCEPT ![controller.tunnel] = None]
              /\ Controller
           \/ \E r \in Requests :
                  /\ requests[r].pc = "withdraw"
                  /\ requests[r].tunnel \in Ids
                  /\ tunnels' = [tunnels EXCEPT ![requests[r].tunnel] = None]
                  /\ ~UNCHANGED requests
           \/ ClearRetries
  <1> USE DEF TypeOK
  <1>1. ASSUME NEW r \in Requests, Insert(r) \/ Update(r)
        PROVE  \/ UNCHANGED tunnels
               \/ \E id \in Ids, row \in Row :
                      /\ Writes(id, row)
                      /\ ~NameTaken(id, row.name)
                      /\ tunnels' = [tunnels EXCEPT ![id] = row]
    <2>1. requests[r].tunnel \in Ids /\ requests[r].row \in Row
              /\ requests[r].pc \in {"insert", "update"}
      BY <1>1 DEF Insert, Update, ApiTypeOK, InFlight
    <2>2. CASE \E pc \in {"adopt", "audit"} : Advance(r, pc)
      <3>1. ~UNCHANGED requests
        BY <2>1, <2>2 DEF Advance, ApiTypeOK, Handler
      <3>2. Writes(requests[r].tunnel, requests[r].row)
        BY <2>1, <3>1 DEF Writes
      <3> QED BY <1>1, <2>1, <3>2
              DEF Insert, Update, CreateTunnel, UpdateTunnel, Updatable
    <2>3. CASE UNCHANGED tunnels
      BY <2>3
    <2> QED BY <1>1, <2>2, <2>3 DEF Insert, Update
  <1>2. ASSUME Mark \/ Fail
        PROVE  \/ UNCHANGED tunnels
               \/ \E id \in Ids, row \in Row :
                      /\ Writes(id, row)
                      /\ ~NameTaken(id, row.name)
                      /\ tunnels' = [tunnels EXCEPT ![id] = row]
    <2>1. controller.tunnel \in Ids /\ controller.row \in Row
      BY <1>2 DEF Mark, Fail, ControllerTypeOK, Busy, Points, StorePoints
    <2>2. CASE Mark
      <3>1. Marked(controller.row, controller.observed) \in Row
        BY <2>1, <2>2, WrittenRows DEF Mark, ControllerTypeOK
      <3>2. Exists(controller.tunnel)
                => Writes(controller.tunnel,
                          Marked(controller.row, controller.observed))
        BY <2>2 DEF Mark, Writes
      <3> QED BY <2>1, <2>2, <3>1, <3>2 DEF Mark, WriteBack, UpdateTunnel,
                                               Updatable
    <2>3. CASE Fail
      <3>1. Failed(controller.row) \in Row
        BY <2>1, WrittenRows
      <3>2. Exists(controller.tunnel)
                => Writes(controller.tunnel, Failed(controller.row))
        BY <2>3 DEF Fail, Writes
      <3> QED BY <2>1, <2>3, <3>1, <3>2 DEF Fail, WriteBack, UpdateTunnel,
                                               Updatable
    <2> QED BY <1>2, <2>2, <2>3
  <1>3. ASSUME Drop, Controller
        PROVE  \/ UNCHANGED tunnels
               \/ /\ controller.pc = "drop"
                  /\ controller.tunnel \in Ids
                  /\ tunnels' = [tunnels EXCEPT ![controller.tunnel] = None]
                  /\ Controller
    <2>1. controller.tunnel \in Ids
      BY <1>3 DEF Drop, ControllerTypeOK, Busy, Points, StorePoints
    <2> QED BY <1>3, <2>1 DEF Drop, DeleteTunnel
  <1>4. CASE Api
    <2>1. PICK r \in Requests : Reject(r) \/ Ask(r) \/ Handle(r)
                                    \/ RequestStoreError(r)
      BY <1>4 DEF Api, ApiStep, Serve
    <2>2. CASE Reject(r) \/ Ask(r) \/ Adopt(r) \/ Audit(r)
                   \/ RequestStoreError(r)
      BY <2>2 DEF Reject, Ask, AskCreate, AskImport, AskUpdate, AskState,
                  AskDelete, ReadForChange, Adopt, Audit, RequestStoreError,
                  storeVars
    <2>3. CASE Withdraw(r)
      <3>1. requests[r].tunnel \in Ids /\ requests[r].pc = "withdraw"
        BY <2>3 DEF Withdraw, ApiTypeOK, InFlight
      <3>2. ~UNCHANGED requests
        BY <2>3, <3>1 DEF Withdraw, Respond, Idle, ApiTypeOK
      <3> QED BY <2>3, <3>1, <3>2 DEF Withdraw, DeleteTunnel
    <2> QED BY <2>1, <2>2, <2>3, <1>1 DEF Handle
  <1>5. CASE Controller
    <2>1. CASE Misfortune
      BY <2>1 DEF Misfortune, ProviderFails, ObserveUnhealthy,
                  ControllerStoreError, storeVars
    <2>2. CASE Progress /\ ~Mark /\ ~Fail /\ ~Drop /\ ~Resume
      BY <2>2 DEF Progress, Requeue, ListTunnels, Skip, Begin, Start,
                  RemoveSucceeds, ReconcileSucceeds, ObserveHealthy, Complete,
                  storeVars
    <2>3. CASE Resume
      BY <2>3 DEF Resume
    <2> QED BY <1>2, <1>3, <1>5, <2>1, <2>2, <2>3 DEF Controller, ControllerStep
  <1>6. CASE Crash \/ UNCHANGED vars
    BY <1>6 DEF Crash, vars, storeVars
  <1> QED BY <1>4, <1>5, <1>6 DEF Next

-----------------------------------------------------------------------------
(* No two tunnels ever have one interface name: UPDATE and INSERT are held
   back by the constraint however old the name they write is. *)
THEOREM NamesUnique == Spec => []UniqueNames
  <1>1. Init => UniqueNames
    BY DEF Init, StoreInit, UniqueNames, Exists
  <1>2. TypeOK /\ UniqueNames /\ [Next]_vars => UniqueNames'
    <2> SUFFICES ASSUME TypeOK, UniqueNames, [Next]_vars PROVE UniqueNames'
      OBVIOUS
    <2>1. CASE UNCHANGED tunnels
      BY <2>1 DEF UniqueNames, Exists
    <2>2. ASSUME NEW id \in Ids, NEW row \in Row, ~NameTaken(id, row.name),
                 tunnels' = [tunnels EXCEPT ![id] = row]
          PROVE  UniqueNames'
      BY <2>2 DEF UniqueNames, Exists, NameTaken, TypeOK, StoreTypeOK
    <2>3. ASSUME NEW id \in Ids, tunnels' = [tunnels EXCEPT ![id] = None]
          PROVE  UniqueNames'
      BY <2>3 DEF UniqueNames, Exists, TypeOK, StoreTypeOK
    <2>4. CASE ClearRetries
      BY <2>4 DEF ClearRetries, UniqueNames, Exists, TypeOK, StoreTypeOK, Row
    <2> QED BY <2>1, <2>2, <2>3, <2>4, TableSteps
  <1> QED BY <1>1, <1>2, TypeCorrect, PTL DEF Spec

-----------------------------------------------------------------------------
(* What handlers and controller know of the rows in hand. *)

(* A handler writes a row whose observation and backoff it has reset. *)
IsReset(row) == row.actual = "pending" /\ ~row.failing /\ ~row.retry

ResetInHand ==
    \A r \in Requests :
        requests[r].pc \in {"insert", "update"} => IsReset(requests[r].row)

(* The controller acts on what it has heard from the provider. *)
HeardInHand ==
    /\ controller.pc = "mark" /\ controller.observed \in Healthy
           => Report(controller.tunnel, controller.row, controller.observed)
                  \in reports
    /\ controller.pc = "drop"
           => Report(controller.tunnel, controller.row, "removed") \in reports
    /\ controller.pc = "succeed"
           => \E report \in reports : report.tunnel = controller.tunnel

LEMMA ReportsGrow == [Next]_vars => reports \subseteq reports'
  BY DEF Next, Api, ApiFrame, Controller, ControllerStep, Progress,
         Misfortune, Crash, Requeue, Resume, ListTunnels, Skip, Begin, Start,
         RemoveSucceeds, ReconcileSucceeds, ObserveHealthy, Drop, Mark, WriteBack, Fail,
         Complete, ProviderFails, ObserveUnhealthy, ControllerStoreError,
         Hear, vars

LEMMA ResetKept ==
    ASSUME TypeOK, ResetInHand, [Next]_vars
    PROVE  ResetInHand'
  <1>1. ASSUME NEW r \in Requests, Respond(r)
        PROVE  ResetInHand'
    BY <1>1 DEF Respond, Idle, ResetInHand, TypeOK, ApiTypeOK, Handler
  <1>2. ASSUME NEW r \in Requests, NEW pc, NEW action, NEW id, NEW row \in Row,
               IsReset(row), Hold(r, pc, action, id, row)
        PROVE  ResetInHand'
    BY <1>2 DEF Hold, Idle, ResetInHand, TypeOK, ApiTypeOK, Handler
  <1>3. ASSUME NEW r \in Requests, NEW pc \in {"adopt", "withdraw", "audit"},
               Advance(r, pc)
        PROVE  ResetInHand'
    BY <1>3 DEF Advance, ResetInHand, TypeOK, ApiTypeOK, Handler
  <1>4. /\ \A name \in Names, config \in Configs :
               IsReset(NewRow(name, config))
        /\ \A row \in Row, name \in Names, config \in Configs :
               IsReset(Updated(row, name, config))
        /\ \A row \in Row, desired \in DesiredStates :
               IsReset(WithDesired(row, desired))
    BY DEF NewRow, Updated, WithDesired, Reset, Row, IsReset
  <1>5. CASE Api
    <2>1. PICK r \in Requests : Reject(r) \/ Ask(r) \/ Handle(r)
                                    \/ RequestStoreError(r)
      BY <1>5 DEF Api, ApiStep, Serve
    <2>2. CASE Reject(r) \/ Handle(r) \/ RequestStoreError(r)
      BY <2>2, <1>1, <1>3 DEF Reject, Handle, Insert, Adopt, Withdraw, Update,
                              Audit, RequestStoreError
    <2>3. CASE AskCreate(r) \/ AskImport(r)
      BY <2>3, <1>2, <1>4, HandlerRows DEF AskCreate, AskImport
    <2>4. ASSUME NEW id \in Ids, NEW action, NEW row,
                 Exists(id) => row \in Row /\ IsReset(row),
                 ReadForChange(r, id, action, row)
          PROVE  ResetInHand'
      BY <2>4, <1>1, <1>2 DEF ReadForChange
    <2>5. \A id \in Ids : Exists(id) => tunnels[id] \in Row
      BY DEF TypeOK, StoreTypeOK, Exists
    <2>6. CASE AskUpdate(r)
      BY <2>4, <2>5, <2>6, <1>4, HandlerRows DEF AskUpdate
    <2>7. CASE AskState(r)
      BY <2>4, <2>5, <2>7, <1>4, HandlerRows DEF AskState, DesiredStates
    <2>8. CASE AskDelete(r)
      BY <2>4, <2>5, <2>8, <1>4, HandlerRows DEF AskDelete, DesiredStates
    <2> QED BY <2>1, <2>2, <2>3, <2>6, <2>7, <2>8 DEF Ask
  <1>6. CASE Controller \/ UNCHANGED vars
    BY <1>6 DEF Controller, ControllerFrame, vars, ResetInHand
  <1>7. CASE Crash
    BY <1>7 DEF Crash, DropRequests, InFlight, Idle, ResetInHand
  <1> QED BY <1>5, <1>6, <1>7 DEF Next

LEMMA HeardKept ==
    ASSUME TypeOK, HeardInHand, [Next]_vars
    PROVE  HeardInHand'
  <1>1. ASSUME NEW pc \in Points, Goto(pc), UNCHANGED reports,
               pc \notin {"mark", "drop", "succeed"}
        PROVE  HeardInHand'
    BY <1>1 DEF Goto, HeardInHand, TypeOK, ControllerTypeOK
  <1>2. ASSUME NEW rest, Loop(rest) PROVE HeardInHand'
    BY <1>2 DEF Loop, Started, HeardInHand
  <1>3. Return \/ Restart => HeardInHand'
    BY <1>2 DEF Return, Restart, Started, HeardInHand
  <1>4. CASE Api \/ UNCHANGED vars
    BY <1>4 DEF Api, ApiFrame, vars, HeardInHand
  <1>5. CASE Crash
    BY <1>3, <1>5 DEF Crash
  <1>6. ASSUME Misfortune PROVE HeardInHand'
    <2>1. CASE ProviderFails
      BY <2>1, <1>1 DEF ProviderFails, Points, StorePoints
    <2>2. ASSUME NEW state \in Unhealthy, ObserveUnhealthy(state)
          PROVE  HeardInHand'
      BY <2>2 DEF ObserveUnhealthy, HeardInHand, Healthy, Unhealthy, TypeOK,
                  ControllerTypeOK
    <2>3. CASE ControllerStoreError
      BY <2>3, <1>3 DEF ControllerStoreError
    <2> QED BY <1>6, <2>1, <2>2, <2>3 DEF Misfortune
  <1>7. ASSUME Progress PROVE HeardInHand'
    <2>1. CASE Requeue \/ Resume
      BY <2>1, <1>1 DEF Requeue, Resume, Points, StorePoints
    <2>2. CASE ListTunnels
      BY <2>2, <1>2 DEF ListTunnels
    <2>3. ASSUME NEW id \in Ids, Skip(id) PROVE HeardInHand'
      BY <2>3, <1>2 DEF Skip
    <2>4. ASSUME NEW id \in Ids, Begin(id) PROVE HeardInHand'
      BY <2>4 DEF Begin, HeardInHand, TypeOK, ControllerTypeOK
    <2>5. CASE Start \/ ReconcileSucceeds
      BY <2>5, <1>1 DEF Start, ReconcileSucceeds, Points, ProviderPoints
    <2>6. CASE RemoveSucceeds
      BY <2>6 DEF RemoveSucceeds, Hear, Goto, HeardInHand, TypeOK,
                  ControllerTypeOK
    <2>7. ASSUME NEW state \in Healthy, ObserveHealthy(state)
          PROVE  HeardInHand'
      BY <2>7 DEF ObserveHealthy, Hear, HeardInHand, TypeOK, ControllerTypeOK
    <2>8. CASE Drop
      <3>1. CASE Return
        BY <3>1, <1>3
      <3>2. CASE Goto("succeed")
        <4>1. Report(controller.tunnel, controller.row, "removed") \in reports
          BY <2>8 DEF Drop, HeardInHand
        <4>2. \E report \in reports : report.tunnel = controller.tunnel
          BY <4>1 DEF Report
        <4> QED BY <2>8, <3>2, <4>2 DEF Drop, Goto, HeardInHand, TypeOK,
                                        ControllerTypeOK
      <3> QED BY <2>8, <3>1, <3>2 DEF Drop
    <2>9. CASE Mark
      <3>1. CASE Return
        BY <3>1, <1>3
      <3>2. CASE Goto("fail")
        BY <2>9, <3>2, <1>1 DEF Mark, WriteBack, Points, StorePoints
      <3>3. CASE controller.observed \notin Unhealthy /\ Goto("succeed")
        <4>1. controller.observed \in Healthy
          BY <2>9, <3>3 DEF Mark, TypeOK, ControllerTypeOK
        <4>2. Report(controller.tunnel, controller.row, controller.observed)
                  \in reports
          BY <2>9, <4>1 DEF Mark, HeardInHand
        <4>3. \E report \in reports : report.tunnel = controller.tunnel
          BY <4>2 DEF Report
        <4> QED BY <2>9, <3>3, <4>3 DEF Mark, WriteBack, Goto, HeardInHand,
                                        TypeOK, ControllerTypeOK
      <3> QED BY <2>9, <3>1, <3>2, <3>3 DEF Mark, WriteBack
    <2>10. CASE Fail
      BY <2>10, <1>1, <1>3 DEF Fail, WriteBack, Points, StorePoints
    <2>11. CASE Complete
      BY <2>11, <1>3 DEF Complete
    <2> QED BY <1>7, <2>1, <2>2, <2>3, <2>4, <2>5, <2>6, <2>7, <2>8, <2>9,
               <2>10, <2>11 DEF Progress
  <1> QED BY <1>4, <1>5, <1>6, <1>7 DEF Next, Controller, ControllerStep

-----------------------------------------------------------------------------
Heard == TypeOK /\ ResetInHand /\ HeardInHand

(* The rows in hand are what the handlers and the provider made them. *)
THEOREM HeardCorrect == Spec => []Heard
  <1>1. Init => ResetInHand /\ HeardInHand
    BY DEF Init, ApiInit, Idle, ResetInHand, ControllerInit, Started,
           HeardInHand
  <1>2. TypeOK /\ ResetInHand /\ HeardInHand /\ [Next]_vars
            => ResetInHand' /\ HeardInHand'
    BY ResetKept, HeardKept
  <1> QED BY <1>1, <1>2, TypeCorrect, PTL DEF Spec, Heard

(* A record claims up or down only of what the provider has reported, under
   any interleaving of updates, stale write-backs and crashes. *)
THEOREM ClaimsCorrect == Spec => []ClaimsAreReports
  <1>1. Init => ClaimsAreReports
    BY DEF Init, StoreInit, ClaimsAreReports, Exists
  <1>2. Heard /\ ClaimsAreReports /\ [Next]_vars => ClaimsAreReports'
    <2> SUFFICES ASSUME Heard, ClaimsAreReports, [Next]_vars,
                        NEW id \in Ids, Exists(id)',
                        tunnels'[id].actual \in Healthy
                 PROVE  Report(id, tunnels'[id], tunnels'[id].actual) \in reports'
      BY DEF ClaimsAreReports, Exists, Report, Intent
    <2>1. reports \subseteq reports'
      BY ReportsGrow
    <2>2. ASSUME tunnels'[id] = tunnels[id]
          PROVE  Report(id, tunnels'[id], tunnels'[id].actual) \in reports'
      BY <2>1, <2>2 DEF ClaimsAreReports, Exists
    <2>3. ASSUME NEW i \in Ids, NEW row \in Row, Writes(i, row),
                 tunnels' = [tunnels EXCEPT ![i] = row]
          PROVE  Report(id, tunnels'[id], tunnels'[id].actual) \in reports'
      <3>1. CASE i # id
        BY <2>2, <2>3, <3>1 DEF Heard, TypeOK, StoreTypeOK
      <3>2. CASE i = id
        <4>1. tunnels'[id] = row
          BY <2>3, <3>2 DEF Heard, TypeOK, StoreTypeOK
        <4>2. row.actual \notin {"pending", "error"}
          BY <4>1 DEF Healthy
        <4>3. controller.pc \in {"mark", "fail"} => controller.row \in Row
          BY DEF Heard, TypeOK, ControllerTypeOK, Busy, Points, StorePoints
        <4>4. ~(\E r \in Requests : requests[r].pc \in {"insert", "update"}
                                         /\ row = requests[r].row)
          BY <4>2 DEF Heard, ResetInHand, IsReset
        <4>5. ASSUME controller.pc = "fail"
              PROVE  Failed(controller.row).actual = "error"
          BY <4>3, <4>5, WrittenFields
        <4>6. /\ controller.pc = "mark"
              /\ id = controller.tunnel
              /\ row = Marked(controller.row, controller.observed)
          BY <2>3, <3>2, <4>2, <4>4, <4>5 DEF Writes
        <4>7. /\ controller.observed = row.actual
              /\ Intent(row) = Intent(controller.row)
          BY <4>3, <4>6, WrittenFields DEF Heard, TypeOK, ControllerTypeOK
        <4>8. Report(controller.tunnel, controller.row, controller.observed)
                  \in reports
          BY <4>1, <4>6, <4>7 DEF Heard, HeardInHand
        <4> QED BY <2>1, <4>1, <4>6, <4>7, <4>8 DEF Report
      <3> QED BY <3>1, <3>2
    <2>4. CASE UNCHANGED tunnels
      BY <2>2, <2>4
    <2>5. CASE \E i : tunnels' = [tunnels EXCEPT ![i] = None]
      BY <2>2, <2>5 DEF Heard, TypeOK, StoreTypeOK, Exists
    <2>6. CASE ClearRetries
      <3>1. Exists(id) /\ tunnels[id] \in Row
        BY <2>6 DEF ClearRetries, Exists, Heard, TypeOK, StoreTypeOK
      <3>2. tunnels'[id].actual = tunnels[id].actual
                /\ Intent(tunnels'[id]) = Intent(tunnels[id])
        BY <2>6, <3>1 DEF ClearRetries, Row, Intent
      <3> QED BY <2>1, <3>1, <3>2 DEF ClaimsAreReports, Report
    <2> QED BY <2>3, <2>4, <2>5, <2>6, TableSteps DEF Heard
  <1> QED BY <1>1, <1>2, HeardCorrect, PTL DEF Spec

-----------------------------------------------------------------------------
(* All that a step can do to the table operations. *)
LEMMA OperationSteps ==
    ASSUME TypeOK, [Next]_vars
    PROVE  \/ UNCHANGED operations
           \/ \E r \in Requests :
                  /\ requests[r].pc = "audit"
                  /\ Respond(r)
                  /\ CreateOperation(r, requests[r].tunnel, requests[r].action)
           \/ /\ controller.tunnel \in Ids
              /\ UNCHANGED requests
              /\ \/ MarkOperationsRunning(controller.tunnel)
                 \/ /\ controller.pc = "succeed"
                    /\ CompleteOperations(controller.tunnel, "success")
                 \/ CompleteOperations(controller.tunnel, "failed")
           \/ RequeueRunning /\ UNCHANGED requests
  <1>1. CASE Api
    <2>1. PICK r \in Requests : Reject(r) \/ Ask(r) \/ Handle(r)
                                    \/ RequestStoreError(r)
      BY <1>1 DEF Api, ApiStep, Serve
    <2> QED BY <2>1 DEF Reject, Ask, AskCreate, AskImport, AskUpdate, AskState,
                        AskDelete, ReadForChange, Handle, Insert, Adopt,
                        Withdraw, Update, Audit, RequestStoreError, storeVars
  <1>2. CASE Controller
    <2>1. CASE Start \/ Complete
      <3>1. controller.tunnel \in Ids
        BY <2>1 DEF Start, Complete, TypeOK, ControllerTypeOK, Busy, Points,
                    StorePoints
      <3> QED BY <1>2, <2>1, <3>1 DEF Start, Complete, Controller, ControllerFrame
    <2>2. CASE Misfortune
      BY <2>2 DEF Misfortune, ProviderFails, ObserveUnhealthy,
                  ControllerStoreError, storeVars
    <2>3. CASE Progress /\ ~Start /\ ~Complete
      BY <1>2, <2>3 DEF Progress, Controller, ControllerFrame, Requeue,
                        Resume, ListTunnels, Skip, Begin, RemoveSucceeds,
                        ReconcileSucceeds,
                        ObserveHealthy, Drop, Mark, WriteBack, Fail, storeVars
    <2> QED BY <1>2, <2>1, <2>2, <2>3 DEF Controller, ControllerStep
  <1>3. CASE Crash \/ UNCHANGED vars
    BY <1>3 DEF Crash, vars, storeVars
  <1> QED BY <1>1, <1>2, <1>3 DEF Next

(* No operation is a success unless the provider has reported its tunnel. *)
THEOREM SuccessCorrect == Spec => []SuccessIsReported
  <1>1. Init => SuccessIsReported
    BY DEF Init, StoreInit, SuccessIsReported
  <1>2. Heard /\ SuccessIsReported /\ [Next]_vars => SuccessIsReported'
    <2> SUFFICES ASSUME Heard, SuccessIsReported, [Next]_vars,
                        NEW o \in Requests, operations'[o] # None,
                        operations'[o].status = "success"
                 PROVE  \E report \in reports' :
                            report.tunnel = operations'[o].tunnel
      BY DEF SuccessIsReported
    <2>1. reports \subseteq reports'
      BY ReportsGrow
    <2>2. ASSUME operations[o] # None, operations[o].status = "success",
                 operations'[o].tunnel = operations[o].tunnel
          PROVE  \E report \in reports' : report.tunnel = operations'[o].tunnel
      BY <2>1, <2>2 DEF SuccessIsReported
    <2>3. operations \in [Requests -> Operation \cup {None}]
      BY DEF Heard, TypeOK, StoreTypeOK
    <2>4. CASE UNCHANGED operations
      BY <2>2, <2>4
    <2>5. ASSUME NEW r \in Requests,
                 CreateOperation(r, requests[r].tunnel, requests[r].action)
          PROVE  \E report \in reports' : report.tunnel = operations'[o].tunnel
      BY <2>2, <2>3, <2>5 DEF CreateOperation
    <2>6. CASE \/ MarkOperationsRunning(controller.tunnel)
               \/ CompleteOperations(controller.tunnel, "failed")
               \/ RequeueRunning
      BY <2>2, <2>3, <2>6 DEF MarkOperationsRunning, CompleteOperations,
                              RequeueRunning, SetStatus, Of, Recorded,
                              Unfinished, Operation
    <2>7. CASE /\ controller.pc = "succeed"
               /\ CompleteOperations(controller.tunnel, "success")
      <3>1. CASE operations'[o] = operations[o]
        BY <2>2, <3>1
      <3>2. CASE operations'[o] # operations[o]
        <4>1. operations'[o].tunnel = controller.tunnel
          BY <2>3, <2>7, <3>2 DEF CompleteOperations, SetStatus, Of,
                                    Recorded, Operation
        <4> QED BY <2>1, <2>7, <4>1 DEF Heard, HeardInHand
      <3> QED BY <3>1, <3>2
    <2> QED BY <2>4, <2>5, <2>6, <2>7, OperationSteps DEF Heard
  <1> QED BY <1>1, <1>2, HeardCorrect, PTL DEF Spec

(* No record is dropped before the provider has removed its link, but by the
   import that could not adopt one. *)
THEOREM DropsCorrect == Spec => DroppedAfterRemoval
  <1>1. ASSUME Heard, [Next]_vars, NEW id \in Ids, Exists(id), ~Exists(id)'
        PROVE  \/ \E r \in Requests :
                      requests[r].pc = "withdraw" /\ requests[r].tunnel = id
               \/ \E report \in reports :
                      report.tunnel = id /\ report.state = "removed"
    <2>1. tunnels'[id] = None /\ tunnels[id] # None
      BY <1>1 DEF Exists
    <2>2. tunnels \in [Ids -> Row \cup {None}]
      BY <1>1 DEF Heard, TypeOK, StoreTypeOK
    <2>3. ~(\E i \in Ids, row \in Row : tunnels' = [tunnels EXCEPT ![i] = row])
      BY <2>1, <2>2, NoneIsNoRow
    <2>4. ~ClearRetries
      <3>1. [tunnels[id] EXCEPT !.retry = FALSE] \in Row
        BY <2>1, <2>2, WrittenRows
      <3>2. ClearRetries => tunnels'[id] = [tunnels[id] EXCEPT !.retry = FALSE]
        BY <2>1 DEF ClearRetries, Exists
      <3> QED BY <2>1, <3>1, <3>2, NoneIsNoRow
    <2>5. \A i : tunnels' = [tunnels EXCEPT ![i] = None] => i = id
      BY <2>1, <2>2
    <2>6. CASE /\ controller.pc = "drop"
               /\ tunnels' = [tunnels EXCEPT ![controller.tunnel] = None]
      <3>1. Report(id, controller.row, "removed") \in reports
        BY <1>1, <2>5, <2>6 DEF Heard, HeardInHand
      <3> QED BY <3>1 DEF Report
    <2> QED BY <1>1, <2>1, <2>3, <2>4, <2>5, <2>6, TableSteps DEF Heard
  <1>2. Heard /\ [Next]_vars
            => [\A id \in Ids :
                   Exists(id) /\ ~Exists(id)'
                       => \/ \E r \in Requests :
                                 requests[r].pc = "withdraw" /\ requests[r].tunnel = id
                          \/ \E report \in reports :
                                 report.tunnel = id /\ report.state = "removed"]_vars
    BY <1>1
  <1> QED BY <1>2, HeardCorrect, PTL DEF Spec, DroppedAfterRemoval

-----------------------------------------------------------------------------
(* Backoff: a row and every copy of it agree on what went before. *)
CarriesNothingStale(row) ==
    /\ row.retry => row.failing
    /\ row.actual \in Healthy \cup {"pending"} => ~row.failing

CopiesCarryNothingStale ==
    /\ \A id \in Ids :
           controller.pending[id] # None
               => CarriesNothingStale(controller.pending[id])
    /\ controller.pc \in Busy => CarriesNothingStale(controller.row)

(* A write-back carries nothing stale if the copy it starts from does not. *)
LEMMA WrittenBackRows ==
    ASSUME NEW row \in Row, CarriesNothingStale(row)
    PROVE  /\ \A state \in Healthy \cup Unhealthy :
                  CarriesNothingStale(Marked(row, state))
           /\ CarriesNothingStale(Failed(row))
           /\ CarriesNothingStale([row EXCEPT !.retry = FALSE])
  <1>1. ASSUME NEW state \in Healthy
        PROVE  CarriesNothingStale(Marked(row, state))
    BY DEF Marked, Row, CarriesNothingStale
  <1>2. ASSUME NEW state \in Unhealthy
        PROVE  CarriesNothingStale(Marked(row, state))
    BY DEF Marked, Row, CarriesNothingStale, Healthy, Unhealthy
  <1>3. CarriesNothingStale(Failed(row))
    BY WrittenFields DEF CarriesNothingStale, Healthy
  <1>4. CarriesNothingStale([row EXCEPT !.retry = FALSE])
    BY DEF Row, CarriesNothingStale
  <1> QED BY <1>1, <1>2, <1>3, <1>4

(* The controller's copies come from the table. *)
LEMMA CopiesKept ==
    ASSUME TypeOK, BackoffMatchesHistory, CopiesCarryNothingStale, [Next]_vars
    PROVE  CopiesCarryNothingStale'
  <1> USE DEF CopiesCarryNothingStale
  <1>1. ASSUME NEW pc, Goto(pc), pc \in Busy => controller.pc \in Busy
        PROVE  CopiesCarryNothingStale'
    BY <1>1 DEF Goto, TypeOK, ControllerTypeOK, CarriesNothingStale
  <1>2. ASSUME NEW rest, Loop(rest),
               \A id \in Ids : rest[id] # None => CarriesNothingStale(rest[id])
        PROVE  CopiesCarryNothingStale'
    BY <1>2 DEF Loop, Started, Busy, CarriesNothingStale
  <1>3. Return => CopiesCarryNothingStale'
    BY <1>2 DEF Return
  <1>4. CASE Api \/ UNCHANGED vars
    BY <1>4 DEF Api, ApiFrame, vars, CarriesNothingStale
  <1>5. CASE Crash
    BY <1>5 DEF Crash, Restart, Started, NoTunnels, Busy
  <1>b. {"start", "reconcile", "observe", "remove", "drop", "mark", "fail",
         "succeed", "give_up"} = Busy
    BY DEF Busy, Points, StorePoints, ProviderPoints
  <1>6. ASSUME Misfortune PROVE CopiesCarryNothingStale'
    <2>1. CASE ProviderFails
      BY <2>1, <1>1, <1>b DEF ProviderFails, ProviderPoints
    <2>2. ASSUME NEW state \in Unhealthy, ObserveUnhealthy(state)
          PROVE  CopiesCarryNothingStale'
      BY <2>2, <1>b DEF ObserveUnhealthy, TypeOK, ControllerTypeOK,
                        CarriesNothingStale
    <2>3. CASE ControllerStoreError
      BY <2>3, <1>3 DEF ControllerStoreError
    <2> QED BY <1>6, <2>1, <2>2, <2>3 DEF Misfortune
  <1>7. ASSUME Progress PROVE CopiesCarryNothingStale'
    <2>1. CASE Requeue \/ Resume
      BY <2>1, <1>1, <1>b DEF Requeue, Resume
    <2>2. CASE ListTunnels
      BY <2>2, <1>2 DEF ListTunnels, BackoffMatchesHistory, Exists,
                        CarriesNothingStale
    <2>3. ASSUME NEW id \in Ids, Skip(id) PROVE CopiesCarryNothingStale'
      BY <2>3, <1>2 DEF Skip, Rest, TypeOK, ControllerTypeOK
    <2>4. ASSUME NEW id \in Ids, Begin(id) PROVE CopiesCarryNothingStale'
      BY <2>4 DEF Begin, InPass, Rest, TypeOK, ControllerTypeOK,
                  CarriesNothingStale
    <2>5. CASE Start \/ RemoveSucceeds \/ ReconcileSucceeds
      BY <2>5, <1>1, <1>b DEF Start, RemoveSucceeds, ReconcileSucceeds
    <2>6. ASSUME NEW state \in Healthy, ObserveHealthy(state)
          PROVE  CopiesCarryNothingStale'
      BY <2>6, <1>b DEF ObserveHealthy, TypeOK, ControllerTypeOK,
                        CarriesNothingStale
    <2>7. CASE Drop \/ Mark \/ Fail \/ Complete
      BY <2>7, <1>1, <1>3, <1>b DEF Drop, Mark, Fail, WriteBack, Complete
    <2> QED BY <1>7, <2>1, <2>2, <2>3, <2>4, <2>5, <2>6, <2>7 DEF Progress
  <1> QED BY <1>4, <1>5, <1>6, <1>7 DEF Next, Controller, ControllerStep

(* A row in backoff has failed; a row observed or changed since has no
   failures left, however stale the copy that was written back. *)
THEOREM BackoffCorrect == Spec => []BackoffMatchesHistory
  <1>1. Init => BackoffMatchesHistory /\ CopiesCarryNothingStale
    BY DEF Init, StoreInit, ControllerInit, Started, NoTunnels, Busy, Exists,
           BackoffMatchesHistory, CopiesCarryNothingStale
  <1>2. Heard /\ BackoffMatchesHistory /\ CopiesCarryNothingStale /\ [Next]_vars
            => BackoffMatchesHistory'
    <2> SUFFICES ASSUME Heard, BackoffMatchesHistory, CopiesCarryNothingStale,
                        [Next]_vars
                 PROVE  \A id \in Ids :
                            tunnels'[id] # None => CarriesNothingStale(tunnels'[id])
      BY DEF BackoffMatchesHistory, CarriesNothingStale, Exists
    <2>1. /\ tunnels \in [Ids -> Row \cup {None}]
          /\ \A id \in Ids :
                 tunnels[id] # None => CarriesNothingStale(tunnels[id])
      BY DEF Heard, TypeOK, StoreTypeOK, BackoffMatchesHistory, Exists,
             CarriesNothingStale
    <2>2. ASSUME NEW id \in Ids, NEW row \in Row, Writes(id, row)
          PROVE  CarriesNothingStale(row)
      <3>1. CASE \E r \in Requests :
                     /\ requests[r].pc \in {"insert", "update"}
                     /\ row = requests[r].row
        BY <3>1 DEF Heard, ResetInHand, IsReset, CarriesNothingStale
      <3>2. ASSUME controller.pc \in {"mark", "fail"}
            PROVE  controller.row \in Row /\ CarriesNothingStale(controller.row)
        BY <3>2 DEF Heard, TypeOK, ControllerTypeOK, CopiesCarryNothingStale,
                    Busy, Points, StorePoints
      <3>3. controller.pc = "mark" => controller.observed \in Healthy \cup Unhealthy
        BY DEF Heard, TypeOK, ControllerTypeOK
      <3> QED BY <2>2, <3>1, <3>2, <3>3, WrittenBackRows DEF Writes
    <2>3. CASE ClearRetries
      <3>1. \A id \in Ids : tunnels'[id] # None
                => /\ tunnels[id] \in Row
                   /\ tunnels[id] # None
                   /\ tunnels'[id] = [tunnels[id] EXCEPT !.retry = FALSE]
        BY <2>1, <2>3 DEF ClearRetries, Exists
      <3> QED BY <2>1, <3>1, WrittenBackRows
    <2> QED BY <2>1, <2>2, <2>3, TableSteps DEF Heard
  <1>3. Heard /\ BackoffMatchesHistory /\ CopiesCarryNothingStale /\ [Next]_vars
            => CopiesCarryNothingStale'
    BY CopiesKept DEF Heard
  <1> QED BY <1>1, <1>2, <1>3, HeardCorrect, PTL DEF Spec
=============================================================================
