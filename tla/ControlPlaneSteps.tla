-------------------------- MODULE ControlPlaneSteps --------------------------
(***************************************************************************)
(* What a step of ControlPlane may do, proved for every number of requests *)
(* and names: the controller keeps what was asked for wherever no handler  *)
(* has written behind its back, a deletion stands, and the operation       *)
(* records implement OperationLog.                                         *)
(***************************************************************************)
EXTENDS ControlPlaneSafety

(* Away from the rows handlers have written since, the controller's copies
   still say what the table says, and it removes only what is to go. *)
CopiesMatch ==
    /\ \A id \in Ids \ touched :
           controller.pending[id] # None /\ Exists(id)
               => Intent(controller.pending[id]) = Intent(tunnels[id])
    /\ controller.pc \in Busy /\ controller.tunnel \notin touched
               /\ Exists(controller.tunnel)
           => Intent(controller.row) = Intent(tunnels[controller.tunnel])
    /\ controller.pc \in {"remove", "drop"}
           => controller.row.desired = "deleted"
    /\ controller.pc \in {"boot", "resume", "list"}
           => controller.pending = NoTunnels

(* A step of the controller keeps what was asked for, or drops what is to
   go, outside the rows touched. *)
LEMMA ControllerKeepsIntents ==
    ASSUME Heard, CopiesMatch, [Next]_vars, UNCHANGED requests,
           NEW id \in Ids \ touched, Exists(id)
    PROVE  IF Exists(id)'
           THEN Intent(tunnels'[id]) = Intent(tunnels[id])
           ELSE /\ tunnels[id].desired = "deleted"
                /\ Report(id, tunnels[id], "removed") \in reports
  <1>1. tunnels \in [Ids -> Row \cup {None}] /\ tunnels[id] \in Row
    BY DEF Heard, TypeOK, StoreTypeOK, Exists
  <1>2. CASE tunnels'[id] = tunnels[id]
    BY <1>2 DEF Exists
  <1>3. ASSUME NEW i \in Ids, NEW row \in Row, Writes(i, row),
               tunnels' = [tunnels EXCEPT ![i] = row]
        PROVE  tunnels'[id] \in Row /\ Intent(tunnels'[id]) = Intent(tunnels[id])
    <2>1. CASE i # id
      BY <1>1, <1>3, <2>1
    <2>2. CASE i = id
      <3>1. /\ controller.pc \in Busy
            /\ controller.tunnel = id
            /\ controller.row \in Row
        BY <1>3, <2>2 DEF Writes, Busy, Points, StorePoints, Heard, TypeOK,
                          ControllerTypeOK
      <3>2. Intent(row) = Intent(controller.row)
        BY <1>3, <3>1, WrittenFields DEF Writes, Heard, TypeOK, ControllerTypeOK
      <3> QED BY <1>1, <1>3, <2>2, <3>1, <3>2 DEF CopiesMatch
    <2> QED BY <2>1, <2>2
  <1>4. CASE /\ controller.pc = "drop"
             /\ tunnels' = [tunnels EXCEPT ![controller.tunnel] = None]
    <2>1. CASE controller.tunnel # id
      BY <1>2, <1>4, <2>1, <1>1
    <2>2. CASE controller.tunnel = id
      <3>1. ~Exists(id)'
        BY <1>1, <1>4, <2>2 DEF Exists
      <3>2. Intent(controller.row) = Intent(tunnels[id])
                /\ controller.row.desired = "deleted"
        BY <1>4, <2>2 DEF CopiesMatch, Busy, Points, StorePoints
      <3>3. tunnels[id].desired = "deleted"
        BY <3>2 DEF Intent
      <3>4. Report(id, controller.row, "removed") \in reports
        BY <1>4, <2>2 DEF Heard, HeardInHand
      <3> QED BY <3>1, <3>2, <3>3, <3>4 DEF Report
    <2> QED BY <2>1, <2>2
  <1>5. CASE ClearRetries
    <2>1. tunnels'[id] = [tunnels[id] EXCEPT !.retry = FALSE]
      BY <1>5 DEF ClearRetries
    <2>2. tunnels'[id] \in Row /\ Intent(tunnels'[id]) = Intent(tunnels[id])
      BY <1>1, <2>1, WrittenRows DEF Intent, Row
    <2> QED BY <2>2, NoneIsNoRow DEF Exists
  <1>6. UNCHANGED tunnels => tunnels'[id] = tunnels[id]
    OBVIOUS
  <1> QED BY <1>2, <1>3, <1>4, <1>5, <1>6, TableSteps, NoneIsNoRow
          DEF Heard, Exists

LEMMA CopiesMatchKept ==
    ASSUME Heard, CopiesMatch, [Next]_vars
    PROVE  CopiesMatch'
  <1> USE DEF CopiesMatch
  <1>1. CASE Api
    BY <1>1 DEF Api, ApiFrame, Exists, Heard, TypeOK, ControllerTypeOK, Busy
  <1>2. CASE UNCHANGED vars
    BY <1>2 DEF vars, storeVars, Exists
  <1>3. CASE Crash
    BY <1>3 DEF Crash, Restart, Started, NoTunnels, Busy
  <1>4. ASSUME Controller, controller.pc # "list"
        PROVE  CopiesMatch'
    <2>1. touched' = touched /\ UNCHANGED requests
      BY <1>4 DEF Controller, ControllerFrame
    <2>2. \A id \in Ids \ touched : Exists(id) /\ Exists(id)'
              => Intent(tunnels'[id]) = Intent(tunnels[id])
      BY <2>1, ControllerKeepsIntents
    <2>3. \A id \in Ids : Exists(id)' => Exists(id)
      <3>1. tunnels \in [Ids -> Row \cup {None}]
        BY DEF Heard, TypeOK, StoreTypeOK
      <3>2. \A id \in Ids, row \in Row : Writes(id, row) => Exists(id)
        BY <2>1 DEF Writes
      <3>3. CASE ClearRetries
        BY <3>3 DEF ClearRetries, Exists
      <3> QED BY <3>1, <3>2, <3>3, TableSteps DEF Exists, Heard
    <2>4. ASSUME NEW pc, Goto(pc),
                 pc \in Busy => controller.pc \in Busy,
                 pc \in {"remove", "drop"} => controller.row.desired = "deleted",
                 pc \in {"resume", "list"} => controller.pc \in {"boot", "resume"},
                 pc # "boot"
          PROVE  CopiesMatch'
      BY <2>1, <2>2, <2>3, <2>4
         DEF Goto, Heard, TypeOK, ControllerTypeOK, Busy
    <2>5. ASSUME NEW rest, Loop(rest),
                 \A id \in Ids : rest[id] \in {None, controller.pending[id]}
          PROVE  CopiesMatch'
      BY <2>1, <2>2, <2>3, <2>5 DEF Loop, Started, Busy, NoTunnels
    <2>6. Return => CopiesMatch'
      BY <2>5 DEF Return
    <2>b. {"start", "reconcile", "observe", "remove", "drop", "mark", "fail",
           "succeed", "give_up"} = Busy
      BY DEF Busy, Points, StorePoints, ProviderPoints
    <2>7. ASSUME Misfortune PROVE CopiesMatch'
      <3>1. CASE ProviderFails
        BY <3>1, <2>4, <2>b DEF ProviderFails, ProviderPoints
      <3>2. ASSUME NEW state \in Unhealthy, ObserveUnhealthy(state)
            PROVE  CopiesMatch'
        BY <2>1, <2>2, <2>3, <2>b, <3>2
           DEF ObserveUnhealthy, Heard, TypeOK, ControllerTypeOK
      <3>3. CASE ControllerStoreError
        BY <3>3, <2>6 DEF ControllerStoreError
      <3> QED BY <2>7, <3>1, <3>2, <3>3 DEF Misfortune
    <2>8. ASSUME Progress PROVE CopiesMatch'
      <3>1. CASE Requeue \/ Resume
        BY <3>1, <2>4, <2>b DEF Requeue, Resume
      <3>2. ASSUME NEW id \in Ids, Skip(id) PROVE CopiesMatch'
        BY <3>2, <2>5 DEF Skip, Rest, Heard, TypeOK, ControllerTypeOK
      <3>3. ASSUME NEW id \in Ids, Begin(id) PROVE CopiesMatch'
        BY <2>1, <2>2, <2>3, <2>b, <3>3
           DEF Begin, InPass, Rest, Heard, TypeOK, ControllerTypeOK
      <3>4. CASE Start \/ ReconcileSucceeds \/ RemoveSucceeds
        BY <3>4, <2>4, <2>b DEF Start, ReconcileSucceeds, RemoveSucceeds
      <3>5. ASSUME NEW state \in Healthy, ObserveHealthy(state)
            PROVE  CopiesMatch'
        BY <2>1, <2>2, <2>3, <2>b, <3>5
           DEF ObserveHealthy, Heard, TypeOK, ControllerTypeOK
      <3>6. CASE Drop \/ Mark \/ Fail \/ Complete
        BY <3>6, <2>4, <2>6, <2>b DEF Drop, Mark, Fail, WriteBack, Complete
      <3> QED BY <1>4, <2>8, <3>1, <3>2, <3>3, <3>4, <3>5, <3>6
              DEF Progress, ListTunnels
    <2> QED BY <1>4, <2>7, <2>8 DEF Controller, ControllerStep
  <1>5. ASSUME Controller, controller.pc = "list"
        PROVE  CopiesMatch'
    <2>1. touched' = {}
      BY <1>5 DEF Controller, ControllerFrame
    <2>2. UNCHANGED tunnels /\ \E rest : Loop(rest) /\ rest \in {tunnels, NoTunnels}
      BY <1>5 DEF Controller, ControllerStep, Progress, Misfortune, Requeue,
                  Resume, ListTunnels, Skip, Begin, InPass, Start,
                  RemoveSucceeds, ReconcileSucceeds, ObserveHealthy, Drop,
                  Mark, Fail, Complete, ProviderFails, ProviderPoints,
                  ObserveUnhealthy, ControllerStoreError, Return, storeVars
    <2> QED BY <2>1, <2>2 DEF Loop, Started, Busy, NoTunnels, Exists
  <1> QED BY <1>1, <1>2, <1>3, <1>4, <1>5 DEF Next

(* What the controller is to write back of a row no handler has touched is
   what the table says. *)
THEOREM CopiesCorrect == Spec => []CopiesMatch
  <1>1. Init => CopiesMatch
    BY DEF Init, ControllerInit, Started, NoTunnels, Busy, CopiesMatch
  <1>2. Heard /\ CopiesMatch /\ [Next]_vars => CopiesMatch'
    BY CopiesMatchKept
  <1> QED BY <1>1, <1>2, HeardCorrect, PTL DEF Spec

(* The controller changes what was asked for, or drops what was not to go,
   only where a handler has written since the list was taken. *)
THEOREM DisturbanceCorrect == Spec => DisturbsOnlyByRace
  <1>1. Heard /\ CopiesMatch /\ [Next]_vars
            => [UNCHANGED requests =>
                   \A id \in Ids \ touched :
                       Exists(id) =>
                           IF Exists(id)'
                           THEN Intent(tunnels[id])' = Intent(tunnels[id])
                           ELSE /\ tunnels[id].desired = "deleted"
                                /\ Report(id, tunnels[id], "removed") \in reports]_vars
    BY ControllerKeepsIntents DEF Intent
  <1> QED BY <1>1, CopiesCorrect, HeardCorrect, PTL DEF Spec, DisturbsOnlyByRace

-----------------------------------------------------------------------------
(* A deletion stands. *)

(* A row is made by its own request, once. *)
RowsFollowRequests ==
    \A r \in Requests :
        /\ requests[r].pc \in {"idle", "insert"} => ~Exists(r)
        /\ requests[r].pc = "insert" => requests[r].tunnel = r

LEMMA RowsFollowKept ==
    ASSUME TypeOK, RowsFollowRequests, [Next]_vars
    PROVE  RowsFollowRequests'
  <1> USE DEF TypeOK, StoreTypeOK, ApiTypeOK, Ids
  <1>1. ASSUME NEW r \in Requests, requests'[r].pc \in {"idle", "insert"}
        PROVE  /\ requests[r].pc \in {"idle", "insert"}
               /\ requests'[r].pc = "insert" => requests'[r].tunnel = r
    <2>1. CASE requests'[r] = requests[r]
      BY <1>1, <2>1 DEF RowsFollowRequests
    <2>2. ASSUME NEW s \in Requests,
                 \/ Respond(s)
                 \/ \E pc \in {"adopt", "withdraw", "audit"} : Advance(s, pc)
                 \/ \E i, action, row : Hold(s, "update", action, i, row)
          PROVE  requests'[r] = requests[r]
      <3>1. Respond(s) => requests'[r] = requests[r]
        BY <1>1 DEF Respond, Idle
      <3>2. \A pc \in {"adopt", "withdraw", "audit"} :
                Advance(s, pc) => requests'[r] = requests[r]
        BY <1>1 DEF Advance, Handler
      <3>3. \A i, action, row :
                Hold(s, "update", action, i, row) => requests'[r] = requests[r]
        BY <1>1 DEF Hold, Idle
      <3> QED BY <2>2, <3>1, <3>2, <3>3
    <2>3. ASSUME NEW s \in Requests, requests[s].pc = "idle",
                 \E action, row : Hold(s, "insert", action, s, row)
          PROVE  \/ requests'[r] = requests[r]
                 \/ /\ requests[r].pc = "idle"
                    /\ requests'[r].tunnel = r
      BY <2>3 DEF Hold, Idle
    <2>4. CASE DropRequests
      BY <1>1, <2>1, <2>4 DEF DropRequests, Idle
    <2>5. ASSUME NEW s \in Requests, AskCreate(s) \/ AskImport(s)
          PROVE  \/ requests'[r] = requests[r]
                 \/ /\ requests[r].pc = "idle"
                    /\ requests'[r].tunnel = r
      BY <2>3, <2>5 DEF AskCreate, AskImport
    <2>6. ASSUME NEW s \in Requests, AskUpdate(s) \/ AskState(s) \/ AskDelete(s)
          PROVE  requests'[r] = requests[r]
      BY <2>2, <2>6 DEF AskUpdate, AskState, AskDelete, ReadForChange
    <2>7. ASSUME NEW s \in Requests,
                 Reject(s) \/ Handle(s) \/ RequestStoreError(s)
          PROVE  requests'[r] = requests[r]
      BY <2>2, <2>7 DEF Reject, Handle, Insert, Adopt, Withdraw, Update, Audit,
                        RequestStoreError
    <2> QED BY <1>1, <2>1, <2>4, <2>5, <2>6, <2>7
        DEF Next, Api, ApiStep, Serve, Ask, Controller, ControllerFrame, Crash,
            vars
  <1>2. ASSUME NEW r \in Requests, Exists(r)', ~Exists(r)
        PROVE  requests'[r].pc \notin {"idle", "insert"}
    <2>1. ASSUME NEW i \in Ids, NEW row \in Row,
                 tunnels' = [tunnels EXCEPT ![i] = row]
          PROVE  i = r
      BY <1>2, <2>1 DEF Exists
    <2>2. ASSUME NEW s \in Requests, Insert(s)
          PROVE  requests'[r].pc \notin {"idle", "insert"}
      <3>1. CASE UNCHANGED tunnels
        BY <1>2, <3>1 DEF Exists
      <3>2. CASE \E pc \in {"adopt", "audit"} : Advance(s, pc)
        <4>1. requests[s].tunnel = s /\ requests[s].row \in Row
          BY <2>2 DEF Insert, RowsFollowRequests, InFlight
        <4>2. UNCHANGED tunnels \/ r = s
          BY <2>1, <2>2, <4>1 DEF Insert, CreateTunnel
        <4> QED BY <3>1, <3>2, <4>2 DEF Advance, Handler
      <3> QED BY <2>2, <3>1, <3>2 DEF Insert
    <2>3. ~(\E id, row : UpdateTunnel(id, row) \/ DeleteTunnel(id))
      BY <1>2 DEF UpdateTunnel, Updatable, DeleteTunnel, Exists
    <2>4. ~UNCHANGED tunnels /\ ~ClearRetries
      BY <1>2 DEF Exists, ClearRetries
    <2> QED BY <2>2, <2>3, <2>4
        DEF Next, Api, ApiStep, Serve, Reject, Ask, AskCreate, AskImport,
            AskUpdate, AskState, AskDelete, ReadForChange, Handle, Adopt,
            Withdraw, Update, Audit, RequestStoreError, Controller,
            ControllerStep, Progress, Misfortune, Requeue, Resume, ListTunnels,
            Skip, Begin, Start, RemoveSucceeds, ReconcileSucceeds,
            ObserveHealthy, Drop, Mark, Fail, WriteBack, Complete,
            ProviderFails, ObserveUnhealthy, ControllerStoreError, Crash, vars,
            storeVars
  <1> QED BY <1>1, <1>2 DEF RowsFollowRequests

(* Whoever writes the row of a withdrawn tunnel writes a deletion. *)
LEMMA RowStaysWithdrawn ==
    ASSUME TypeOK, RowsFollowRequests, [Next]_vars,
           NEW id \in Ids, Withdrawn(id), Exists(id)'
    PROVE  tunnels'[id].desired = "deleted"
  <1>1. tunnels \in [Ids -> Row \cup {None}] /\ tunnels[id] \in Row
    BY DEF TypeOK, StoreTypeOK, Withdrawn, Exists
  <1>2. CASE tunnels'[id] = tunnels[id]
    BY <1>2 DEF Withdrawn
  <1>3. ASSUME NEW i \in Ids, NEW row \in Row, Writes(i, row),
               tunnels' = [tunnels EXCEPT ![i] = row]
        PROVE  tunnels'[id].desired = "deleted"
    <2>1. CASE i # id
      BY <1>1, <1>2, <1>3, <2>1
    <2>2. CASE i = id
      <3>1. ASSUME NEW r \in Requests, requests[r].pc \in {"insert", "update"},
                   requests[r].tunnel = id, row = requests[r].row
            PROVE  row.desired = "deleted"
        BY <3>1 DEF RowsFollowRequests, Withdrawn
      <3>2. ASSUME controller.tunnel = id,
                   \/ /\ controller.pc = "mark"
                      /\ row = Marked(controller.row, controller.observed)
                   \/ controller.pc = "fail" /\ row = Failed(controller.row)
            PROVE  row.desired = "deleted"
        <4>1. controller.pc \in Busy /\ controller.row \in Row
          BY <3>2 DEF Busy, Points, StorePoints, TypeOK, ControllerTypeOK
        <4>2. Intent(row) = Intent(controller.row)
          BY <3>2, <4>1, WrittenFields DEF TypeOK, ControllerTypeOK
        <4> QED BY <3>2, <4>1, <4>2 DEF Withdrawn, Intent
      <3> QED BY <1>1, <1>3, <2>2, <3>1, <3>2 DEF Writes
    <2> QED BY <2>1, <2>2
  <1>4. ASSUME NEW i, tunnels' = [tunnels EXCEPT ![i] = None]
        PROVE  tunnels'[id] = tunnels[id]
    BY <1>1, <1>4 DEF Exists
  <1>5. CASE ClearRetries
    BY <1>1, <1>5 DEF ClearRetries, Withdrawn, Row
  <1> QED BY <1>2, <1>3, <1>4, <1>5, TableSteps

(* No handler takes up such a row, and no pass finds it otherwise. *)
LEMMA WithdrawnKept ==
    ASSUME TypeOK, RowsFollowRequests, [Next]_vars,
           NEW id \in Ids, Withdrawn(id), Exists(id)'
    PROVE  Withdrawn(id)'
  <1>1. tunnels'[id].desired = "deleted"
    BY RowStaysWithdrawn
  <1>2. ASSUME NEW r \in Requests, requests'[r].pc = "update",
               requests'[r].tunnel = id
        PROVE  requests'[r].row.desired = "deleted"
    <2>1. CASE requests'[r] = requests[r]
      BY <1>2, <2>1 DEF Withdrawn
    <2>2. ASSUME NEW s \in Requests, NEW i, NEW action, NEW row,
                 ReadForChange(s, i, action, row)
          PROVE  requests'[r] = requests[r]
      BY <1>2, <2>2 DEF ReadForChange, Hold, Respond, Idle, Withdrawn, TypeOK,
                        ApiTypeOK, Handler
    <2>3. \A s \in Requests : Respond(s) => requests'[r] = requests[r]
      BY <1>2 DEF Respond, Idle, TypeOK, ApiTypeOK, Handler
    <2>4. \A s \in Requests, pc \in {"adopt", "audit", "withdraw"} :
              Advance(s, pc) => requests'[r] = requests[r]
      BY <1>2 DEF Advance, TypeOK, ApiTypeOK, Handler
    <2>5. ASSUME NEW s \in Requests, AskCreate(s) \/ AskImport(s)
          PROVE  requests'[r] = requests[r]
      BY <1>2, <2>5 DEF AskCreate, AskImport, Hold, Idle, TypeOK, ApiTypeOK,
                        Handler
    <2>6. CASE DropRequests
      BY <1>2, <2>1, <2>6 DEF DropRequests, Idle
    <2> QED BY <2>1, <2>2, <2>3, <2>4, <2>5, <2>6
        DEF Next, Api, ApiStep, Serve, Reject, Ask, AskUpdate, AskState,
            AskDelete, Handle, Insert, Adopt, Withdraw, Update, Audit,
            RequestStoreError, Controller, ControllerFrame, Crash, vars
  <1> DEFINE Copies == /\ controller'.pending[id] # None
                              => controller'.pending[id].desired = "deleted"
                       /\ controller'.pc \in Busy /\ controller'.tunnel = id
                              => controller'.row.desired = "deleted"
  <1>3. Copies
    <2>1. /\ controller.pending[id] # None
                 => controller.pending[id].desired = "deleted"
          /\ controller.pc \in Busy /\ controller.tunnel = id
                 => controller.row.desired = "deleted"
          /\ tunnels[id].desired = "deleted"
      BY DEF Withdrawn
    <2>t. /\ controller.pending \in [Ids -> Row \cup {None}]
          /\ {"pc", "pending", "tunnel", "row"} \subseteq DOMAIN controller
          /\ controller \in [pc: Points, pending: [Ids -> Row \cup {None}],
                       tunnel: Ids \cup {None}, row: Row \cup {None},
                       observed: Healthy \cup Unhealthy \cup {"none"}]
      BY DEF TypeOK, ControllerTypeOK
    <2>b. {"start", "reconcile", "observe", "remove", "drop", "mark", "fail",
           "succeed", "give_up"} = Busy
      BY DEF Busy, Points, StorePoints, ProviderPoints
    <2>2. ASSUME UNCHANGED controller PROVE Copies
      BY <2>1, <2>2
    <2>3. ASSUME NEW pc, Goto(pc), pc \in Busy => controller.pc \in Busy
          PROVE  Copies
      BY <2>1, <2>t, <2>3 DEF Goto
    <2>4. ASSUME NEW rest, Loop(rest),
                 rest[id] # None => rest[id].desired = "deleted"
          PROVE  Copies
      BY <2>b, <2>4 DEF Loop, Started
    <2>5. Return => Copies
      BY <2>1, <2>4 DEF Return
    <2>6. CASE Requeue \/ Resume
      BY <2>3, <2>6, <2>b DEF Requeue, Resume
    <2>7. CASE ListTunnels
      BY <2>1, <2>4, <2>7 DEF ListTunnels
    <2>8. ASSUME NEW i \in Ids, Skip(i) PROVE Copies
      <3>1. Rest(i)[id] \in {None, controller.pending[id]}
        BY <2>t DEF Rest
      <3> QED BY <2>1, <2>4, <2>8, <3>1 DEF Skip
    <2>9. ASSUME NEW i \in Ids, Begin(i) PROVE Copies
      <3>1. Rest(i)[id] \in {None, controller.pending[id]}
        BY <2>t DEF Rest
      <3>2. /\ controller'.tunnel = i
            /\ controller'.row = controller.pending[i]
            /\ controller.pending[i] # None
            /\ controller'.pending = Rest(i)
        BY <2>t, <2>9 DEF Begin, InPass
      <3> QED BY <2>1, <3>1, <3>2
    <2>10. CASE Start \/ ReconcileSucceeds \/ RemoveSucceeds \/ ProviderFails
      BY <2>3, <2>10, <2>b
      DEF Start, ReconcileSucceeds, RemoveSucceeds, ProviderFails, ProviderPoints
    <2>11. ASSUME NEW state, ObserveHealthy(state) \/ ObserveUnhealthy(state)
           PROVE  Copies
      BY <2>1, <2>t, <2>11, <2>b DEF ObserveHealthy, ObserveUnhealthy
    <2>12. CASE Drop \/ Mark \/ Fail \/ Complete \/ ControllerStoreError
      BY <2>3, <2>5, <2>12, <2>b
      DEF Drop, Mark, Fail, WriteBack, Complete, ControllerStoreError
    <2>13. CASE Restart
      BY <2>13, <2>b DEF Restart, Started, NoTunnels
    <2> HIDE DEF Copies
    <2> QED BY <2>2, <2>6, <2>7, <2>8, <2>9, <2>10, <2>11, <2>12, <2>13
        DEF Next, Api, ApiFrame, Controller, ControllerStep, Progress,
            Misfortune, Crash, vars
  <1> QED BY <1>1, <1>2, <1>3 DEF Withdrawn

(* A deletion that no handler and no pass is about to overwrite stands until
   the tunnel is gone. *)
THEOREM DeletionCorrect == Spec => DeletionStands
  <1>1. Init => RowsFollowRequests
    <2> SUFFICES ASSUME Init, NEW r \in Requests
                 PROVE  requests[r].pc = "idle" /\ ~Exists(r)
      BY DEF RowsFollowRequests
    <2>1. requests[r] = Idle /\ tunnels[r] = None
      BY DEF Init, ApiInit, StoreInit, Ids
    <2> QED BY <2>1 DEF Idle, Exists
  <1>2. TypeOK /\ RowsFollowRequests /\ [Next]_vars => RowsFollowRequests'
    BY RowsFollowKept
  <1>3. TypeOK /\ RowsFollowRequests /\ [Next]_vars
            => [\A id \in Ids :
                    Withdrawn(id) => Withdrawn(id)' \/ ~Exists(id)']_vars
    BY WithdrawnKept
  <1> QED BY <1>1, <1>2, <1>3, TypeCorrect, PTL DEF Spec, DeletionStands

-----------------------------------------------------------------------------
(* The operation records implement OperationLog. *)

(* A record is made by the last statement of its request. *)
RecordsFollowRequests ==
    \A o \in Requests : requests[o].pc # "done" => operations[o] = None

LEMMA RecordsFollowKept ==
    ASSUME TypeOK, RecordsFollowRequests, [Next]_vars
    PROVE  RecordsFollowRequests'
  <1>1. \A o \in Requests : requests[o].pc = "done" => requests'[o].pc = "done"
    BY DEF Next, Api, ApiStep, Serve, Reject, Ask, AskCreate, AskImport,
           AskUpdate, AskState, AskDelete, ReadForChange, Handle, Insert,
           Adopt, Withdraw, Update, Audit,
           RequestStoreError, Respond, Hold, Advance, Idle, InFlight,
           Controller, ControllerFrame, Crash, DropRequests, vars, TypeOK,
           ApiTypeOK, Handler
  <1>2. \A o \in Requests :
            operations[o] = None /\ operations'[o] # None
                => requests'[o].pc = "done"
    <2>1. ASSUME NEW r \in Requests, Respond(r),
                 CreateOperation(r, requests[r].tunnel, requests[r].action),
                 NEW o \in Requests, operations[o] = None, operations'[o] # None
          PROVE  requests'[o].pc = "done"
      BY <2>1 DEF Respond, Idle, CreateOperation, TypeOK, StoreTypeOK, ApiTypeOK
    <2>2. ASSUME NEW o \in Requests, operations[o] = None,
                 \/ UNCHANGED operations
                 \/ MarkOperationsRunning(controller.tunnel)
                 \/ \E status : CompleteOperations(controller.tunnel, status)
                 \/ RequeueRunning
          PROVE  operations'[o] = None
      BY <2>2 DEF MarkOperationsRunning, CompleteOperations, RequeueRunning,
                  SetStatus, Of, Recorded
    <2> QED BY <2>1, <2>2, OperationSteps
  <1> QED BY <1>1, <1>2 DEF RecordsFollowRequests

(* What a step can do to the records and, at the same time, to those that
   are late for the pass under way. *)
LEMMA LateSteps ==
    ASSUME TypeOK, RecordsFollowRequests, [Next]_vars
    PROVE  \/ UNCHANGED operations /\ Late' \in {Late, {}}
           \/ \E r \in Requests :
                  /\ requests[r].pc = "audit"
                  /\ CreateOperation(r, requests[r].tunnel, requests[r].action)
                  /\ Late' \in {Late, Late \cup {r}}
           \/ /\ controller.tunnel \in Ids
              /\ MarkOperationsRunning(controller.tunnel)
              /\ Late' = {}
           \/ /\ controller.tunnel \in Ids
              /\ Of(controller.tunnel, {"queued"}) = Late
              /\ \E outcome \in {"success", "failed"} :
                     CompleteOperations(controller.tunnel, outcome)
              /\ Late' = {}
           \/ RequeueRunning /\ Late' = {}
  <1>t. /\ operations \in [Requests -> Operation \cup {None}]
        /\ controller.pc \in Points
        /\ "pc" \in DOMAIN controller
        /\ controller.pc \in Busy => controller.tunnel \in Ids
    BY DEF TypeOK, StoreTypeOK, ControllerTypeOK
  <1>b. Busy \ {"start"} = {"reconcile", "observe", "remove", "drop", "mark",
                            "fail", "succeed", "give_up"}
    BY DEF Busy, Points, StorePoints, ProviderPoints
  <1>1. controller'.pc \notin Busy \ {"start"} => Late' = {}
    BY DEF Late
  <1>2. UNCHANGED operations =>
            \A id, statuses : Of(id, statuses)' = Of(id, statuses)
    BY DEF Of, Recorded
  <1>3. ASSUME UNCHANGED operations,
               controller.pc \in Busy \ {"start"},
               controller'.pc \in Busy \ {"start"},
               controller'.tunnel = controller.tunnel
        PROVE  Late' = Late
    BY <1>2, <1>3 DEF Late
  <1>4. UNCHANGED <<operations, controller>> => Late' = Late
    BY <1>2 DEF Late
  <1>5. CASE Api
    <2>1. UNCHANGED controller
      BY <1>5 DEF Api, ApiFrame
    <2>2. ASSUME NEW r \in Requests, Audit(r)
          PROVE  /\ requests[r].pc = "audit"
                 /\ CreateOperation(r, requests[r].tunnel, requests[r].action)
                 /\ Late' \in {Late, Late \cup {r}}
      <3>1. /\ requests[r].pc = "audit"
            /\ CreateOperation(r, requests[r].tunnel, requests[r].action)
        BY <2>2 DEF Audit
      <3>2. operations[r] = None
        BY <3>1 DEF RecordsFollowRequests
      <3>3. [tunnel |-> requests[r].tunnel, action |-> requests[r].action,
             status |-> "queued"] \in Operation
        BY <3>1 DEF TypeOK, ApiTypeOK, InFlight, Operation, Statuses
      <3>4. /\ operations'[r] # None
            /\ operations'[r].status = "queued"
            /\ operations'[r].tunnel = requests[r].tunnel
            /\ \A o \in Requests \ {r} : operations'[o] = operations[o]
        BY <1>t, <3>1, <3>3, NoneIsNoRow DEF CreateOperation
      <3>5. \A id : Of(id, {"queued"})' \in
                        {Of(id, {"queued"}), Of(id, {"queued"}) \cup {r}}
        <4> TAKE id
        <4>1. r \notin Of(id, {"queued"})
          BY <3>2 DEF Of, Recorded
        <4>2. \A o \in Requests \ {r} :
                  o \in Of(id, {"queued"})' <=> o \in Of(id, {"queued"})
          BY <3>4 DEF Of, Recorded
        <4>3. Of(id, {"queued"}) \subseteq Requests
                  /\ Of(id, {"queued"})' \subseteq Requests
          BY DEF Of, Recorded
        <4>4. CASE r \in Of(id, {"queued"})'
          BY <4>1, <4>2, <4>3, <4>4
        <4>5. CASE r \notin Of(id, {"queued"})'
          BY <4>1, <4>2, <4>3, <4>5
        <4> QED BY <4>4, <4>5
      <3> QED BY <2>1, <3>1, <3>5 DEF Late
    <2>3. UNCHANGED operations \/ \E r \in Requests : Audit(r)
      BY <1>5 DEF Api, ApiStep, Serve, Reject, Ask, AskCreate, AskImport,
                  AskUpdate, AskState, AskDelete, ReadForChange, Handle,
                  Insert, Adopt, Withdraw, Update, RequestStoreError, storeVars
    <2> QED BY <1>4, <2>1, <2>2, <2>3
  <1>6. CASE Crash
    <2>1. controller'.pc = "boot" /\ UNCHANGED operations
      BY <1>6 DEF Crash, Restart, Started, storeVars
    <2> QED BY <1>1, <1>b, <2>1
  <1>7. CASE Controller
    <2>1. \A rest : Loop(rest) => controller'.pc \in {"list", "next"}
      BY DEF Loop, Started
    <2>2. Return => Late' = {}
      BY <1>1, <1>b, <2>1 DEF Return
    <2>3. \A pc : Goto(pc) => /\ controller'.pc = pc
                              /\ controller'.tunnel = controller.tunnel
      BY DEF Goto, TypeOK, ControllerTypeOK
    <2>4. CASE Requeue
      <3>1. controller'.pc = "resume" /\ RequeueRunning
        BY <2>3, <2>4 DEF Requeue
      <3> QED BY <1>1, <1>b, <3>1
    <2>5. CASE Resume \/ ListTunnels \/ \E id \in Ids : Skip(id) \/ Begin(id)
      <3>1. UNCHANGED operations
        BY <2>5 DEF Resume, ListTunnels, Skip, Begin, storeVars
      <3>2. controller'.pc \in {"list", "next", "start"}
        BY <2>1, <2>3, <2>5
        DEF Resume, ListTunnels, Skip, Begin, TypeOK, ControllerTypeOK
      <3> QED BY <1>1, <1>b, <3>1, <3>2
    <2>6. CASE Start
      <3>1. /\ controller.pc = "start"
            /\ controller'.pc \in {"remove", "reconcile"}
            /\ controller'.tunnel = controller.tunnel
            /\ MarkOperationsRunning(controller.tunnel)
        BY <2>3, <2>6 DEF Start
      <3>2. controller.tunnel \in Ids
        BY <1>t, <3>1 DEF Busy, Points, StorePoints
      <3>3. Of(controller.tunnel, {"queued"})' = {}
        <4> SUFFICES ASSUME NEW o \in Requests, operations'[o] # None,
                            operations'[o].tunnel = controller.tunnel
                     PROVE  operations'[o].status # "queued"
          BY <3>1 DEF Of, Recorded
        <4>1. CASE o \in Of(controller.tunnel, {"queued"})
          <5>1. operations'[o] = [operations[o] EXCEPT !.status = "running"]
            BY <3>1, <4>1 DEF MarkOperationsRunning, SetStatus
          <5>2. operations[o] \in Operation
            BY <1>t, <4>1 DEF Of, Recorded
          <5> QED BY <5>1, <5>2 DEF Operation
        <4>2. CASE o \notin Of(controller.tunnel, {"queued"})
          <5>1. operations'[o] = operations[o]
            BY <3>1, <4>2 DEF MarkOperationsRunning, SetStatus
          <5> QED BY <4>2, <5>1 DEF Of, Recorded
        <4> QED BY <4>1, <4>2
      <3> QED BY <3>1, <3>2, <3>3 DEF Late
    <2>7. CASE \/ RemoveSucceeds \/ ReconcileSucceeds \/ ProviderFails
               \/ \E state \in Healthy : ObserveHealthy(state)
               \/ \E state \in Unhealthy : ObserveUnhealthy(state)
      <3>1. UNCHANGED operations
        BY <2>7 DEF RemoveSucceeds, ReconcileSucceeds, ProviderFails,
                    ObserveHealthy, ObserveUnhealthy, storeVars
      <3>2. /\ controller.pc \in {"remove", "reconcile", "observe"}
            /\ controller'.pc \in {"drop", "observe", "fail", "mark"}
            /\ controller'.tunnel = controller.tunnel
        BY <2>3, <2>7
        DEF RemoveSucceeds, ReconcileSucceeds, ProviderFails, ProviderPoints,
            ObserveHealthy, ObserveUnhealthy, TypeOK, ControllerTypeOK
      <3> QED BY <1>3, <1>b, <3>1, <3>2
    <2>8. CASE Drop \/ Mark \/ Fail
      <3>1. UNCHANGED operations
        BY <2>8 DEF Drop, Mark, Fail, WriteBack
      <3>2. controller.pc \in {"drop", "mark", "fail"}
        BY <2>8 DEF Drop, Mark, Fail
      <3>3. \/ Return
            \/ \E pc \in {"succeed", "fail", "give_up"} : Goto(pc)
        BY <2>8 DEF Drop, Mark, Fail, WriteBack
      <3> QED BY <1>3, <1>b, <2>2, <2>3, <3>1, <3>2, <3>3
    <2>9. CASE Complete
      <3>1. /\ controller.pc \in Busy \ {"start"}
            /\ \E outcome \in {"success", "failed"} :
                   CompleteOperations(controller.tunnel, outcome)
            /\ Return
        BY <1>b, <2>9 DEF Complete
      <3> QED BY <1>t, <2>2, <3>1 DEF Late
    <2>10. CASE ControllerStoreError
      BY <2>2, <2>10 DEF ControllerStoreError, storeVars
    <2> QED BY <1>7, <2>4, <2>5, <2>6, <2>7, <2>8, <2>9, <2>10
        DEF Controller, ControllerStep, Progress, Misfortune
  <1>8. CASE UNCHANGED vars
    BY <1>4, <1>8 DEF vars, storeVars
  <1> QED BY <1>5, <1>6, <1>7, <1>8 DEF Next

(* One step of the control plane is one step of the log, or none. *)
LEMMA LogStep ==
    ASSUME TypeOK, RecordsFollowRequests, [Next]_vars
    PROVE  [Log!Next]_<<[o \in Requests |-> Status(o)], Late>>
  <1>t. operations \in [Requests -> Operation \cup {None}]
    BY DEF TypeOK, StoreTypeOK
  <1>1. ASSUME UNCHANGED operations, Late' \in {Late, {}}
        PROVE  [Log!Next]_<<[o \in Requests |-> Status(o)], Late>>
    <2>1. UNCHANGED [o \in Requests |-> Status(o)]
      BY <1>1 DEF Status
    <2>2. Late' = {} => Log!Leave
      BY <2>1 DEF Log!Leave
    <2> QED BY <1>1, <2>1, <2>2 DEF Log!Next
  <1>2. ASSUME NEW r \in Requests, requests[r].pc = "audit",
               CreateOperation(r, requests[r].tunnel, requests[r].action),
               Late' \in {Late, Late \cup {r}}
        PROVE  Log!Next
    <2>1. operations[r] = None
      BY <1>2 DEF RecordsFollowRequests
    <2>2. Status(r) = "absent"
      BY <2>1 DEF Status
    <2>3. [tunnel |-> requests[r].tunnel, action |-> requests[r].action,
           status |-> "queued"] \in Operation
      BY <1>2 DEF TypeOK, ApiTypeOK, InFlight, Operation, Statuses
    <2>4. operations'[r] # None /\ operations'[r].status = "queued"
              /\ \A o \in Requests \ {r} : operations'[o] = operations[o]
      BY <1>2, <1>t, <2>3, NoneIsNoRow DEF CreateOperation
    <2>5. \A o \in Requests :
              Status(o)' = IF o \in {r} THEN "queued" ELSE Status(o)
      BY <2>4 DEF Status
    <2>6. Log!Record(r)
      BY <1>2, <2>2, <2>5 DEF Log!Record, Log!Move
    <2> QED BY <2>6 DEF Log!Next
  <1>3. ASSUME NEW set \in SUBSET Requests, NEW to \in Statuses,
               \A o \in set : operations[o] # None, SetStatus(set, to)
        PROVE  \A o \in Requests :
                   Status(o)' = IF o \in set THEN to ELSE Status(o)
    <2> SUFFICES ASSUME NEW o \in Requests
                 PROVE  Status(o)' = IF o \in set THEN to ELSE Status(o)
      OBVIOUS
    <2>1. CASE o \notin set
      BY <1>3, <2>1 DEF SetStatus, Status
    <2>2. CASE o \in set
      <3>1. operations[o] \in Operation
        BY <1>3, <1>t, <2>2
      <3>2. [operations[o] EXCEPT !.status = to] \in Operation
        BY <3>1 DEF Operation
      <3>3. operations'[o] = [operations[o] EXCEPT !.status = to]
        BY <1>3, <2>2 DEF SetStatus
      <3>4. operations'[o] # None /\ operations'[o].status = to
        BY <3>1, <3>2, <3>3, NoneIsNoRow DEF Operation
      <3> QED BY <2>2, <3>4 DEF Status
    <2> QED BY <2>1, <2>2
  <1>4. ASSUME NEW id \in Ids, MarkOperationsRunning(id), Late' = {}
        PROVE  Log!Next
    <2> DEFINE set == Of(id, {"queued"})
    <2>s. set \in SUBSET Requests /\ \A o \in set : operations[o] # None
      BY DEF Of, Recorded
    <2>c. SetStatus(set, "running")
      BY <1>4 DEF MarkOperationsRunning
    <2>1. \A o \in Requests :
              Status(o)' = IF o \in set THEN "running" ELSE Status(o)
      BY <1>3, <2>s, <2>c DEF Statuses
    <2>2. \A o \in set : Status(o) = "queued"
      BY DEF Status, Of, Recorded
    <2>3. set \subseteq Log!With("queued")
      BY <2>s, <2>2 DEF Log!With
    <2>4. Log!Start(set)
      BY <1>4, <2>1, <2>3 DEF Log!Start, Log!Move
    <2> QED BY <2>s, <2>4 DEF Log!Next
  <1>5. ASSUME NEW id \in Ids, NEW outcome \in {"success", "failed"},
               CompleteOperations(id, outcome), Of(id, {"queued"}) = Late,
               Late' = {}
        PROVE  Log!Next
    <2> DEFINE set == Of(id, Unfinished)
    <2>s. set \in SUBSET Requests /\ \A o \in set : operations[o] # None
      BY DEF Of, Recorded
    <2>c. SetStatus(set, outcome)
      BY <1>5 DEF CompleteOperations
    <2>1. \A o \in Requests :
              Status(o)' = IF o \in set THEN outcome ELSE Status(o)
      BY <1>3, <2>s, <2>c DEF Statuses
    <2>2. \A o \in set : Status(o) = "running" \/ o \in Late
      BY <1>5 DEF Status, Of, Recorded, Unfinished
    <2>3. set \subseteq Log!With("running") \cup Late
      BY <2>s, <2>2 DEF Log!With
    <2>4. Log!Finish(set, outcome)
      BY <1>5, <2>1, <2>3 DEF Log!Finish, Log!Move
    <2> QED BY <2>s, <2>4 DEF Log!Next, Log!Outcomes
  <1>6. ASSUME RequeueRunning, Late' = {}
        PROVE  Log!Next
    <2> DEFINE set == Recorded({"running"})
    <2>s. set \in SUBSET Requests /\ \A o \in set : operations[o] # None
      BY DEF Recorded
    <2>c. SetStatus(set, "queued")
      BY <1>6 DEF RequeueRunning
    <2>1. \A o \in Requests :
              Status(o)' = IF o \in set THEN "queued" ELSE Status(o)
      BY <1>3, <2>s, <2>c DEF Statuses
    <2>2. \A o \in Requests : o \in set <=> Status(o) = "running"
      BY <1>t DEF Status, Of, Recorded, Operation
    <2>3. set = Log!With("running")
      BY <2>s, <2>2 DEF Log!With
    <2>4. Log!Recover
      BY <1>6, <2>1, <2>3 DEF Log!Recover, Log!Move
    <2> QED BY <2>4 DEF Log!Next
  <1> QED BY <1>1, <1>2, <1>4, <1>5, <1>6, LateSteps

(* The operation records live as OperationLog says: each made once, finished
   once, put back in the queue only all together, and none finished without
   having run but those late for the pass that finishes them. *)
THEOREM LogImplemented == Spec => LogSpec
  <1>1. Init => Log!Init /\ RecordsFollowRequests
    BY DEF Init, StoreInit, ControllerInit, Started, Busy, Late, Log!Init,
           Status, RecordsFollowRequests
  <1>2. TypeOK /\ RecordsFollowRequests /\ [Next]_vars => RecordsFollowRequests'
    BY RecordsFollowKept
  <1>3. TypeOK /\ RecordsFollowRequests /\ [Next]_vars
            => [Log!Next]_<<[o \in Requests |-> Status(o)], Late>>
    BY LogStep
  <1> QED BY <1>1, <1>2, <1>3, TypeCorrect, PTL DEF Spec, LogSpec, Log!Spec
=============================================================================
