----------------------------- MODULE ApiServer -----------------------------
(***************************************************************************)
(* The handlers of internal/api/server.go that change a tunnel.  net/http  *)
(* runs every request in a goroutine of its own, so the steps of two       *)
(* requests, and of a request and the controller, interleave.  A handler   *)
(* reads the row, computes the whole row it wants, writes it in a second   *)
(* statement and records the operation in a third.                         *)
(***************************************************************************)
EXTENDS TunnelStore

VARIABLE requests   \* by request: the handler's progress and local variables

Idle == [pc |-> "idle", action |-> None, tunnel |-> None, row |-> None]

Handler == [pc: {"idle", "insert", "adopt", "withdraw", "update", "audit",
                 "done"},
            action: Actions \cup {None},
            tunnel: Ids \cup {None},
            row: Row \cup {None}]

InFlight(r) ==
    requests[r].pc \in {"insert", "adopt", "withdraw", "update", "audit"}

Advance(r, pc) == requests' = [requests EXCEPT ![r].pc = pc]

(* Success or error: nobody on this side looks at the answer again. *)
Respond(r) == requests' = [requests EXCEPT ![r] = [Idle EXCEPT !.pc = "done"]]

Hold(r, pc, action, id, row) ==
    requests' = [requests EXCEPT
        ![r] = [Idle EXCEPT !.pc = pc, !.action = action, !.tunnel = id,
                            !.row = row]]

-----------------------------------------------------------------------------
(* What the handlers put in a row: whoever asks for a change also resets the
   observation and the backoff. *)
Reset(row) ==
    [row EXCEPT !.actual = "pending", !.failing = FALSE, !.retry = FALSE]

NewRow(name, config) ==
    [name |-> name, config |-> config, desired |-> "enabled",
     actual |-> "pending", failing |-> FALSE, retry |-> FALSE]

Updated(row, name, config) ==
    Reset([row EXCEPT !.name = name, !.config = config])

WithDesired_KeepsObservation(row, desired) == [row EXCEPT !.desired = desired]

WithDesired(row, desired) == Reset([row EXCEPT !.desired = desired])

-----------------------------------------------------------------------------
(* Decoding, the provider lookup, Validate, the interface check of
   createTunnel and a read that fails refuse a request without a write. *)
Reject(r) ==
    /\ requests[r].pc = "idle"
    /\ Respond(r)
    /\ UNCHANGED storeVars

(* createTunnel up to its INSERT. *)
AskCreate(r) ==
    /\ requests[r].pc = "idle"
    /\ \E name \in Names, config \in Configs :
           Hold(r, "insert", "create", r, NewRow(name, config))
    /\ UNCHANGED storeVars

(* importInterface up to its INSERT: the row of a link that Discover lists. *)
AskImport(r) ==
    /\ requests[r].pc = "idle"
    /\ \E name \in Names, config \in Configs :
           Hold(r, "insert", "import", r, NewRow(name, config))
    /\ UNCHANGED storeVars

(* GetTunnel and the checks on what it returns: 404 when there is no row,
   409 when its removal is already queued. *)
ReadForChange(r, id, action, row) ==
    /\ requests[r].pc = "idle"
    /\ IF Exists(id) /\ tunnels[id].desired # "deleted"
       THEN Hold(r, "update", action, id, row)
       ELSE Respond(r)
    /\ UNCHANGED storeVars

(* updateTunnel: the body is read from the client after GetTunnel, so the
   time between the read and the write is the client's to choose. *)
AskUpdate(r) ==
    \E id \in Ids, name \in Names, config \in Configs :
        ReadForChange(r, id, "update", Updated(tunnels[id], name, config))

(* setTunnelState *)
AskState(r) ==
    \E id \in Ids, desired \in {"enabled", "disabled"} :
        ReadForChange(r, id, desired, WithDesired(tunnels[id], desired))

(* deleteTunnel *)
AskDelete(r) ==
    \E id \in Ids :
        ReadForChange(r, id, "delete", WithDesired(tunnels[id], "deleted"))

-----------------------------------------------------------------------------
(* The INSERT of createTunnel and importInterface: 409 when the name is
   taken. *)
Insert(r) ==
    /\ requests[r].pc = "insert"
    /\ \/ /\ CreateTunnel(requests[r].tunnel, requests[r].row)
          /\ Advance(r, IF requests[r].action = "import" THEN "adopt"
                                                        ELSE "audit")
       \/ /\ NameTaken(requests[r].tunnel, requests[r].row.name)
          /\ Respond(r)
          /\ UNCHANGED tunnels
    /\ UNCHANGED operations

Adopt_WritesAgain(r) ==
    /\ requests[r].pc = "adopt"
    /\ \E pc \in {"update", "withdraw"} : Advance(r, pc)
    /\ UNCHANGED storeVars

(* gre.Adopt puts the marker of the new row on the link, or fails. *)
Adopt(r) ==
    /\ requests[r].pc = "adopt"
    /\ \E pc \in {"audit", "withdraw"} : Advance(r, pc)
    /\ UNCHANGED storeVars

(* The row of a failed import goes again, whatever it has become. *)
Withdraw(r) ==
    /\ requests[r].pc = "withdraw"
    /\ \/ DeleteTunnel(requests[r].tunnel)
       \/ ~Exists(requests[r].tunnel) /\ UNCHANGED tunnels
    /\ Respond(r)
    /\ UNCHANGED operations

(* The UPDATE of the other handlers. *)
Update(r) ==
    /\ requests[r].pc = "update"
    /\ \/ /\ UpdateTunnel(requests[r].tunnel, requests[r].row)
          /\ Advance(r, "audit")
       \/ /\ ~Updatable(requests[r].tunnel, requests[r].row)
          /\ Respond(r)
          /\ UNCHANGED tunnels
    /\ UNCHANGED operations

(* s.operation, then the success response. *)
Audit(r) ==
    /\ requests[r].pc = "audit"
    /\ CreateOperation(r, requests[r].tunnel, requests[r].action)
    /\ Respond(r)
    /\ UNCHANGED tunnels

(* A statement fails: disk, lock timeout, or the client has gone away and
   its context is cancelled.  The handler answers an error, but a success
   when it is the INSERT of s.operation, which drops the error, as Withdraw
   drops that of its DELETE. *)
RequestStoreError(r) ==
    /\ InFlight(r)
    /\ requests[r].pc # "adopt"
    /\ Respond(r)
    /\ UNCHANGED storeVars

-----------------------------------------------------------------------------
Ask(r) ==
    AskCreate(r) \/ AskImport(r) \/ AskUpdate(r) \/ AskState(r) \/ AskDelete(r)

(* What a request that has been accepted goes on to do by itself. *)
Handle(r) == Insert(r) \/ Adopt(r) \/ Withdraw(r) \/ Update(r) \/ Audit(r)

(* When no statement fails. *)
Serve(r) == Reject(r) \/ Ask(r) \/ Handle(r)

ApiStep == \E r \in Requests : Serve(r) \/ RequestStoreError(r)

(* The process ends: requests in flight are never answered. *)
DropRequests ==
    requests' = [r \in Requests |->
        IF InFlight(r) THEN [Idle EXCEPT !.pc = "done"] ELSE requests[r]]

ApiInit == requests = [r \in Requests |-> Idle]

ApiTypeOK ==
    /\ requests \in [Requests -> Handler]
    /\ \A r \in Requests :
           InFlight(r) => /\ requests[r].action \in Actions
                          /\ requests[r].tunnel \in Ids
                          /\ requests[r].row \in Row
=============================================================================
