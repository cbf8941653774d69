---------------------------- MODULE ControlPlane ----------------------------
(***************************************************************************)
(* The agent's control plane: API handlers and controller over one store,  *)
(* in the process that cmd/mikrotunnel starts and systemd starts again.    *)
(***************************************************************************)
EXTENDS ApiServer, Reconciler

VARIABLE touched    \* history: the rows a handler has written since the
                    \* controller took its copy

vars == <<storeVars, requests, controller, reports, touched>>

Init ==
    /\ StoreInit
    /\ ApiInit
    /\ ControllerInit
    /\ touched = {}

ApiFrame ==
    /\ touched' = touched \cup {id \in Ids : tunnels'[id] # tunnels[id]}
    /\ UNCHANGED <<controller, reports>>

ControllerFrame ==
    /\ touched' = IF controller.pc = "list" THEN {} ELSE touched
    /\ UNCHANGED requests

Api == ApiStep /\ ApiFrame

Controller == ControllerStep /\ ControllerFrame

(* The process is killed, or told to stop: serve returns as soon as the
   listener is closed and waits neither for handlers nor for the controller.
   What is in the store stays. *)
Crash ==
    /\ Restart
    /\ DropRequests
    /\ touched' = {}
    /\ UNCHANGED <<storeVars, reports>>

Next == Api \/ Controller \/ Crash

(* The same steps, told apart by whether something fails. *)
Calm ==
    \/ (\E r \in Requests : Serve(r)) /\ ApiFrame
    \/ Progress /\ ControllerFrame

Mishap ==
    \/ (\E r \in Requests : RequestStoreError(r)) /\ ApiFrame
    \/ Misfortune /\ ControllerFrame
    \/ Crash

(* The goroutines run: the controller's and, once a request is in, its own.
   A retry falls due (the delay is capped at five minutes and the ticker
   goes on), so a tunnel that comes up again and again is not always
   skipped.  Nothing obliges a client to send anything. *)
Fairness ==
    /\ WF_vars(Progress /\ ControllerFrame)
    /\ \A id \in Ids : SF_vars(Begin(id) /\ ControllerFrame)
    /\ \A r \in Requests : WF_vars(Handle(r) /\ ApiFrame)

Spec == Init /\ [][Next]_vars

FairSpec == Spec /\ Fairness

FailuresStop == <>[][Calm]_vars

-----------------------------------------------------------------------------
(* Types. *)
TypeOK ==
    /\ StoreTypeOK
    /\ ApiTypeOK
    /\ ControllerTypeOK
    /\ touched \subseteq Ids

(* No two tunnels ever claim one interface name, although handlers and the
   controller write back names they read long before (UpdateTunnel). *)
UniqueNames ==
    \A id1, id2 \in Ids :
        Exists(id1) /\ Exists(id2) /\ id1 # id2
            => tunnels[id1].name # tunnels[id2].name

(* A record never claims a tunnel is up or down unless the provider has
   reported it of that very tunnel with that very name, configuration and
   desired state: not after an update, and not after a write-back that has
   lost one (roadmap.md: an API response never claims a tunnel is usable
   until the provider reports it). *)
ClaimsAreReports ==
    \A id \in Ids :
        Exists(id) /\ tunnels[id].actual \in Healthy
            => Report(id, tunnels[id], tunnels[id].actual) \in reports

(* An operation is a success only if the provider has at some time reported
   its tunnel up, down or removed (architecture.md: rather than claiming that
   a request immediately succeeded on Linux). *)
SuccessIsReported ==
    \A o \in Requests :
        operations[o] # None /\ operations[o].status = "success"
            => \E report \in reports : report.tunnel = operations[o].tunnel

(* A tunnel in backoff has failed, and one that has been changed or observed
   since carries nothing of an earlier failure, whoever wrote last (mark,
   fail, the handlers and the reset at start). *)
BackoffMatchesHistory ==
    \A id \in Ids :
        Exists(id) =>
            /\ tunnels[id].retry => tunnels[id].failing
            /\ tunnels[id].actual \in Healthy \cup {"pending"}
                   => ~tunnels[id].failing

(* A record disappears only after the provider has removed that tunnel's
   link (README.md: the controller removes the owned interface first), or
   with the import that has made it and could not adopt the link. *)
DroppedAfterRemoval ==
    [][\A id \in Ids :
           Exists(id) /\ ~Exists(id)'
               => \/ \E r \in Requests :
                         requests[r].pc = "withdraw" /\ requests[r].tunnel = id
                  \/ \E report \in reports :
                         report.tunnel = id /\ report.state = "removed"]_vars

(* The controller changes what was asked for, or drops a tunnel nobody wants
   dropped, only when a handler has written that row since the list was
   taken: outside that window it writes operational state and nothing else,
   and what it drops is what the provider has removed. *)
DisturbsOnlyByRace ==
    [][UNCHANGED requests =>
           \A id \in Ids \ touched :
               Exists(id) =>
                   IF Exists(id)'
                   THEN Intent(tunnels[id])' = Intent(tunnels[id])
                   ELSE /\ tunnels[id].desired = "deleted"
                        /\ Report(id, tunnels[id], "removed") \in reports]_vars

(* A deletion, once queued and not undone by a race, stands until the tunnel
   is gone (README.md: deletes are durable operations): when no handler and
   no pass holds the row as it was before, none of them, nor any request,
   pass or restart to come, brings the tunnel back. *)
Withdrawn(id) ==
    /\ Exists(id) /\ tunnels[id].desired = "deleted"
    /\ \A r \in Requests :
           requests[r].pc = "update" /\ requests[r].tunnel = id
               => requests[r].row.desired = "deleted"
    /\ controller.pending[id] # None
           => controller.pending[id].desired = "deleted"
    /\ controller.pc \in Busy /\ controller.tunnel = id
           => controller.row.desired = "deleted"

DeletionStands ==
    [][\A id \in Ids : Withdrawn(id) => Withdrawn(id)' \/ ~Exists(id)']_vars

(* The operation records live as OperationLog says: none is touched once it
   has finished, and none finishes that was not running (architecture.md),
   but for those recorded after the pass that finishes them has marked the
   operations of its tunnel running. *)
Status(o) == IF operations[o] = None THEN "absent" ELSE operations[o].status

Late ==
    IF controller.pc \in Busy \ {"start"} THEN Of(controller.tunnel, {"queued"})
                                         ELSE {}

Log == INSTANCE OperationLog WITH
           Records <- Requests, log <- [o \in Requests |-> Status(o)],
           late <- Late

LogSpec == Log!Spec

-----------------------------------------------------------------------------
(* Once clients and failures have stopped, every tunnel is gone or is
   observed up or down: none is left pending, in error, or half deleted. *)
RecordsSettle ==
    FailuresStop =>
        <>[](\A id \in Ids :
                 Exists(id) => /\ tunnels[id].actual \in Healthy
                               /\ tunnels[id].desired # "deleted")

(* An operation on a tunnel that stays in the store is finished in the end. *)
LiveOperationsFinish ==
    FailuresStop =>
        \A o \in Requests :
            (Status(o) \in Unfinished /\ Exists(operations[o].tunnel))
                ~> (Status(o) \notin Unfinished
                        \/ ~Exists(operations[o].tunnel))

-----------------------------------------------------------------------------
(* What the documents say and the code does not do. *)

(* README.md: the database records desired state; the controller turns it
   into networking changes.  So the controller never changes it. *)
ControllerKeepsDesiredState ==
    [][UNCHANGED requests =>
           \A id \in Ids :
               Exists(id) /\ Exists(id)'
                   => Intent(tunnels[id])' = Intent(tunnels[id])]_vars

(* README.md: a deletion's operation is marked successful only after the
   removal has succeeded. *)
DeleteSucceedsAfterRemoval ==
    \A o \in Requests :
        operations[o] # None /\ operations[o].action = "delete"
                /\ operations[o].status = "success"
            => \E report \in reports :
                   /\ report.tunnel = operations[o].tunnel
                   /\ report.state = "removed"
=============================================================================
