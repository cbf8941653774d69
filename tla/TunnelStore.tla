---------------------------- MODULE TunnelStore ----------------------------
(***************************************************************************)
(* The SQLite store of internal/store/sqlite.go as the API server and the  *)
(* controller use it.  Every call of the store is one SQL statement, so    *)
(* one atomic step; no call is part of a transaction with another one.     *)
(*                                                                         *)
(* A tunnel's identifier is a fresh uuid drawn by the request that creates *)
(* it (store.NewID), and so is an operation's: both tables are indexed by  *)
(* the request that inserts the record.                                    *)
(***************************************************************************)
EXTENDS Domain

VARIABLES
    tunnels,    \* the table tunnels, by id
    operations  \* the table operations, by id

storeVars == <<tunnels, operations>>

-----------------------------------------------------------------------------
(* The table tunnels. *)

Exists(id) == tunnels[id] # None

NameTaken_NoConstraint(id, name) == FALSE

(* The UNIQUE constraint on tunnels.name, against every other row. *)
NameTaken(id, name) ==
    \E other \in Ids \ {id} : Exists(other) /\ tunnels[other].name = name

(* An UPDATE affects the row or fails: no such row, or the name is taken. *)
Updatable(id, row) == Exists(id) /\ ~NameTaken(id, row.name)

CreateTunnel(id, row) ==
    /\ ~NameTaken(id, row.name)
    /\ tunnels' = [tunnels EXCEPT ![id] = row]

(* The statement writes every column but id and created_at, whatever the
   caller has in hand, and does not look at what the row holds now. *)
UpdateTunnel(id, row) ==
    /\ Updatable(id, row)
    /\ tunnels' = [tunnels EXCEPT ![id] = row]

DeleteTunnel(id) ==
    /\ Exists(id)
    /\ tunnels' = [tunnels EXCEPT ![id] = None]

(* Second statement of RequeueInterruptedOperations. *)
ClearRetries ==
    tunnels' = [id \in Ids |->
                   IF Exists(id) THEN [tunnels[id] EXCEPT !.retry = FALSE]
                                 ELSE None]

-----------------------------------------------------------------------------
(* The table operations. *)

CreateOperation(o, id, action) ==
    operations' = [operations EXCEPT
        ![o] = [tunnel |-> id, action |-> action, status |-> "queued"]]

(* The operations with one of some statuses, and those of one tunnel. *)
Recorded(statuses) ==
    {o \in Requests : operations[o] # None /\ operations[o].status \in statuses}

Of(id, statuses) == {o \in Recorded(statuses) : operations[o].tunnel = id}

(* UPDATE operations SET status = to, for the rows selected. *)
SetStatus(selected, to) ==
    operations' = [o \in Requests |->
        IF o \in selected THEN [operations[o] EXCEPT !.status = to]
                          ELSE operations[o]]

MarkOperationsRunning(id) == SetStatus(Of(id, {"queued"}), "running")

CompleteOperations_AnyStatus(id, status) == SetStatus(Of(id, Statuses), status)

CompleteOperations(id, status) == SetStatus(Of(id, Unfinished), status)

(* First statement of RequeueInterruptedOperations. *)
RequeueRunning == SetStatus(Recorded({"running"}), "queued")

-----------------------------------------------------------------------------
StoreInit ==
    /\ tunnels = [id \in Ids |-> None]
    /\ operations = [o \in Requests |-> None]

StoreTypeOK ==
    /\ tunnels \in [Ids -> Row \cup {None}]
    /\ operations \in [Requests -> Operation \cup {None}]
=============================================================================
