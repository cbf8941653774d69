------------------------------- MODULE Domain -------------------------------
(***************************************************************************)
(* The types of internal/domain that API, controller and provider share.   *)
(***************************************************************************)
CONSTANTS
    Requests,   \* the HTTP requests that change a tunnel, each handled once
    Names,      \* interface names
    Configs,    \* endpoints, TTL, MTU, address, masquerade
    None        \* no row, no operation, no tunnel in hand

(* A tunnel is named by the request that creates it. *)
Ids == Requests

DesiredStates == {"enabled", "disabled", "deleted"}
ActualStates == {"unknown", "pending", "up", "down", "missing", "error"}
Statuses == {"queued", "running", "success", "failed"}
Unfinished == {"queued", "running"}
Actions == {"create", "import", "update", "delete", "enabled", "disabled"}

(* failing is failure_count > 0, and retry is retry_at IS NOT NULL: the count
   and the time only say how long a backoff lasts. *)
Row == [name: Names, config: Configs, desired: DesiredStates,
        actual: ActualStates, failing: BOOLEAN, retry: BOOLEAN]

Operation == [tunnel: Ids, action: Actions, status: Statuses]

ASSUME NoneAssumption == None \notin Row \cup Operation \cup Ids \cup Actions
=============================================================================
