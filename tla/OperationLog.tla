---------------------------- MODULE OperationLog ----------------------------
(***************************************************************************)
(* The life of the operation records.  docs/architecture.md promises that  *)
(* a record advances from queued through running to success or failed, and *)
(* that a restart puts running ones back in the queue.  A record is made   *)
(* once, and is never touched again once it has finished.                  *)
(*                                                                         *)
(* The code keeps this but for one case: CompleteOperations finishes what  *)
(* is queued as well (sqlite.go:196), so a record made while a pass over   *)
(* its tunnel is under way may finish with that pass and never have been   *)
(* running.  These records are late; all others go through running.        *)
(***************************************************************************)
CONSTANT Records

VARIABLES
    log,    \* the status of every record
    late    \* the queued records that the pass under way may finish

Outcomes == {"success", "failed"}

With(status) == {o \in Records : log[o] = status}

Move(set, to) ==
    log' = [o \in Records |-> IF o \in set THEN to ELSE log[o]]

Record(o) ==
    /\ log[o] = "absent"
    /\ Move({o}, "queued")
    /\ late' \in {late, late \cup {o}}

(* A pass starts: from here on it can have late records. *)
Start(set) ==
    /\ set \subseteq With("queued")
    /\ Move(set, "running")
    /\ late' = {}

Finish(set, outcome) ==
    /\ set \subseteq With("running") \cup late
    /\ Move(set, outcome)
    /\ late' = {}

(* The pass ends and finishes nothing: its late records are so no more. *)
Leave ==
    /\ late' = {}
    /\ UNCHANGED log

(* The only way back, and it takes every running record. *)
Recover ==
    /\ Move(With("running"), "queued")
    /\ late' = {}

Init ==
    /\ log = [o \in Records |-> "absent"]
    /\ late = {}

Next ==
    \/ \E o \in Records : Record(o)
    \/ \E set \in SUBSET Records :
           \/ Start(set)
           \/ \E outcome \in Outcomes : Finish(set, outcome)
    \/ Leave
    \/ Recover

Spec == Init /\ [][Next]_<<log, late>>
=============================================================================
