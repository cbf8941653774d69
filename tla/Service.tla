------------------------------ MODULE Service ------------------------------
(***************************************************************************)
(* The life of the process: serve of cmd/mikrotunnel/main.go from its      *)
(* start by systemd to its end, on a machine that may be rebooted.  It     *)
(* brings the database up to date, then restores the forwarding rule, and  *)
(* only then answers requests; it may end at any point of this, and is     *)
(* started again, up to a number of times in a row.  What controller and   *)
(* tunnel handlers do once it serves is ControlPlane's.                    *)
(***************************************************************************)
EXTENDS Migration, Forwarding

CONSTANT StartLimitBurst    \* of the unit file: starts in a row

ASSUME StartLimitAssumption == StartLimitBurst \in Nat

VARIABLES
    phase,      \* of the unit, and of the process while there is one
    starts      \* how often systemd has started it in the present interval

vars == <<migrationVars, forwardingVars, phase, starts>>

Restoring == {"read", "check", "append"}
Running == {"open", "serve"} \cup Restoring

(* Not running: to be started by systemd, given up by it, or told to stop. *)
Resting == {"due", "failed", "stopped"}

-----------------------------------------------------------------------------
(* systemd *)

Start ==
    /\ phase = "due"
    /\ \/ starts < StartLimitBurst /\ phase' = "open" /\ starts' = starts + 1
       \/ starts >= StartLimitBurst /\ phase' = "failed" /\ UNCHANGED starts
    /\ migration' = Beginning
    /\ UNCHANGED <<schema, forwardingVars>>

(* StartLimitIntervalSec has passed since the first of these starts. *)
IntervalPasses ==
    /\ starts > 0
    /\ starts' = 0
    /\ UNCHANGED <<migrationVars, forwardingVars, phase>>

-----------------------------------------------------------------------------
(* store.Open *)
Open ==
    /\ phase = "open"
    /\ \/ Migrate /\ UNCHANGED phase
       \/ Migrated /\ phase' = "read" /\ UNCHANGED migrationVars
    /\ UNCHANGED <<forwardingVars, starts>>

(* restoreForwardingRule *)
ReadForwarding_Serves ==
    /\ phase = "read"
    /\ phase' = "serve"
    /\ UNCHANGED <<migrationVars, forwardingVars, starts>>

ReadForwarding ==
    /\ phase = "read"
    /\ phase' = IF forwarding THEN "check" ELSE "serve"
    /\ UNCHANGED <<migrationVars, forwardingVars, starts>>

CheckRule ==
    /\ phase = "check"
    /\ IF accepts > 0
       THEN phase' = "serve" /\ spoiled' = spoiled \ {"rule"}
       ELSE phase' = "append" /\ UNCHANGED spoiled
    /\ UNCHANGED <<migrationVars, settingVars, changes, agreed, starts>>

AppendRule ==
    /\ phase = "append"
    /\ accepts' = accepts + 1
    /\ spoiled' = spoiled \ {"rule"}
    /\ phase' = "serve"
    /\ UNCHANGED <<migrationVars, persisted, forwarding, changes, agreed, starts>>

Startup == Start \/ Open \/ ReadForwarding \/ CheckRule \/ AppendRule

(* ListenAndServe *)
Serve ==
    /\ phase = "serve"
    /\ \E r \in Requests : AskForward(r) \/ SetForward(r)
    /\ UNCHANGED <<migrationVars, phase, starts>>

-----------------------------------------------------------------------------
(* What goes wrong.  An error of restoreForwardingRule is only logged. *)
RestoreFails ==
    /\ phase \in Restoring
    /\ \/ phase' = "serve" /\ spoiled' = spoiled \cup {"rule"}
       \/ /\ phase = "check"
          /\ phase' = "append"
          /\ spoiled' = spoiled \cup {"copies"}
    /\ UNCHANGED <<migrationVars, settingVars, changes, agreed, starts>>

PragmaFails ==
    /\ phase = "open"
    /\ InspectCutShort
    /\ UNCHANGED <<forwardingVars, phase, starts>>

ChangeFails ==
    /\ phase = "serve"
    /\ \E r \in Requests : ForwardFails(r) \/ CheckFails(r)
    /\ UNCHANGED <<migrationVars, phase, starts>>

(* An error of the configuration, the database, the API key or the listener,
   or a kill: Restart=always.  An ALTER TABLE of a column that is there is
   such an error, and no mishap of its own. *)
Exit ==
    /\ phase \in Running
    /\ phase' = "due"
    /\ DropChanges
    /\ UNCHANGED <<migrationVars, settingVars, historyVars, starts>>

ExitOnDuplicate == phase = "open" /\ DuplicateColumn /\ Exit

(* A reboot; the disk keeps what was written.  A unit that was stopped may
   have been disabled as well. *)
PowerOff ==
    /\ phase' \in {"due"} \cup ({phase} \cap {"stopped"})
    /\ starts' = 0
    /\ DropChanges
    /\ ForgetSetting
    /\ UNCHANGED migrationVars

Others ==
    /\ Sysctl \/ Flush
    /\ UNCHANGED <<migrationVars, phase, starts>>

-----------------------------------------------------------------------------
(* The command line: mikrotunnel service and mikrotunnel uninstall.  purge
   deletes the database; file, switch and rule of forwarding stay. *)
Stop(purge) ==
    /\ phase' = "stopped"
    /\ DropChanges
    /\ schema' = IF purge THEN {} ELSE schema
    /\ UNCHANGED <<migration, settingVars, historyVars, starts>>

(* mikrotunnel service start, or a new installation: it counts as a start,
   and systemd refuses it as it refuses its own. *)
OperatorStarts ==
    /\ phase \in {"failed", "stopped"}
    /\ starts < StartLimitBurst
    /\ phase' = "due"
    /\ UNCHANGED <<migrationVars, forwardingVars, starts>>

-----------------------------------------------------------------------------
Init ==
    /\ MigrationInit
    /\ ForwardingInit
    /\ phase = "due"
    /\ starts = 0

Calm == Startup \/ ExitOnDuplicate \/ Serve \/ IntervalPasses \/ OperatorStarts

Mishap ==
    \/ RestoreFails \/ PragmaFails \/ ChangeFails \/ Exit \/ PowerOff \/ Others
    \/ \E purge \in BOOLEAN : Stop(purge)

Next == Calm \/ Mishap

(* systemd and the process do what is theirs to do; nobody owes a request. *)
Fairness == WF_vars(Startup \/ ExitOnDuplicate)

Spec == Init /\ [][Next]_vars

FairSpec == Spec /\ Fairness

-----------------------------------------------------------------------------
(* Types; a request is under way only while the process serves. *)
ServiceTypeOK ==
    /\ MigrationTypeOK
    /\ ForwardingTypeOK
    /\ phase \in Running \cup Resting
    /\ starts \in Nat
    /\ (\E r \in Requests : InFlight(r)) => phase = "serve"

(* The store is used only with a file that has every table and column its
   statements name, whatever release has left it and wherever an earlier
   start has been stopped (sqlite.go: migrate and ensureColumn). *)
SchemaComplete == phase \in Restoring \cup {"serve"} => Objects \subseteq schema

(* However starts and requests follow each other, there is one rule at most,
   unless two requests have overlapped or iptables -C has failed on a rule
   that was there (server.go and main.go look before they append). *)
OneRule == "copies" \notin spoiled => accepts <= 1

(* While the process serves, the setting of the last request, if nothing
   came in its way, is that of the file, of the switch and of the chain:
   through crashes, reboots, upgrades and a purge, and also after others
   have flushed the chain, once the process has been started again. *)
SettingHolds ==
    phase = "serve" /\ agreed # None =>
        /\ persisted = agreed
        /\ forwarding = agreed
        /\ agreed /\ "rule" \notin spoiled => accepts > 0
        /\ ~agreed /\ "copies" \notin spoiled => accepts = 0

(* Once nothing goes wrong any more, the process serves, unless it has been
   told to stop or systemd has given it up: no half-done migration keeps it
   from starting (README.md: systemd also restarts the agent if its process
   exits). *)
ServesAgain ==
    <>[][Calm]_vars => <>[](phase \in {"serve", "failed", "stopped"})
=============================================================================
