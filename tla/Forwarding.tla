----------------------------- MODULE Forwarding -----------------------------
(***************************************************************************)
(* IPv4 forwarding: setIPv4Forward of internal/api/server.go, one action   *)
(* per system call or command, by any number of requests at a time.  The   *)
(* setting is kept in three places, which nothing changes together: a file *)
(* in /etc/sysctl.d, the kernel's switch and a rule in the chain FORWARD.  *)
(***************************************************************************)
EXTENDS Naturals

CONSTANTS
    Requests,   \* requests that may be under way at a time
    None

VARIABLES
    persisted,  \* what the file says, None if it is missing or empty
    forwarding, \* /proc/sys/net/ipv4/ip_forward
    accepts,    \* copies of the rule in FORWARD
    changes,    \* by request: the handler's progress
    agreed,     \* history: what the last request has asked for, if nothing
                \* has come in its way since it was sent, else None
    spoiled     \* history: what others, or failing commands, may have done
                \* to the rule: taken it away ("rule"), added one too many
                \* ("copies")

settingVars == <<persisted, forwarding, accepts>>
historyVars == <<agreed, spoiled>>
forwardingVars == <<settingVars, changes, historyVars>>

ASSUME NoneAssumption == None \notin BOOLEAN

(* alone: no other change of the setting since the request was sent. *)
NoChange == [pc |-> "idle", enabled |-> FALSE, alone |-> FALSE]

Change == [pc: {"idle", "persist", "write", "apply", "check", "switch"},
           enabled: BOOLEAN, alone: BOOLEAN]

InFlight(r) == changes[r].pc # "idle"

Goto(r, pc) == changes' = [changes EXCEPT ![r].pc = pc]

(* Everything under way is no longer alone. *)
Disturbed(all) == [r \in Requests |-> [all[r] EXCEPT !.alone = FALSE]]

(* The handler answers an error. *)
Abandon(r) ==
    /\ changes' = [changes EXCEPT ![r] = NoChange]
    /\ UNCHANGED historyVars

(* The handler answers that the setting is made. *)
Finish(r) ==
    /\ changes' = [changes EXCEPT ![r] = NoChange]
    /\ agreed' = IF changes[r].alone THEN changes[r].enabled ELSE None
    /\ spoiled' = IF changes[r].alone /\ changes[r].enabled
                  THEN spoiled \ {"rule"} ELSE spoiled

-----------------------------------------------------------------------------
AskForward(r) ==
    /\ ~InFlight(r)
    /\ LET crowded == \E other \in Requests \ {r} : InFlight(other)
       IN  /\ \E enabled \in BOOLEAN :
                  changes' = [Disturbed(changes) EXCEPT
                      ![r] = [pc |-> "persist", enabled |-> enabled,
                              alone |-> ~crowded]]
           /\ spoiled' = IF crowded THEN spoiled \cup {"copies"} ELSE spoiled
    /\ agreed' = None
    /\ UNCHANGED settingVars

(* os.WriteFile empties the file and then writes it. *)
Truncate(r) ==
    /\ changes[r].pc = "persist"
    /\ persisted' = None
    /\ Goto(r, "write")
    /\ UNCHANGED <<forwarding, accepts, historyVars>>

Write(r) ==
    /\ changes[r].pc = "write"
    /\ persisted' = changes[r].enabled
    /\ Goto(r, "apply")
    /\ UNCHANGED <<forwarding, accepts, historyVars>>

Apply(r) ==
    /\ changes[r].pc = "apply"
    /\ forwarding' = changes[r].enabled
    /\ Goto(r, "check")
    /\ UNCHANGED <<persisted, accepts, historyVars>>

Check_Appends(r) ==
    /\ changes[r].pc = "check"
    /\ \/ /\ changes[r].enabled \/ accepts > 0
          /\ Goto(r, "switch")
          /\ UNCHANGED historyVars
       \/ ~changes[r].enabled /\ accepts = 0 /\ Finish(r)
    /\ UNCHANGED settingVars

(* iptables -C *)
Check(r) ==
    /\ changes[r].pc = "check"
    /\ \/ /\ (changes[r].enabled <=> accepts = 0)
          /\ Goto(r, "switch")
          /\ UNCHANGED historyVars
       \/ (changes[r].enabled <=> accepts > 0) /\ Finish(r)
    /\ UNCHANGED settingVars

(* iptables -A, or -D of one copy, which fails when there is none. *)
Switch(r) ==
    /\ changes[r].pc = "switch"
    /\ \/ changes[r].enabled /\ accepts' = accepts + 1 /\ Finish(r)
       \/ ~changes[r].enabled /\ accepts > 0 /\ accepts' = accepts - 1 /\ Finish(r)
       \/ ~changes[r].enabled /\ accepts = 0 /\ UNCHANGED accepts /\ Abandon(r)
    /\ UNCHANGED <<persisted, forwarding>>

SetForward(r) == Truncate(r) \/ Write(r) \/ Apply(r) \/ Check(r) \/ Switch(r)

-----------------------------------------------------------------------------
(* A write or a command fails. *)
ForwardFails(r) ==
    /\ InFlight(r)
    /\ Abandon(r)
    /\ UNCHANGED settingVars

(* iptables -C fails though the rule is there (it does not wait for another
   iptables): a second copy will be added, or the rule stays and the handler
   answers success. *)
CheckFails(r) ==
    /\ changes[r].pc = "check"
    /\ changes' = [Disturbed(changes) EXCEPT
           ![r] = IF changes[r].enabled
                  THEN [changes[r] EXCEPT !.pc = "switch"] ELSE NoChange]
    /\ spoiled' = spoiled \cup {"copies"}
    /\ UNCHANGED <<settingVars, agreed>>

(* Others on the host use the switch, or flush the chain. *)
Sysctl ==
    /\ forwarding' = ~forwarding
    /\ changes' = Disturbed(changes)
    /\ agreed' = None
    /\ UNCHANGED <<persisted, accepts, spoiled>>

Flush ==
    /\ accepts' = 0
    /\ spoiled' = spoiled \cup {"rule"}
    /\ UNCHANGED <<persisted, forwarding, changes, agreed>>

DropChanges_Keeps == UNCHANGED changes

(* The process ends: the handlers with it. *)
DropChanges == changes' = [r \in Requests |-> NoChange]

(* systemd-sysctl reads the file at boot; the chain starts empty. *)
ForgetSetting ==
    /\ forwarding' \in IF persisted = None THEN BOOLEAN ELSE {persisted}
    /\ accepts' = 0
    /\ spoiled' = {}
    /\ UNCHANGED <<persisted, agreed>>

ForwardingInit ==
    /\ persisted = None
    /\ forwarding \in BOOLEAN
    /\ accepts = 0
    /\ changes = [r \in Requests |-> NoChange]
    /\ agreed = None
    /\ spoiled = {}

ForwardingTypeOK ==
    /\ persisted \in BOOLEAN \cup {None}
    /\ forwarding \in BOOLEAN
    /\ accepts \in Nat
    /\ changes \in [Requests -> Change]
    /\ agreed \in BOOLEAN \cup {None}
    /\ spoiled \subseteq {"rule", "copies"}
=============================================================================
