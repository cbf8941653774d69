---------------------------- MODULE ServiceSafety ----------------------------
(***************************************************************************)
(* Safety of Service for any number of requests, starts and mishaps: what  *)
(* a start leaves behind before the process serves, and what becomes of    *)
(* the forwarding setting.                                                 *)
(***************************************************************************)
EXTENDS Service, SequenceTheorems, TLAPS

LEMMA OrderLength == Len(Order) \in Nat /\ Len(Tables) \in Nat
  BY DEF Order, Tables, Columns

-----------------------------------------------------------------------------
(* Types. *)

LEMMA MigrateTypes ==
    ASSUME MigrationTypeOK, Migrate \/ InspectCutShort
    PROVE  MigrationTypeOK'
  <1>0. Len(Order) = 8 /\ Len(Tables) = 4 /\ Later \subseteq Objects
    BY DEF Order, Tables, Columns, Later, Objects
  <1>1. migration.next \in 1..(Len(Order) + 1)
    BY DEF MigrationTypeOK
  <1>2. CASE CreateObject
    <2>1. migration.next \in 1..Len(Order)
      BY <1>0, <1>1, <1>2 DEF CreateObject
    <2>2. Subject \in Objects
      BY <2>1 DEF Subject, Objects
    <2> QED
      BY <1>0, <1>2, <2>1, <2>2 DEF MigrationTypeOK, CreateObject, Advance, AtColumn
  <1>3. CASE Inspect \/ InspectCutShort
    BY <1>0, <1>1, <1>3 DEF MigrationTypeOK, Inspect, InspectCutShort, Advance, AtColumn,
       Migrated
  <1>4. CASE AddColumn
    <2>1. migration.next \in 1..Len(Order)
      BY <1>0, <1>1, <1>4 DEF AddColumn, AtColumn, Migrated
    <2>2. Subject \in Objects
      BY <2>1 DEF Subject, Objects
    <2> QED
      BY <1>0, <1>4, <2>1, <2>2 DEF MigrationTypeOK, AddColumn, Advance, AtColumn
  <1> QED
    BY <1>2, <1>3, <1>4 DEF Migrate

LEMMA OpenTypes ==
    ASSUME MigrationTypeOK, Next
    PROVE  MigrationTypeOK'
  <1>0. Len(Order) \in Nat /\ Len(Tables) \in Nat
    BY OrderLength
  <1>1. CASE UNCHANGED migrationVars
    BY <1>1 DEF migrationVars, MigrationTypeOK, AtColumn, Migrated
  <1>2. CASE Open \/ PragmaFails
    BY <1>1, <1>2, MigrateTypes DEF Open, PragmaFails
  <1>3. CASE Start
    BY <1>0, <1>3 DEF Start, Beginning, MigrationTypeOK
  <1>4. CASE \E purge \in BOOLEAN : Stop(purge)
    BY <1>4 DEF Stop, MigrationTypeOK, AtColumn, Migrated
  <1> QED
    BY <1>1, <1>2, <1>3, <1>4
    DEF Next, Calm, Mishap, Startup, ExitOnDuplicate, Serve, IntervalPasses,
        OperatorStarts, ReadForwarding, CheckRule, AppendRule, RestoreFails,
        ChangeFails, Exit, PowerOff, Others

LEMMA DisturbedTypes ==
    ASSUME changes \in [Requests -> Change]
    PROVE  /\ Disturbed(changes) \in [Requests -> Change]
           /\ \A r \in Requests : /\ Disturbed(changes)[r].pc = changes[r].pc
                                 /\ ~Disturbed(changes)[r].alone
  BY DEF Disturbed, Change

(* What a handler's step does to the variables of its kind. *)
LEMMA HandlerTypes ==
    ASSUME ForwardingTypeOK, NEW r \in Requests,
           AskForward(r) \/ SetForward(r) \/ ForwardFails(r) \/ CheckFails(r)
    PROVE  ForwardingTypeOK'
  <1> USE DEF ForwardingTypeOK, Change, settingVars, historyVars
  <1>0. NoChange \in Change
    BY DEF NoChange
  <1>1. changes[r] \in Change /\ \A q \in Requests : changes[q] \in Change
    OBVIOUS
  <1>2. CASE AskForward(r)
    <2>1. PICK enabled \in BOOLEAN, alone \in BOOLEAN :
              changes' = [Disturbed(changes) EXCEPT
                  ![r] = [pc |-> "persist", enabled |-> enabled, alone |-> alone]]
      BY <1>2, Zenon DEF AskForward
    <2>2. changes' \in [Requests -> Change]
      BY <2>1, DisturbedTypes
    <2>3. spoiled' \subseteq {"rule", "copies"} /\ agreed' = None
      BY <1>2 DEF AskForward
    <2>4. UNCHANGED settingVars
      BY <1>2 DEF AskForward
    <2> QED
      BY <2>2, <2>3, <2>4
  <1>3. CASE Truncate(r) \/ Write(r) \/ Apply(r)
    BY <1>1, <1>3 DEF Truncate, Write, Apply, Goto
  <1>4. ASSUME Finish(r) PROVE /\ changes' \in [Requests -> Change]
                               /\ agreed' \in BOOLEAN \cup {None}
                               /\ spoiled' \subseteq {"rule", "copies"}
    BY <1>0, <1>1, <1>4 DEF Finish
  <1>5. ASSUME Abandon(r) PROVE /\ changes' \in [Requests -> Change]
                                /\ agreed' \in BOOLEAN \cup {None}
                                /\ spoiled' \subseteq {"rule", "copies"}
    BY <1>0, <1>5 DEF Abandon
  <1>6. CASE Check(r)
    BY <1>1, <1>4, <1>6 DEF Check, Goto
  <1>7. CASE Switch(r)
    BY <1>1, <1>4, <1>5, <1>7 DEF Switch
  <1>8. CASE ForwardFails(r)
    BY <1>5, <1>8 DEF ForwardFails
  <1>9. CASE CheckFails(r)
    BY <1>0, <1>1, <1>9 DEF CheckFails, Disturbed
  <1> QED
    BY <1>2, <1>3, <1>6, <1>7, <1>8, <1>9 DEF SetForward

LEMMA SettingTypes ==
    ASSUME ForwardingTypeOK, Next
    PROVE  ForwardingTypeOK'
  <1> USE DEF ForwardingTypeOK, settingVars, historyVars, forwardingVars
  <1>0. [r \in Requests |-> NoChange] \in [Requests -> Change]
    BY DEF NoChange, Change
  <1>1. CASE UNCHANGED forwardingVars
    BY <1>1
  <1>2. CASE Serve \/ ChangeFails
    BY <1>2, HandlerTypes DEF Serve, ChangeFails
  <1>3. CASE CheckRule \/ AppendRule \/ RestoreFails
    <2>1. CASE CheckRule
      BY <2>1 DEF CheckRule
    <2>2. CASE AppendRule
      BY <2>2 DEF AppendRule
    <2>3. CASE RestoreFails
      BY <2>3 DEF RestoreFails
    <2> QED
      BY <1>3, <2>1, <2>2, <2>3
  <1>4. CASE Exit \/ \E purge \in BOOLEAN : Stop(purge)
    BY <1>0, <1>4 DEF Exit, Stop, DropChanges
  <1>5. CASE PowerOff
    BY <1>0, <1>5 DEF PowerOff, DropChanges, ForgetSetting
  <1>6. CASE Others
    <2>1. CASE Flush
      BY <2>1 DEF Flush
    <2>2. CASE Sysctl
      <3>1. forwarding' \in BOOLEAN
        BY <2>2, Zenon DEF Sysctl
      <3>2. changes' \in [Requests -> Change]
        BY <2>2, DisturbedTypes DEF Sysctl
      <3> QED
        BY <2>2, <3>1, <3>2 DEF Sysctl
    <2> QED
      BY <1>6, <2>1, <2>2 DEF Others
  <1> QED
    BY <1>1, <1>2, <1>3, <1>4, <1>5, <1>6
    DEF Next, Calm, Mishap, Startup, ExitOnDuplicate, Start, Open,
        IntervalPasses, OperatorStarts, ReadForwarding, PragmaFails

(* A request is under way only while the process serves. *)
Attended == (\E r \in Requests : InFlight(r)) => phase = "serve"

LEMMA AttendedKept ==
    ASSUME Attended, ForwardingTypeOK, Next
    PROVE  Attended'
  <1> USE DEF Attended, InFlight
  <1>1. CASE Serve \/ ChangeFails
    BY <1>1 DEF Serve, ChangeFails
  <1>2. CASE UNCHANGED changes /\ phase # "serve"
    BY <1>2
  <1>3. CASE DropChanges
    BY <1>3 DEF DropChanges, NoChange
  <1>4. CASE Others
    BY <1>4, DisturbedTypes DEF Others, Sysctl, Flush, ForwardingTypeOK
  <1>5. CASE IntervalPasses
    BY <1>5 DEF IntervalPasses, forwardingVars
  <1> QED
    BY <1>1, <1>2, <1>3, <1>4, <1>5
    DEF Next, Calm, Mishap, Startup, ExitOnDuplicate, Start, Open, Restoring,
        OperatorStarts, ReadForwarding, CheckRule, AppendRule, RestoreFails,
        PragmaFails, Exit, PowerOff, Stop, forwardingVars

LEMMA PhaseTypes ==
    ASSUME ServiceTypeOK, Next
    PROVE  phase' \in Running \cup Resting /\ starts' \in Nat
  BY DEF ServiceTypeOK, Next, Calm, Mishap, Startup, ExitOnDuplicate, Start, Open,
     Restoring, Running, Resting, Serve, IntervalPasses, OperatorStarts,
     ReadForwarding, CheckRule, AppendRule, RestoreFails, ChangeFails,
     PragmaFails, Exit, PowerOff, Others, Stop

(* Every variable keeps its type, and no request outlives its process. *)
THEOREM ServiceTypeCorrect == Spec => []ServiceTypeOK
  <1>1. Init => ServiceTypeOK
    <2> SUFFICES ASSUME Init PROVE ServiceTypeOK
      OBVIOUS
    <2>1. MigrationTypeOK
      <3>1. Len(Order) = 8 /\ Len(Tables) = 4 /\ Later \subseteq Objects
        BY DEF Order, Tables, Columns, Later, Objects
      <3>2. schema \subseteq Objects
        BY <3>1 DEF Init, MigrationInit
      <3>3. migration = [next |-> 1, pc |-> "look"]
        BY DEF Init, MigrationInit, Beginning
      <3> QED
        BY <3>1, <3>2, <3>3 DEF MigrationTypeOK
    <2> QED
      BY <2>1 DEF Init, ForwardingInit, ForwardingTypeOK, NoChange, Change,
         InFlight, ServiceTypeOK, Running, Resting
  <1>2. ServiceTypeOK /\ [Next]_vars => ServiceTypeOK'
    <2> SUFFICES ASSUME ServiceTypeOK, [Next]_vars PROVE ServiceTypeOK'
      OBVIOUS
    <2>1. CASE Next
      <3>1. MigrationTypeOK' /\ ForwardingTypeOK'
        BY <2>1, OpenTypes, SettingTypes DEF ServiceTypeOK
      <3>2. Attended'
        BY <2>1, AttendedKept DEF ServiceTypeOK, Attended
      <3> QED
        BY <2>1, <3>1, <3>2, PhaseTypes DEF ServiceTypeOK, Attended
    <2>2. CASE UNCHANGED vars
      BY <2>2 DEF vars, migrationVars, forwardingVars, settingVars, historyVars,
         ServiceTypeOK, MigrationTypeOK, ForwardingTypeOK, AtColumn, Migrated,
         InFlight
    <2> QED
      BY <2>1, <2>2
  <1> QED
    BY <1>1, <1>2, PTL DEF Spec

-----------------------------------------------------------------------------
(* What migrate has gone through is there, and all of it once it is done. *)
MigratedSoFar ==
    /\ phase = "open" =>
           \A i \in 1..Len(Order) : i < migration.next => Order[i] \in schema
    /\ SchemaComplete

LEMMA MigrateAdvances ==
    ASSUME MigrationTypeOK, MigratedSoFar, Open \/ PragmaFails
    PROVE  MigratedSoFar'
  <1> USE DEF MigratedSoFar, SchemaComplete
  <1>0. Len(Order) \in Nat /\ migration.next \in 1..(Len(Order) + 1)
    BY OrderLength DEF MigrationTypeOK
  <1>1. phase = "open"
    BY DEF Open, PragmaFails
  <1>2. CASE Migrated /\ phase' = "read" /\ UNCHANGED migrationVars
    BY <1>0, <1>1, <1>2 DEF Migrated, Objects, Restoring, migrationVars
  <1>3. CASE Migrate /\ UNCHANGED phase
    <2>1. migration'.next = migration.next \/ migration'.next = migration.next + 1
      BY <1>0, <1>3 DEF Migrate, CreateObject, Inspect, AddColumn, Advance,
         MigrationTypeOK
    <2>2. migration'.next = migration.next + 1 => Subject \in schema'
      BY <1>0, <1>3 DEF Migrate, CreateObject, Inspect, AddColumn, Advance,
         MigrationTypeOK
    <2>3. schema \subseteq schema'
      BY <1>3 DEF Migrate, CreateObject, Inspect, AddColumn
    <2> QED
      BY <1>0, <1>1, <1>3, <2>1, <2>2, <2>3 DEF Subject, Restoring
  <1>4. CASE InspectCutShort /\ UNCHANGED phase
    BY <1>0, <1>1, <1>4 DEF InspectCutShort, MigrationTypeOK, Restoring
  <1> QED
    BY <1>2, <1>3, <1>4 DEF Open, PragmaFails

(* Whatever file an earlier release has left and wherever an earlier start has
   been stopped, the store is used with all its tables and columns. *)
THEOREM SchemaCorrect == Spec => []SchemaComplete
  <1>1. Init => MigratedSoFar
    BY DEF Init, MigratedSoFar, SchemaComplete, Restoring
  <1>2. ServiceTypeOK /\ MigratedSoFar /\ [Next]_vars => MigratedSoFar'
    <2> SUFFICES ASSUME ServiceTypeOK, MigratedSoFar, [Next]_vars
                 PROVE  MigratedSoFar'
      OBVIOUS
    <2> USE DEF MigratedSoFar, SchemaComplete
    <2>1. CASE Open \/ PragmaFails
      BY <2>1, MigrateAdvances DEF ServiceTypeOK
    <2>2. CASE Start
      BY <2>2, OrderLength DEF Start, Beginning, Restoring
    <2>3. CASE UNCHANGED migrationVars /\ phase' # "open"
                 /\ phase \in Restoring \cup {"serve"}
      BY <2>3 DEF migrationVars
    <2>4. CASE phase' \notin Running
      BY <2>4 DEF Running
    <2>5. CASE UNCHANGED <<migrationVars, phase>>
      BY <2>5 DEF migrationVars
    <2> QED
      BY <2>1, <2>2, <2>3, <2>4, <2>5
      DEF vars, Next, Calm, Mishap, Startup, ExitOnDuplicate, Serve,
          IntervalPasses, OperatorStarts, ReadForwarding, CheckRule, AppendRule,
          RestoreFails, ChangeFails, Exit, PowerOff, Others, Stop, Running,
          Restoring
  <1> QED
    BY <1>1, <1>2, ServiceTypeCorrect, PTL DEF Spec, MigratedSoFar

-----------------------------------------------------------------------------
(* Unless a copy too many may exist: one request at a time, and whoever is
   about to append has found no rule, and there is none. *)
AppendsWhatLacks ==
    "copies" \notin spoiled =>
        /\ accepts <= 1
        /\ \A r1, r2 \in Requests : InFlight(r1) /\ InFlight(r2) => r1 = r2
        /\ \A r \in Requests :
               changes[r].pc = "switch" /\ changes[r].enabled => accepts = 0
        /\ phase = "append" => accepts = 0

-----------------------------------------------------------------------------
(* How far a request on its own has got. *)
Underway ==
    \A r \in Requests :
        changes[r].alone =>
            /\ InFlight(r)
            /\ \A other \in Requests \ {r} : ~InFlight(other)
            /\ changes[r].pc \in {"apply", "check", "switch"}
                   => persisted = changes[r].enabled
            /\ changes[r].pc \in {"check", "switch"}
                   => forwarding = changes[r].enabled

(* What everybody agrees on stays so, also while the process is down. *)
Agreement ==
    agreed # None =>
        /\ persisted = agreed
        /\ forwarding = agreed
        /\ \A r \in Requests : ~InFlight(r)
        /\ ~agreed => phase \notin {"check", "append"}
        /\ ~agreed /\ "copies" \notin spoiled => accepts = 0
        /\ agreed /\ phase = "serve" /\ "rule" \notin spoiled => accepts > 0

-----------------------------------------------------------------------------
RuleInv == ServiceTypeOK /\ AppendsWhatLacks

LEMMA HandlerAppends ==
    ASSUME RuleInv, NEW r \in Requests, UNCHANGED phase, phase = "serve",
           AskForward(r) \/ SetForward(r) \/ ForwardFails(r) \/ CheckFails(r)
    PROVE  AppendsWhatLacks'
  <1> USE DEF InFlight
  <1> SUFFICES ASSUME "copies" \notin spoiled'
               PROVE  /\ accepts' <= 1
                      /\ \A r1, r2 \in Requests :
                             InFlight(r1)' /\ InFlight(r2)' => r1 = r2
                      /\ \A q \in Requests :
                             changes'[q].pc = "switch" /\ changes'[q].enabled
                                 => accepts' = 0
    BY DEF AppendsWhatLacks
  <1>0. /\ changes \in [Requests -> Change]
        /\ accepts \in Nat
        /\ changes[r] \in Change
    BY DEF RuleInv, ServiceTypeOK, ForwardingTypeOK
  <1>1. "copies" \notin spoiled
    BY DEF AskForward, SetForward, Truncate, Write, Apply, Check, Switch, Finish,
       Abandon, ForwardFails, CheckFails, historyVars
  <1>2. /\ accepts <= 1
        /\ \A r1, r2 \in Requests : InFlight(r1) /\ InFlight(r2) => r1 = r2
        /\ \A q \in Requests :
               changes[q].pc = "switch" /\ changes[q].enabled => accepts = 0
    BY <1>1 DEF RuleInv, AppendsWhatLacks
  <1>3. CASE AskForward(r)
    <2>1. \A other \in Requests \ {r} : ~InFlight(other)
      BY <1>3 DEF AskForward
    <2>2. \A other \in Requests \ {r} : changes'[other].pc = changes[other].pc
      BY <1>0, <1>3, DisturbedTypes DEF AskForward
    <2>3. changes'[r].pc = "persist" /\ UNCHANGED accepts
      BY <1>0, <1>3, DisturbedTypes DEF AskForward, settingVars
    <2> QED
      BY <1>2, <2>1, <2>2, <2>3
  <1>4. ASSUME changes' = [changes EXCEPT ![r] = NoChange], accepts' <= 1
        PROVE  /\ \A r1, r2 \in Requests :
                       InFlight(r1)' /\ InFlight(r2)' => r1 = r2
               /\ \A q \in Requests : changes'[q].pc # "switch" \/ InFlight(q)
               /\ \A q \in Requests \ {r} : changes'[q] = changes[q]
               /\ changes'[r] = NoChange
    BY <1>0, <1>2, <1>4 DEF NoChange
  <1>5. CASE Truncate(r) \/ Write(r) \/ Apply(r)
    BY <1>0, <1>2, <1>5 DEF Truncate, Write, Apply, Goto, Change
  <1>6. CASE ForwardFails(r)
    BY <1>0, <1>2, <1>4, <1>6 DEF ForwardFails, Abandon, NoChange, settingVars
  <1>7. CASE Check(r)
    <2>1. CASE (changes[r].enabled <=> accepts > 0) /\ Finish(r)
      BY <1>0, <1>2, <1>4, <1>7, <2>1 DEF Check, Finish, NoChange, settingVars
    <2>2. CASE (changes[r].enabled <=> accepts = 0) /\ Goto(r, "switch")
      BY <1>0, <1>2, <1>7, <2>2 DEF Check, Goto, Change, settingVars
    <2> QED
      BY <1>7, <2>1, <2>2 DEF Check
  <1>8. CASE Switch(r)
    <2>1. \A q \in Requests \ {r} : ~InFlight(q)
      BY <1>2, <1>8 DEF Switch
    <2>2. changes' = [changes EXCEPT ![r] = NoChange]
      BY <1>8 DEF Switch, Finish, Abandon
    <2>3. accepts' <= 1
      BY <1>0, <1>2, <1>8 DEF Switch
    <2> QED
      BY <1>0, <2>1, <2>2, <2>3 DEF NoChange
  <1>9. CASE CheckFails(r)
    BY <1>9 DEF CheckFails
  <1> QED
    BY <1>3, <1>5, <1>6, <1>7, <1>8, <1>9 DEF SetForward

LEMMA RuleStep == RuleInv /\ [Next]_vars => AppendsWhatLacks'
  <1> SUFFICES ASSUME RuleInv, [Next]_vars PROVE AppendsWhatLacks'
    OBVIOUS
  <1> USE DEF InFlight, AppendsWhatLacks
  <1>0. AppendsWhatLacks /\ changes \in [Requests -> Change] /\ accepts \in Nat
    BY DEF RuleInv, ServiceTypeOK, ForwardingTypeOK
  <1>1. CASE Serve \/ ChangeFails
    BY <1>1, HandlerAppends DEF Serve, ChangeFails
  <1>2. CASE UNCHANGED forwardingVars /\ phase' # "append"
    BY <1>0, <1>2 DEF forwardingVars, settingVars, historyVars
  <1>3. CASE UNCHANGED <<forwardingVars, phase>>
    BY <1>0, <1>3 DEF forwardingVars, settingVars, historyVars
  <1>4. CASE CheckRule
    BY <1>0, <1>4 DEF CheckRule, settingVars
  <1>5. CASE AppendRule
    <2>1. \A r \in Requests : ~InFlight(r)
      BY <1>5 DEF AppendRule, RuleInv, ServiceTypeOK
    <2> QED
      BY <1>0, <1>5, <2>1 DEF AppendRule
  <1>6. CASE RestoreFails
    BY <1>0, <1>6 DEF RestoreFails, settingVars
  <1>7. CASE Exit \/ \E purge \in BOOLEAN : Stop(purge)
    BY <1>0, <1>7 DEF Exit, Stop, DropChanges, NoChange, settingVars, historyVars
  <1>8. CASE PowerOff
    BY <1>8 DEF PowerOff, DropChanges, ForgetSetting, NoChange
  <1>9. CASE Others
    <2>1. CASE Flush
      BY <1>0, <1>9, <2>1 DEF Others, Flush
    <2>2. CASE Sysctl
      <3>1. \A r \in Requests : /\ changes'[r].pc = changes[r].pc
                                /\ changes'[r].enabled = changes[r].enabled
        BY <1>0, <2>2 DEF Sysctl, Disturbed, Change
      <3> QED
        BY <1>0, <1>9, <2>2, <3>1 DEF Others, Sysctl
    <2> QED
      BY <1>9, <2>1, <2>2 DEF Others
  <1> QED
    BY <1>1, <1>2, <1>3, <1>4, <1>5, <1>6, <1>7, <1>8, <1>9
    DEF vars, Next, Calm, Mishap, Startup, ExitOnDuplicate, Start, Open,
        IntervalPasses, OperatorStarts, ReadForwarding, PragmaFails

(* Looking before appending keeps the chain at one rule, whoever appends,
   unless two requests overlap or the look itself fails. *)
THEOREM OneRuleCorrect == Spec => []OneRule
  <1>1. Init => AppendsWhatLacks
    BY DEF Init, ForwardingInit, AppendsWhatLacks, NoChange, InFlight
  <1>2. AppendsWhatLacks => OneRule
    BY DEF AppendsWhatLacks, OneRule
  <1>3. ServiceTypeOK /\ AppendsWhatLacks /\ [Next]_vars => AppendsWhatLacks'
    BY RuleStep DEF RuleInv
  <1> QED
    BY <1>1, <1>2, <1>3, ServiceTypeCorrect, PTL DEF Spec

-----------------------------------------------------------------------------
SettingInv == ServiceTypeOK /\ AppendsWhatLacks /\ Underway /\ Agreement

(* A request that ends, with an error or without, takes its turn with it. *)
LEMMA Ends ==
    ASSUME SettingInv, NEW r \in Requests, InFlight(r), UNCHANGED phase,
           phase = "serve",
           changes' = [changes EXCEPT ![r] = NoChange],
           UNCHANGED persisted, UNCHANGED forwarding
    PROVE  Underway'
  BY DEF SettingInv, Underway, ServiceTypeOK, ForwardingTypeOK, InFlight, NoChange

LEMMA Abandons ==
    ASSUME SettingInv, NEW r \in Requests, InFlight(r), Abandon(r)
    PROVE  Agreement'
  <1>1. agreed = None
    BY DEF SettingInv, Agreement
  <1> QED
    BY <1>1 DEF Abandon, historyVars, Agreement

(* What the last handler standing leaves is what everybody agrees on. *)
LEMMA Finishes ==
    ASSUME SettingInv, NEW r \in Requests, Finish(r), UNCHANGED phase,
           phase = "serve", UNCHANGED persisted, UNCHANGED forwarding,
           changes[r].pc \in {"check", "switch"},
           changes[r].enabled => accepts' > 0,
           ~changes[r].enabled /\ "copies" \notin spoiled => accepts' = 0
    PROVE  Agreement'
  <1>0. changes \in [Requests -> Change] /\ InFlight(r)
    BY DEF SettingInv, ServiceTypeOK, ForwardingTypeOK, InFlight
  <1>1. CASE ~changes[r].alone
    BY <1>1 DEF Finish, Agreement
  <1>2. CASE changes[r].alone
    <2>1. /\ persisted = changes[r].enabled
          /\ forwarding = changes[r].enabled
          /\ \A other \in Requests \ {r} : ~InFlight(other)
      BY <1>2 DEF SettingInv, Underway
    <2>2. \A q \in Requests : changes'[q].pc = "idle"
      BY <1>0, <2>1 DEF Finish, InFlight, NoChange
    <2>3. agreed' = changes[r].enabled
      BY <1>2 DEF Finish
    <2>4. "copies" \notin spoiled' => "copies" \notin spoiled
      BY DEF Finish
    <2> QED
      BY <2>1, <2>2, <2>3, <2>4 DEF Agreement, InFlight
  <1> QED
    BY <1>1, <1>2

LEMMA HandlerSettles ==
    ASSUME SettingInv, NEW r \in Requests, UNCHANGED phase, phase = "serve",
           AskForward(r) \/ SetForward(r) \/ ForwardFails(r) \/ CheckFails(r)
    PROVE  Underway' /\ Agreement'
  <1>0. /\ changes \in [Requests -> Change]
        /\ changes[r] \in Change
        /\ accepts \in Nat
    BY DEF SettingInv, ServiceTypeOK, ForwardingTypeOK
  <1>1. CASE AskForward(r)
    <2>1. Agreement'
      BY <1>1 DEF AskForward, Agreement
    <2>2. \A other \in Requests \ {r} :
              /\ changes'[other].pc = changes[other].pc
              /\ ~changes'[other].alone
      BY <1>0, <1>1, DisturbedTypes DEF AskForward
    <2>3. changes'[r].pc = "persist"
      BY <1>0, <1>1, DisturbedTypes DEF AskForward
    <2>4. changes'[r].alone => \A other \in Requests \ {r} : ~InFlight(other)
      <3> DEFINE crowded == \E other \in Requests \ {r} : InFlight(other)
      <3>1. PICK enabled \in BOOLEAN :
                changes' = [Disturbed(changes) EXCEPT
                    ![r] = [pc |-> "persist", enabled |-> enabled,
                            alone |-> ~crowded]]
        BY <1>1, Zenon DEF AskForward
      <3> HIDE DEF crowded
      <3>2. changes'[r].alone = ~crowded
        BY <1>0, <3>1, DisturbedTypes
      <3>3. changes'[r].alone => ~crowded
        BY <3>2, Zenon
      <3> QED
        BY <3>3 DEF crowded
    <2>5. Underway'
      BY <2>2, <2>3, <2>4 DEF Underway, InFlight
    <2> QED
      BY <2>1, <2>5
  <1>2. CASE Truncate(r) \/ Write(r) \/ Apply(r)
    <2>1. InFlight(r)
      BY <1>2 DEF Truncate, Write, Apply, InFlight
    <2>2. agreed = None
      BY <2>1 DEF SettingInv, Agreement
    <2>3. Agreement'
      BY <1>2, <2>2 DEF Truncate, Write, Apply, historyVars, Agreement
    <2>4. \A q \in Requests : changes[q].alone => q = r
      BY <2>1 DEF SettingInv, Underway
    <2>5. Underway'
      BY <1>0, <1>2, <2>1, <2>4
      DEF SettingInv, Underway, Truncate, Write, Apply, Goto, InFlight, Change
    <2> QED
      BY <2>3, <2>5
  <1>3. CASE Check(r)
    <2>1. InFlight(r) /\ agreed = None
      BY <1>3 DEF Check, InFlight, SettingInv, Agreement
    <2>2. CASE (changes[r].enabled <=> accepts > 0) /\ Finish(r)
      <3>1. Agreement'
        BY <1>0, <1>3, <2>2, Finishes DEF Check, settingVars
      <3> QED
        BY <1>3, <2>1, <2>2, <3>1, Ends DEF Check, settingVars, Finish
    <2>3. CASE Goto(r, "switch") /\ UNCHANGED historyVars
      <3>1. Agreement'
        BY <2>1, <2>3 DEF historyVars, Agreement
      <3>2. Underway'
        BY <1>0, <1>3, <2>3
        DEF SettingInv, Underway, Check, Goto, InFlight, Change, settingVars
      <3> QED
        BY <3>1, <3>2
    <2> QED
      BY <1>3, <2>2, <2>3 DEF Check
  <1>4. CASE Switch(r)
    <2>1. InFlight(r) /\ UNCHANGED persisted /\ UNCHANGED forwarding
      BY <1>4 DEF Switch, InFlight
    <2>2. changes' = [changes EXCEPT ![r] = NoChange]
      BY <1>4 DEF Switch, Finish, Abandon
    <2>3. Underway'
      BY <2>1, <2>2, Ends
    <2>4. CASE Abandon(r)
      BY <2>1, <2>3, <2>4, Abandons
    <2>5. CASE changes[r].enabled /\ accepts' = accepts + 1 /\ Finish(r)
      BY <1>0, <1>4, <2>1, <2>3, <2>5, Finishes DEF Switch
    <2>6. CASE ~changes[r].enabled /\ accepts > 0 /\ accepts' = accepts - 1
                  /\ Finish(r)
      <3>1. "copies" \notin spoiled => accepts' = 0
        BY <1>0, <2>6 DEF SettingInv, AppendsWhatLacks
      <3> QED
        BY <1>4, <2>1, <2>3, <2>6, <3>1, Finishes DEF Switch
    <2> QED
      BY <1>4, <2>4, <2>5, <2>6 DEF Switch
  <1>5. CASE ForwardFails(r)
    BY <1>5, Abandons, Ends DEF ForwardFails, Abandon, settingVars
  <1>6. CASE CheckFails(r)
    <2>1. agreed = None
      BY <1>6 DEF CheckFails, InFlight, SettingInv, Agreement
    <2>2. Agreement'
      BY <1>6, <2>1 DEF CheckFails, Agreement
    <2>3. \A other \in Requests \ {r} : ~changes'[other].alone
      BY <1>0, <1>6, DisturbedTypes DEF CheckFails
    <2>4. changes'[r].alone =>
              /\ changes[r].alone
              /\ changes'[r].pc = "switch"
              /\ changes'[r].enabled = changes[r].enabled
      BY <1>0, <1>6, DisturbedTypes DEF CheckFails, NoChange, Change
    <2>5. \A other \in Requests \ {r} : changes'[other].pc = changes[other].pc
      BY <1>0, <1>6, DisturbedTypes DEF CheckFails
    <2>6. Underway'
      BY <1>6, <2>3, <2>4, <2>5
      DEF CheckFails, settingVars, SettingInv, Underway, InFlight
    <2> QED
      BY <2>2, <2>6
  <1> QED
    BY <1>1, <1>2, <1>3, <1>4, <1>5, <1>6 DEF SetForward

LEMMA SettingStep ==
    SettingInv /\ [Next]_vars => Underway' /\ Agreement'
  <1> SUFFICES ASSUME SettingInv, [Next]_vars PROVE Underway' /\ Agreement'
    OBVIOUS
  <1>0. /\ Underway /\ Agreement
        /\ changes \in [Requests -> Change] /\ accepts \in Nat
        /\ forwarding \in BOOLEAN /\ persisted \in BOOLEAN \cup {None}
        /\ agreed \in BOOLEAN \cup {None}
    BY DEF SettingInv, ServiceTypeOK, ForwardingTypeOK
  <1>1. CASE Serve \/ ChangeFails
    BY <1>1, HandlerSettles DEF Serve, ChangeFails
  <1>2. CASE /\ UNCHANGED forwardingVars
             /\ phase' = phase \/ phase' \notin {"check", "append", "serve"}
    BY <1>0, <1>2
    DEF forwardingVars, settingVars, historyVars, Underway, Agreement, InFlight
  <1>3. CASE ReadForwarding
    BY <1>0, <1>3
    DEF ReadForwarding, forwardingVars, settingVars, historyVars, Underway,
        Agreement, InFlight
  <1>4. CASE CheckRule \/ RestoreFails
    BY <1>0, <1>4
    DEF CheckRule, RestoreFails, settingVars, Underway, Agreement, InFlight, Restoring
  <1>5. CASE AppendRule
    BY <1>0, <1>5 DEF AppendRule, Underway, Agreement, InFlight
  <1>6. ASSUME DropChanges
        PROVE  Underway' /\ \A r \in Requests : ~InFlight(r)'
    BY <1>6 DEF DropChanges, NoChange, Underway, InFlight
  <1>7. CASE Exit \/ \E purge \in BOOLEAN : Stop(purge)
    BY <1>0, <1>6, <1>7 DEF Exit, Stop, settingVars, historyVars, Agreement
  <1>8. CASE PowerOff
    <2>1. agreed # None => forwarding' = agreed
      BY <1>0, <1>8 DEF PowerOff, ForgetSetting, Agreement
    <2> QED
      BY <1>0, <1>6, <1>8, <2>1 DEF PowerOff, ForgetSetting, Agreement
  <1>9. CASE Others
    <2>1. CASE Flush
      BY <1>0, <1>9, <2>1 DEF Others, Flush, Underway, Agreement, InFlight
    <2>2. CASE Sysctl
      <3>1. Underway'
        BY <1>0, <2>2, DisturbedTypes DEF Sysctl, Underway
      <3> QED
        BY <2>2, <3>1 DEF Sysctl, Agreement
    <2> QED
      BY <1>9, <2>1, <2>2 DEF Others
  <1> QED
    BY <1>1, <1>2, <1>3, <1>4, <1>5, <1>7, <1>8, <1>9
    DEF vars, Next, Calm, Mishap, Startup, ExitOnDuplicate, Start, Open,
        IntervalPasses, OperatorStarts, PragmaFails

(* The setting that was made last, undisturbed, is that of the file, of the
   switch and of the chain whenever the process serves. *)
THEOREM SettingCorrect == Spec => []SettingHolds
  <1>1. Init => AppendsWhatLacks /\ Underway /\ Agreement
    BY DEF Init, ForwardingInit, AppendsWhatLacks, Underway, Agreement, NoChange,
       InFlight
  <1>2. /\ ServiceTypeOK /\ AppendsWhatLacks /\ Underway /\ Agreement
        /\ [Next]_vars
        => (AppendsWhatLacks /\ Underway /\ Agreement)'
    BY RuleStep, SettingStep DEF RuleInv, SettingInv
  <1>3. Agreement => SettingHolds
    BY DEF Agreement, SettingHolds
  <1> QED
    BY <1>1, <1>2, <1>3, ServiceTypeCorrect, PTL DEF Spec
=============================================================================
