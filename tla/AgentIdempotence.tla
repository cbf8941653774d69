-------------------------- MODULE AgentIdempotence --------------------------
(***************************************************************************)
(* What is in order the controller keeps in order, and of its link nothing *)
(* changes but that the address goes and comes.                            *)
(***************************************************************************)
EXTENDS AgentOwnership

(* Where a call under way may only be for a row like this one. *)
Directs(row) ==
    /\ call.pc = "up" => row.desired # "disabled"
    /\ call.pc = "down" => row.desired = "disabled"

LEMMA WorkDirects ==
    ASSUME ProviderTypeOK, NEW id, NEW row, Directs(row), Work(id, row)
    PROVE  Directs(row)'
  <1> USE CallFields DEF Directs
  <1>1. CASE Find(id, row)
    BY <1>1 DEF Find
  <1>2. CASE Replace(row) \/ Add(id, row) \/ Recover(id, row) \/ Load(row)
    BY <1>2 DEF Replace, Add, Recover, Load, Configure
  <1>3. CASE Alias(id, row) \/ Verify(id, row) \/ AliasByName(id, row)
                 \/ VerifyByName(id, row)
    BY <1>3 DEF Alias, Verify, AliasByName, VerifyByName, Configure
  <1>4. CASE SetMTU(row) \/ SetUp(row) \/ SetDown(row)
    BY <1>4 DEF SetMTU, SetUp, SetDown, Configure
  <1>5. CASE ListAddresses(row)
    BY <1>5 DEF ListAddresses, ProviderTypeOK
  <1>6. CASE DropAddress(row)
    BY <1>6 DEF DropAddress, ProviderTypeOK
  <1>7. CASE Assign(row)
    BY <1>7 DEF Assign, Configure
  <1>8. CASE FindEgress
    BY <1>8 DEF FindEgress, ProviderTypeOK
  <1>9. CASE MarkRule(id, row) \/ NatRule(id, row)
    BY <1>9 DEF MarkRule, NatRule, AfterRules
  <1>10. CASE Lookup(id, row) \/ Unlink(row) \/ Observe(id, row)
    BY <1>10 DEF Lookup, Unlink, Observe
  <1> QED BY <1>1, <1>2, <1>3, <1>4, <1>5, <1>6, <1>7, <1>8, <1>9, <1>10
      DEF Work

-----------------------------------------------------------------------------
(* A link set to what it is. *)
LEMMA SetToItself ==
    ASSUME HostTypeOK, NEW name \in Names, SetLink(name, links[name])
    PROVE  UNCHANGED links
  BY DEF HostTypeOK, SetLink

(* What a link that fits is set to, it is already. *)
LEMMA FittingStays ==
    ASSUME HostTypeOK, NEW id \in Ids, NEW row \in Row, Fits(id, row),
           LET link == links[row.name]
           IN  \/ SetLink(row.name, [link EXCEPT !.alias = id])
               \/ SetLink(row.name, [link EXCEPT !.mtu = row.config.mtu])
               \/ SetLink(row.name, [link EXCEPT !.up = (row.desired = "enabled")])
    PROVE  UNCHANGED links
  <1> DEFINE link == links[row.name]
  <1>1. row.name \in Names /\ Present(row.name)
    BY RowTypes DEF Fits, Owned
  <1>2. link \in Link
    BY <1>1, LinkTypes
  <1>3. /\ link.alias = id
        /\ link.mtu = row.config.mtu
        /\ link.up = (row.desired = "enabled")
    BY DEF Fits, Owned
  <1>4. [link EXCEPT !.alias = id] = link
    BY <1>2, <1>3 DEF Link
  <1>5. [link EXCEPT !.mtu = row.config.mtu] = link
    BY <1>2, <1>3 DEF Link
  <1>6. [link EXCEPT !.up = (row.desired = "enabled")] = link
    BY <1>2, <1>3 DEF Link
  <1>7. SetLink(row.name, link)
    BY <1>4, <1>5, <1>6
  <1> QED BY <1>1, <1>7, SetToItself

(* A link that fits still does with fewer addresses, or with the one. *)
LEMMA ReaddressedFits ==
    ASSUME HostTypeOK, NEW id \in Ids, NEW row \in Row, Fits(id, row),
           NEW addresses \in SUBSET Addresses,
           SetLink(row.name,
                   [links[row.name] EXCEPT !.addresses = addresses])
    PROVE  /\ Fits(id, row)'
           /\ SameButAddresses(row.name)
           /\ links'[row.name].addresses = addresses
  <1> DEFINE link == links[row.name]
             new == [link EXCEPT !.addresses = addresses]
  <1>1. row.name \in Names /\ Present(row.name)
    BY RowTypes DEF Fits, Owned
  <1>2. link \in Link
    BY <1>1, LinkTypes
  <1>3. links'[row.name] = new
    BY <1>1 DEF SetLink, HostTypeOK
  <1>4. new \in Link
    BY <1>2 DEF Link
  <1>5. /\ new.addresses = addresses
        /\ new.alias = link.alias /\ new.endpoints = link.endpoints
        /\ new.ttl = link.ttl /\ new.mtu = link.mtu /\ new.up = link.up
        /\ new = [link EXCEPT !.addresses = new.addresses]
    BY <1>2 DEF Link
  <1>6. new # None
    BY <1>4, NoneIsNoLinkAssumption
  <1> HIDE DEF new
  <1> QED BY <1>3, <1>5, <1>6 DEF Fits, Owned, Present, SameButAddresses

(* No call of the provider for a row that the host is in order for changes
   anything but the address, or leads to another change. *)
LEMMA WorkInOrder ==
    ASSUME HostTypeOK, ProviderTypeOK, NEW id \in Ids, NEW row \in Row,
           Holds(id, row), Directs(row), InPlace(id, row),
           call.pc \notin {"replace", "add"} \cup RemovePoints,
           Work(id, row)
    PROVE  /\ \/ UNCHANGED links
              \/ call.pc = "assign" /\ SameButAddresses(row.name)
           /\ InPlace(id, row)'
           /\ call'.pc \notin {"replace", "add"}
  <1>1. /\ Present(row.name) => Fits(id, row)
        /\ Present(row.name)
               => links[row.name].addresses \subseteq {row.config.address}
        /\ ~Present(row.name) => row.desired = "disabled"
        /\ row.desired \in {"enabled", "disabled"}
    BY DEF InPlace, Fits, Owned, Row, DesiredStates
  <1>2. call.held /\ call.pc \in MarkingPoints \cup OwnedPoints => Fits(id, row)
    BY <1>1 DEF Holds, Mine, Owned, Imported
  <1>a. ASSUME NEW addresses \in SUBSET {row.config.address},
               call.held, call.pc = "assign", UNCHANGED <<rules, route>>,
               SetLink(row.name,
                       [links[row.name] EXCEPT !.addresses = addresses])
        PROVE  SameButAddresses(row.name) /\ InPlace(id, row)'
    <2>1. Fits(id, row)
      BY <1>2, <1>a DEF OwnedPoints
    <2>2. addresses \in SUBSET Addresses
      BY <1>a, RowTypes
    <2>3. /\ Fits(id, row)'
          /\ SameButAddresses(row.name)
          /\ links'[row.name].addresses = addresses
      BY <1>a, <2>1, <2>2, ReaddressedFits
    <2> QED BY <1>1, <1>a, <2>1, <2>3 DEF InPlace, RulesFor
  <1>3. UNCHANGED hostVars => UNCHANGED links /\ InPlace(id, row)'
    BY DEF hostVars, InPlace, Fits, Owned, Present, RulesFor
  <1>4. UNCHANGED <<links, rules, route>> => UNCHANGED hostVars
    BY DEF hostVars
  <1>5. CASE Find(id, row)
    <2>1. Owned(id, row.name) => ~RequiresRecreate(links[row.name], row.config)
      BY <1>1 DEF Fits, Owned, RequiresRecreate
    <2> QED BY <1>1, <1>3, <1>5, <2>1, CallFields DEF Find
  <1>6. CASE \/ Recover(id, row) \/ Load(row) \/ Verify(id, row)
             \/ VerifyByName(id, row) \/ FindEgress \/ Observe(id, row)
    <2>1. UNCHANGED hostVars
      BY <1>6 DEF Recover, Load, Verify, VerifyByName, FindEgress, Observe
    <2>2. Recover(id, row) \/ Load(row) => call'.pc \notin {"replace", "add"}
      BY CallFields DEF Recover, Load
    <2>3. Verify(id, row) \/ VerifyByName(id, row) => call'.pc \notin {"replace", "add"}
      BY CallFields DEF Verify, VerifyByName
    <2>4. FindEgress \/ Observe(id, row) => call'.pc \notin {"replace", "add"}
      BY CallFields DEF FindEgress, Observe, ProviderTypeOK
    <2>5. call'.pc \notin {"replace", "add"}
      BY <1>6, <2>2, <2>3, <2>4
    <2> QED BY <1>3, <2>1, <2>5
  <1>7. CASE ListAddresses(row)
    BY <1>3, <1>7 DEF ListAddresses, ProviderTypeOK
  <1>8. CASE Alias(id, row) \/ AliasByName(id, row)
    <2>1. UNCHANGED links
      <3>1. CASE SetLink(row.name, [links[row.name] EXCEPT !.alias = id])
        <4>1. CASE Alias(id, row) /\ call.held
          BY <1>2, <3>1, <4>1, FittingStays DEF Alias, MarkingPoints
        <4>2. CASE AliasByName(id, row) /\ Present(row.name)
          BY <1>1, <3>1, <4>2, FittingStays
        <4> QED BY <1>8, <4>1, <4>2 DEF Alias, AliasByName, Configure
      <3> QED BY <1>8, <3>1 DEF Alias, AliasByName, Configure
    <2> QED BY <1>3, <1>4, <1>8, <2>1, CallFields
        DEF Alias, AliasByName, Configure
  <1>9. CASE SetMTU(row)
    <2>1. UNCHANGED links
      <3>1. CASE /\ call.held
                 /\ SetLink(row.name,
                        [links[row.name] EXCEPT !.mtu = row.config.mtu])
        <4>1. Fits(id, row)
          BY <1>2, <1>9, <3>1 DEF SetMTU, OwnedPoints
        <4> QED BY <3>1, <4>1, FittingStays
      <3> QED BY <1>9, <3>1 DEF SetMTU, Configure
    <2> QED BY <1>3, <1>4, <1>9, <2>1, CallFields DEF SetMTU, Configure
  <1>10. CASE DropAddress(row)
    <2>1. CASE UNCHANGED links
      BY <1>3, <1>4, <1>10, <2>1, CallFields
      DEF DropAddress, ProviderTypeOK
    <2>2. ASSUME NEW address,
                 call.held, address \in links[row.name].addresses,
                 SetLink(row.name,
                         [links[row.name] EXCEPT !.addresses = @ \ {address}]),
                 call' = [call EXCEPT !.drifted = @ \ {address}]
          PROVE  /\ call.pc = "assign" /\ SameButAddresses(row.name)
                 /\ InPlace(id, row)'
                 /\ call'.pc \notin {"replace", "add"}
      <3>1. call.pc = "assign" /\ UNCHANGED <<rules, route>>
        BY <1>10 DEF DropAddress
      <3>2. links[row.name].addresses \ {address}
                \in SUBSET {row.config.address}
        BY <1>1, <1>2, <2>2, <3>1 DEF OwnedPoints, Fits, Owned
      <3>3. call'.pc = "assign"
        BY <2>2, <3>1 DEF ProviderTypeOK
      <3> QED BY <1>a, <2>2, <3>1, <3>2, <3>3
    <2> QED BY <1>10, <2>1, <2>2 DEF DropAddress
  <1>11. CASE Assign(row)
    <2>1. CASE UNCHANGED links
      BY <1>3, <1>4, <1>11, <2>1, CallFields DEF Assign, Configure
    <2>2. CASE /\ call.held
               /\ SetLink(row.name,
                      [links[row.name] EXCEPT
                           !.addresses = @ \cup {row.config.address}])
      <3>1. call.pc = "assign" /\ UNCHANGED <<rules, route>>
        BY <1>11 DEF Assign
      <3>2. links[row.name].addresses \cup {row.config.address}
                \in SUBSET {row.config.address}
        BY <1>1, <1>2, <2>2, <3>1 DEF OwnedPoints, Fits, Owned
      <3>3. SameButAddresses(row.name) /\ InPlace(id, row)'
        BY <1>a, <2>2, <3>1, <3>2
      <3>4. call'.pc \notin {"replace", "add"}
        BY <1>11, CallFields DEF Assign, Configure
      <3> QED BY <3>1, <3>3, <3>4
    <2> QED BY <1>11, <2>1, <2>2 DEF Assign, Configure
  <1>12. CASE SetUp(row) \/ SetDown(row)
    <2>1. ASSUME NEW up \in BOOLEAN, up = (row.desired = "enabled"), call.held,
                 SetLink(row.name, [links[row.name] EXCEPT !.up = up])
          PROVE  UNCHANGED links
      <3>1. Fits(id, row)
        BY <1>2, <1>12, <2>1 DEF SetUp, SetDown, OwnedPoints
      <3> QED BY <2>1, <3>1, FittingStays
    <2>2. CASE SetUp(row)
      <3>1. row.desired = "enabled"
        BY <1>1, <2>2 DEF SetUp, Directs
      <3>2. UNCHANGED links
        BY <2>1, <2>2, <3>1 DEF SetUp, Configure
      <3> QED BY <1>3, <1>4, <2>2, <3>2, CallFields DEF SetUp, Configure
    <2>3. CASE SetDown(row)
      <3>1. row.desired = "disabled"
        BY <2>3 DEF SetDown, Directs
      <3>2. UNCHANGED links
        BY <2>1, <2>3, <3>1 DEF SetDown
      <3> QED BY <1>3, <1>4, <2>3, <3>2, CallFields DEF SetDown
    <2> QED BY <1>12, <2>2, <2>3
  <1>13. CASE MarkRule(id, row) \/ NatRule(id, row)
    <2>1. UNCHANGED <<links, route>> /\ \E rule : SetRule(rule, Wanted(row))
      BY <1>13 DEF MarkRule, NatRule
    <2>2. InPlace(id, row)'
      BY <2>1 DEF SetRule, InPlace, Fits, Owned, Present, RulesFor
    <2> QED BY <1>13, <2>1, <2>2, CallFields DEF MarkRule, NatRule, AfterRules
  <1> QED
    BY <1>5, <1>6, <1>7, <1>8, <1>9, <1>10, <1>11, <1>12, <1>13
    DEF Work, Replace, Add, Lookup, Unlink, RemovePoints

(* Nor does one for a row of another name and tunnel. *)
LEMMA WorkElsewhere ==
    ASSUME HostTypeOK, NEW id \in Ids, NEW row \in Row, Work(id, row),
           NEW name \in Names, name # row.name
    PROVE  /\ links'[name] = links[name]
           /\ UNCHANGED route
           /\ \A rule : rule.tunnel # id => (rule \in rules' <=> rule \in rules)
  <1>1. \A link : SetLink(row.name, link) => links'[name] = links[name]
    BY DEF HostTypeOK, SetLink
  <1>2. /\ links'[name] = links[name]
        /\ UNCHANGED <<rules, route>>
            \/ MarkRule(id, row) \/ NatRule(id, row)
    BY <1>1
    DEF Work, Find, Replace, Add, Recover, Load, Alias, Verify, AliasByName,
        VerifyByName, SetMTU, ListAddresses, DropAddress, Assign, SetUp,
        SetDown, FindEgress, MarkRule, NatRule, Lookup, Unlink, Observe,
        Configure, hostVars
  <1>3. CASE MarkRule(id, row) \/ NatRule(id, row)
    <2>1. PICK rule : rule.tunnel = id /\ SetRule(rule, Wanted(row))
      BY <1>3 DEF MarkRule, NatRule
    <2>2. \A other : other.tunnel # id => other # rule
      BY <2>1
    <2>3. UNCHANGED route
      BY <1>3 DEF MarkRule, NatRule
    <2> QED BY <1>2, <2>1, <2>2, <2>3 DEF SetRule
  <1> QED BY <1>2, <1>3

-----------------------------------------------------------------------------
(* What a step has to leave alone for tunnel id to stay in order. *)
Spared(id) ==
    /\ Exists(id)'
    /\ Intent(tunnels[id])' = Intent(tunnels[id])
    /\ links'[tunnels[id].name] = links[tunnels[id].name]
    /\ UNCHANGED route
    /\ \A rule : rule.tunnel = id => (rule \in rules' <=> rule \in rules)

LEMMA SparedInPlace ==
    ASSUME NEW id \in Ids, InPlace(id, tunnels[id]), Spared(id)
    PROVE  InPlace(id, tunnels[id])'
  <1>1. /\ tunnels'[id].name = tunnels[id].name
        /\ tunnels'[id].config = tunnels[id].config
        /\ tunnels'[id].desired = tunnels[id].desired
    BY DEF Spared, Intent
  <1>2. RulesFor(id, tunnels[id])' = RulesFor(id, tunnels[id])
    BY <1>1 DEF Spared, RulesFor
  <1>3. \A rule \in RulesFor(id, tunnels[id]) : rule \in rules' <=> rule \in rules
    BY DEF Spared, RulesFor
  <1>4. Fits(id, tunnels[id]) => Fits(id, tunnels[id])'
    BY <1>1 DEF Spared, Fits, Owned, Present
  <1>5. Present(tunnels[id].name)' = Present(tunnels[id].name)
    BY <1>1 DEF Spared, Present
  <1>6. Wanted(tunnels[id])' = Wanted(tunnels[id])
    BY <1>1 DEF Wanted
  <1>7. links'[tunnels'[id].name] = links[tunnels[id].name]
    BY <1>1 DEF Spared
  <1> QED BY <1>1, <1>2, <1>3, <1>4, <1>5, <1>6, <1>7 DEF InPlace

(* The copies of the pass, and where the call is that works on the tunnel. *)
Known(id) ==
    /\ \A other \in Ids :
           controller.pending[other] # None
               => Agrees(id, other, controller.pending[other])
    /\ controller.pc \in Busy =>
           /\ Agrees(id, controller.tunnel, controller.row)
           /\ controller.tunnel = id => call.pc \notin {"replace", "add"}

LEMMA SparedInOrder ==
    ASSUME NEW id \in Ids, InOrder(id), Spared(id), Known(id)'
    PROVE  InOrder(id)'
  BY SparedInPlace DEF InOrder, Spared, Known


-----------------------------------------------------------------------------
(* The controller's statements keep what the record asks for: a row it
   writes back is the copy, and what it drops was to go. *)
LEMMA RecordsSpared ==
    ASSUME TypeOK, CopiesMatch, NEW id \in Ids, InOrder(id), Controller
    PROVE  Exists(id)' /\ Intent(tunnels[id])' = Intent(tunnels[id])
  <1>1. tunnels \in [Ids -> Row \cup {None}] /\ tunnels[id] \in Row
    BY DEF TypeOK, StoreTypeOK, InOrder, Exists
  <1>2. UNCHANGED requests
    BY DEF Controller, ControllerFrame
  <1>3. CASE tunnels'[id] = tunnels[id]
    BY <1>1, <1>3, NoneIsNoRow DEF Exists
  <1>4. ASSUME NEW i \in Ids, NEW row \in Row, Writes(i, row),
               tunnels' = [tunnels EXCEPT ![i] = row]
        PROVE  Exists(id)' /\ Intent(tunnels[id])' = Intent(tunnels[id])
    <2>1. CASE i # id
      BY <1>1, <1>3, <1>4, <2>1
    <2>2. CASE i = id
      <3>1. /\ controller.pc \in Busy
            /\ controller.tunnel = id
            /\ controller.row \in Row
        BY <1>2, <1>4, <2>2 DEF Writes, Busy, Points, StorePoints, TypeOK,
                                ControllerTypeOK
      <3>2. Intent(row) = Intent(controller.row)
        BY <1>2, <1>4, <3>1, WrittenFields DEF Writes, TypeOK, ControllerTypeOK
      <3>3. Intent(controller.row) = Intent(tunnels[id])
        BY <3>1 DEF InOrder, Agrees
      <3> QED BY <1>1, <1>4, <2>2, <3>2, <3>3, NoneIsNoRow DEF Exists
    <2> QED BY <2>1, <2>2
  <1>5. CASE /\ controller.pc = "drop"
             /\ tunnels' = [tunnels EXCEPT ![controller.tunnel] = None]
    <2>1. controller.row.desired = "deleted" /\ controller.pc \in Busy
      BY <1>5 DEF CopiesMatch, Busy, Points, StorePoints
    <2>2. controller.tunnel # id
      BY <2>1 DEF InOrder, InPlace, Agrees, Intent
    <2> QED BY <1>1, <1>3, <1>5, <2>2
  <1>6. CASE ClearRetries
    <2>1. tunnels'[id] = [tunnels[id] EXCEPT !.retry = FALSE]
      BY <1>6 DEF ClearRetries, InOrder
    <2>2. tunnels'[id] \in Row /\ Intent(tunnels'[id]) = Intent(tunnels[id])
      BY <1>1, <2>1, WrittenRows DEF Intent, Row
    <2> QED BY <2>2, NoneIsNoRow DEF Exists
  <1>7. [Next]_vars
    BY DEF Next
  <1> QED BY <1>1, <1>2, <1>3, <1>4, <1>5, <1>6, <1>7, TableSteps

(* Its copies go on agreeing with the table, a fresh list because names are
   unique. *)
LEMMA ControllerInOrder ==
    ASSUME TypeOK, UniqueNames, CopiesMatch, NEW id \in Ids, InOrder(id),
           Controller, UNCHANGED hostVars, call'.pc \notin {"replace", "add"}
    PROVE  InOrder(id)' /\ UNCHANGED links
  <1>1. Spared(id)
    BY RecordsSpared DEF Spared, hostVars
  <1> DEFINE agrees(other, copy) ==
                 IF other = id THEN Intent(copy) = Intent(tunnels'[id])
                               ELSE copy.name # tunnels'[id].name
  <1>2. \A other, copy : Agrees(id, other, copy) => agrees(other, copy)
    <2>1. Intent(tunnels'[id]) = Intent(tunnels[id])
      BY <1>1 DEF Spared
    <2>2. tunnels'[id].name = tunnels[id].name
      BY <2>1 DEF Intent
    <2> QED BY <2>1, <2>2 DEF Agrees
  <1>3. /\ \A other \in Ids :
               controller.pending[other] # None
                   => agrees(other, controller.pending[other])
        /\ controller.pc \in Busy
               => agrees(controller.tunnel, controller.row)
    BY <1>2 DEF InOrder
  <1> SUFFICES Known(id)'
    BY <1>1, SparedInOrder DEF hostVars
  <1> USE DEF TypeOK, ControllerTypeOK
  <1>4. ASSUME NEW pc, Goto(pc), pc \in Busy => controller.pc \in Busy
        PROVE  Known(id)'
    BY <1>3, <1>4 DEF Goto, Known, Agrees
  <1>5. ASSUME NEW rest, Loop(rest),
               \A other \in Ids : rest[other] # None => agrees(other, rest[other])
        PROVE  Known(id)'
    BY <1>5 DEF Loop, Started, Busy, NoTunnels, Known, Agrees
  <1>6. Return => Known(id)'
    BY <1>3, <1>5 DEF Return
  <1>b. {"start", "reconcile", "observe", "remove", "drop", "mark", "fail",
         "succeed", "give_up"} = Busy
    BY DEF Busy, Points, StorePoints, ProviderPoints
  <1>7. CASE Requeue \/ Resume
    BY <1>4, <1>7, <1>b DEF Requeue, Resume
  <1>8. CASE ListTunnels
    <2>1. ASSUME NEW other \in Ids, tunnels[other] # None
          PROVE  Agrees(id, other, tunnels[other])
      BY <2>1 DEF UniqueNames, Exists, InOrder, Agrees
    <2>2. Loop(tunnels)
      BY <1>8 DEF ListTunnels
    <2> QED BY <1>2, <1>5, <2>1, <2>2
  <1>9. ASSUME NEW i \in Ids, Skip(i) PROVE Known(id)'
    <2>1. Loop(Rest(i))
      BY <1>9 DEF Skip
    <2>2. \A other \in Ids : Rest(i)[other] \in {None, controller.pending[other]}
      BY DEF Rest
    <2> QED BY <1>3, <1>5, <2>1, <2>2
  <1>10. ASSUME NEW i \in Ids, Begin(i) PROVE Known(id)'
    <2>1. /\ controller'.tunnel = i
          /\ controller'.row = controller.pending[i]
          /\ controller.pending[i] # None
          /\ controller'.pending = Rest(i)
      BY <1>10 DEF Begin, InPass
    <2>2. \A other \in Ids : Rest(i)[other] \in {None, controller.pending[other]}
      BY DEF Rest
    <2> QED BY <1>3, <2>1, <2>2 DEF Known, Agrees
  <1>11. CASE Start \/ ReconcileSucceeds \/ RemoveSucceeds \/ ProviderFails
    BY <1>4, <1>11, <1>b
    DEF Start, ReconcileSucceeds, RemoveSucceeds, ProviderFails, ProviderPoints
  <1>12. ASSUME NEW state \in Healthy \cup Unhealthy,
                ObserveHealthy(state) \/ ObserveUnhealthy(state)
         PROVE  Known(id)'
    <2>1. /\ controller.pc \in Busy
          /\ controller'.pending = controller.pending
          /\ controller'.tunnel = controller.tunnel
          /\ controller'.row = controller.row
      BY <1>12, <1>b DEF ObserveHealthy, ObserveUnhealthy
    <2> QED BY <1>3, <2>1 DEF Known, Agrees
  <1>13. CASE Drop \/ Mark \/ Fail \/ Complete \/ ControllerStoreError
    BY <1>4, <1>6, <1>13, <1>b
    DEF Drop, Mark, Fail, WriteBack, Complete, ControllerStoreError
  <1> QED BY <1>7, <1>8, <1>9, <1>10, <1>11, <1>12, <1>13
      DEF Controller, ControllerStep, Progress, Misfortune

-----------------------------------------------------------------------------
(* The call under way is for the copy in hand, at every step of the agent. *)
CallDirects == Directs(controller.row)

LEMMA CallDirectsKept ==
    ASSUME Ownership, CallDirects, [AgentNext]_agentVars
    PROVE  CallDirects'
  <1> USE DEF CallDirects
  <1>1. call'.pc \notin {"up", "down"} => CallDirects'
    BY DEF Directs
  <1>2. UNCHANGED <<controller, call>> => CallDirects'
    BY DEF Directs
  <1>t. ProviderTypeOK
    BY DEF Ownership, AgentTypeOK
  <1>3. CASE Enter
    <2>1. \E pc \in {"find", "observe", "route"} : Call(pc)
      BY <1>3 DEF Enter, AtProvider, ProviderPoints
    <2> QED BY <1>1, <1>t, <2>1, CallFields
  <1>4. CASE Provide
    <2>1. Directs(controller.row) /\ Work(controller.tunnel, controller.row)
      BY <1>4 DEF Provide
    <2>2. UNCHANGED controller
      BY <1>4 DEF Provide, vars
    <2>3. PICK row : row = controller.row
      OBVIOUS
    <2>4. Directs(row)'
      BY <1>t, <2>1, <2>3, WorkDirects
    <2> QED BY <2>2, <2>3, <2>4 DEF Directs
  <1>5. CASE Receive \/ AgentCrash
    BY <1>1, <1>5, <1>t, CallFields DEF Receive, AgentCrash
  <1>6. CASE Proceed
    BY <1>1, <1>6 DEF Proceed, Ownership, AgentTypeOK
  <1>7. CASE StatementFails
    <2>1. controller.pc \in StorePoints => call.pc = "idle"
      BY DEF Ownership, AgentTypeOK, AtProvider, StorePoints, ProviderPoints
    <2> QED BY <1>1, <1>2, <1>7, <2>1
        DEF StatementFails, ControllerStoreError, ApiFrame
  <1>8. CASE CommandFails
    <2>1. CASE CallFails(controller.row)
      BY <1>1, <1>t, <2>1, CallFields DEF CallFails
    <2>2. CASE RuleStays(controller.row) /\ UNCHANGED vars
      <3>1. \/ call'.pc = "down" /\ controller.row.desired = "disabled"
            \/ call'.pc \notin {"up", "down"}
        BY <1>t, <2>2, CallFields DEF RuleStays, AfterRules
      <3>2. UNCHANGED controller
        BY <2>2 DEF vars
      <3> QED BY <3>1, <3>2 DEF Directs
    <2> QED BY <1>2, <1>8, <2>1, <2>2 DEF CommandFails, EndAdoption, ApiFrame
  <1>9. CASE Intervene
    <2>1. /\ UNCHANGED controller
          /\ call'.pc = call.pc
      BY <1>9, <1>t DEF Intervene, RemoveDiscovered, vars, ProviderTypeOK
    <2> QED BY <2>1 DEF Directs
  <1>10. ASSUME NEW r \in Requests, AgentApi(r) PROVE CallDirects'
    BY <1>2, <1>10
    DEF AgentApi, AgentServe, Import, EndAdoption, ApiFrame, Adopts,
        FindManaged, MarkManaged, VerifyMarked, MarkByName, AdoptionStep, vars
  <1>11. CASE UNCHANGED agentVars
    BY <1>2, <1>11 DEF agentVars, vars
  <1> QED BY <1>3, <1>4, <1>5, <1>6, <1>7, <1>8, <1>9, <1>10, <1>11
      DEF AgentNext, AgentCalm, AgentProgress, AgentMishap

Orderly ==
    TypeOK /\ UniqueNames /\ CopiesMatch /\ Ownership /\ CallDirects

(* A call of the provider, for this tunnel or for another. *)
LEMMA ProvideInOrder ==
    ASSUME Orderly, NEW id \in Ids, InOrder(id), Provide
    PROVE  /\ InOrder(id)'
           /\ LET name == tunnels[id].name
              IN  \/ links'[name] = links[name]
                  \/ Readdressed(id) /\ SameButAddresses(name)
  <1>1. PICK i \in Ids, row \in Row :
            i = controller.tunnel /\ row = controller.row
    BY InHandTypes DEF Provide, Orderly
  <1>2. /\ HostTypeOK /\ ProviderTypeOK /\ Holds(i, row) /\ Directs(row)
        /\ Work(i, row) /\ UNCHANGED <<tunnels, controller>>
        /\ controller.pc \in Busy
    BY <1>1 DEF Provide, Orderly, Ownership, AgentTypeOK, CallDirects, vars,
                storeVars, AtProvider, ProviderPoints, Busy, Points, StorePoints
  <1>3. tunnels[id] \in Row /\ Exists(id)'
    BY <1>2 DEF Orderly, TypeOK, StoreTypeOK, InOrder, Exists
  <1>4. Known(id) /\ InPlace(id, tunnels[id])
    BY DEF InOrder, Known
  <1>5. CASE i = id
    <2>1. Intent(row) = Intent(tunnels[id]) /\ call.pc \notin {"replace", "add"}
      BY <1>1, <1>2, <1>4, <1>5 DEF Known, Agrees
    <2>2. /\ row.name = tunnels[id].name
          /\ row.config = tunnels[id].config
          /\ row.desired = tunnels[id].desired
      BY <2>1 DEF Intent
    <2>3. InPlace(id, row)
      BY <1>4, <2>2 DEF InPlace, Fits, Wanted, RulesFor
    <2>4. call.pc \notin RemovePoints
      BY <1>1, <2>3 DEF InPlace, Orderly, Ownership, AgentTypeOK, RowDirects
    <2>5. /\ \/ UNCHANGED links
             \/ call.pc = "assign" /\ SameButAddresses(row.name)
          /\ InPlace(id, row)'
          /\ call'.pc \notin {"replace", "add"}
      BY <1>2, <1>5, <2>1, <2>3, <2>4, WorkInOrder
    <2>6. InPlace(id, tunnels[id])'
      BY <1>2, <2>2, <2>5 DEF InPlace, Fits, Wanted, RulesFor, Owned, Present
    <2>7. Known(id)'
      BY <1>2, <1>4, <2>5 DEF Known, Agrees
    <2> QED BY <1>1, <1>3, <1>5, <2>2, <2>5, <2>6, <2>7
        DEF InOrder, Known, Readdressed
  <1>6. CASE i # id
    <2>1. row.name # tunnels[id].name /\ tunnels[id].name \in Names
      BY <1>1, <1>2, <1>3, <1>4, <1>6, RowTypes DEF Known, Agrees
    <2>2. Spared(id)
      BY <1>2, <1>3, <1>6, <2>1, WorkElsewhere DEF Spared
    <2>3. Known(id)'
      BY <1>1, <1>2, <1>4, <1>6 DEF Known, Agrees
    <2> QED BY <2>2, <2>3, SparedInOrder DEF Spared
  <1> QED BY <1>5, <1>6

(* A step that touches neither the host nor the rows, nor the copies unless
   they are lost. *)
LEMMA StillInOrder ==
    ASSUME NEW id \in Ids, InOrder(id), UNCHANGED <<tunnels, hostVars>>,
           \/ UNCHANGED controller /\ call'.pc \notin {"replace", "add"}
           \/ UNCHANGED <<controller, call>>
           \/ Restart
    PROVE  InOrder(id)' /\ UNCHANGED links
  <1>1. Spared(id)
    BY DEF Spared, hostVars, InOrder, Exists
  <1>2. Known(id)'
    BY DEF InOrder, Known, Agrees, Restart, Started, NoTunnels, Busy
  <1> QED BY <1>1, <1>2, SparedInOrder DEF hostVars

LEMMA OrderKept ==
    ASSUME Orderly, NEW id \in Ids, InOrder(id), ByController
    PROVE  /\ InOrder(id)'
           /\ LET name == tunnels[id].name
              IN  \/ links'[name] = links[name]
                  \/ Readdressed(id) /\ SameButAddresses(name)
  <1>t. ProviderTypeOK
    BY DEF Orderly, Ownership, AgentTypeOK
  <1>1. CASE Provide
    BY <1>1, ProvideInOrder
  <1>2. CASE Enter
    <2>1. \E pc \in {"find", "observe", "route"} : Call(pc)
      BY <1>2 DEF Enter, AtProvider, ProviderPoints
    <2> QED BY <1>2, <1>t, <2>1, CallFields, StillInOrder
        DEF Enter, vars, storeVars
  <1>3. CASE Receive
    <2>1. Controller
      BY <1>3 DEF Receive, Accept, Controller, ControllerStep, Progress,
                  Misfortune, Unhealthy
    <2> QED BY <1>3, <1>t, <2>1, CallFields, ControllerInOrder
        DEF Receive, Orderly
  <1>4. CASE Proceed
    <2>1. Controller /\ call'.pc = "idle"
      BY <1>4 DEF Proceed, Controller, ControllerStep, Orderly, Ownership,
                  AgentTypeOK
    <2> QED BY <1>4, <2>1, ControllerInOrder DEF Proceed, Orderly
  <1>5. CASE StatementFails
    <2>1. CASE ControllerStoreError /\ ControllerFrame
      <3>1. Controller
        BY <2>1 DEF Controller, ControllerStep, Misfortune
      <3>2. call.pc = "idle"
        BY <2>1 DEF ControllerStoreError, Orderly, Ownership, AgentTypeOK,
                    AtProvider, StorePoints, ProviderPoints
      <3> QED BY <1>5, <3>1, <3>2, ControllerInOrder DEF StatementFails, Orderly
    <2>2. ASSUME NEW r \in Requests, RequestStoreError(r), ApiFrame
          PROVE  InOrder(id)' /\ UNCHANGED links
      BY <1>5, <2>2, StillInOrder
      DEF StatementFails, RequestStoreError, ApiFrame, storeVars
    <2> QED BY <1>5, <2>1, <2>2 DEF StatementFails
  <1>6. CASE CommandFails
    <2>1. CASE /\ UNCHANGED vars
               /\ CallFails(controller.row) \/ RuleStays(controller.row)
      <3>1. call'.pc \notin {"replace", "add"} /\ UNCHANGED hostVars
        BY <1>t, <2>1, CallFields DEF CallFails, RuleStays, AfterRules
      <3> QED BY <2>1, <3>1, StillInOrder DEF vars, storeVars
    <2>2. ASSUME NEW r \in Requests, EndAdoption(r, "withdraw")
          PROVE  InOrder(id)' /\ UNCHANGED links
      BY <2>2, StillInOrder DEF EndAdoption, Adopt, ApiFrame, storeVars
    <2> QED BY <1>6, <2>1, <2>2 DEF CommandFails
  <1>7. CASE AgentCrash /\ UNCHANGED hostVars
    BY <1>7, StillInOrder DEF AgentCrash, Crash, storeVars
  <1> QED BY <1>1, <1>2, <1>3, <1>4, <1>5, <1>6, <1>7
      DEF ByController, AgentProgress

(* What is in order stays so, and the link the same but for its address,
   through every pass of the controller, with whatever failures. *)
THEOREM KeepsInOrderCorrect == AgentSpec => KeepsInOrder
  <1>1. AgentInit => CallDirects
    BY DEF AgentInit, ProviderInit, NoCall, CallDirects, Directs
  <1>2. Ownership /\ CallDirects /\ [AgentNext]_agentVars => CallDirects'
    BY CallDirectsKept
  <1>3. AgentSpec => []CallDirects
    BY <1>1, <1>2, OwnershipCorrect, PTL DEF AgentSpec
  <1>4. AgentSpec => [](TypeOK /\ UniqueNames /\ CopiesMatch)
    BY AgentImplements, TypeCorrect, NamesUnique, CopiesCorrect, PTL
  <1>5. Orderly /\ [AgentNext]_agentVars =>
            [\A id \in Ids :
                 InOrder(id) /\ ByController =>
                     /\ InOrder(id)'
                     /\ LET name == tunnels[id].name
                        IN  \/ links'[name] = links[name]
                            \/ Readdressed(id) /\ SameButAddresses(name)]_agentVars
    BY OrderKept
  <1> QED BY <1>3, <1>4, <1>5, OwnershipCorrect, PTL
      DEF AgentSpec, Orderly, KeepsInOrder
=============================================================================
