--------------------------- MODULE AgentOwnership ---------------------------
(***************************************************************************)
(* What the provider and an import hold is a link with a marker: types,    *)
(* TouchesOwnedOnly, ImportsManagedOnly and RemovalIsReal.                 *)
(***************************************************************************)
EXTENDS AgentImplementation

LEMMA NoneIsNoLink == None \notin Link /\ None \notin Ids
  BY NoneIsNoLinkAssumption, NoneAssumption

(* The five kinds of change a link in place undergoes. *)
LEMMA LinkTypes ==
    ASSUME HostTypeOK, NEW name \in Names, Present(name)
    PROVE  LET link == links[name]
           IN  /\ link \in Link
               /\ link.addresses \subseteq Addresses
               /\ \A id \in Ids : [link EXCEPT !.alias = id] \in Link
               /\ \A mtu \in MTUs : [link EXCEPT !.mtu = mtu] \in Link
               /\ \A addresses \in SUBSET Addresses :
                      [link EXCEPT !.addresses = addresses] \in Link
               /\ \A up \in BOOLEAN : [link EXCEPT !.up = up] \in Link
               /\ \A ttl \in TTLs, mtu \in MTUs, up \in BOOLEAN,
                     addresses \in SUBSET Addresses :
                      [link EXCEPT !.ttl = ttl, !.mtu = mtu,
                           !.addresses = addresses, !.up = up] \in Link
  BY DEF HostTypeOK, Present, Link, Owners

(* None but a change of the marker itself touches it. *)
LEMMA LinkMarkers ==
    ASSUME NEW link \in Link
    PROVE  /\ \A id \in Ids : /\ [link EXCEPT !.alias = id].alias = id
                              /\ [link EXCEPT !.alias = id].maker = link.maker
           /\ \A mtu : [link EXCEPT !.mtu = mtu].alias = link.alias
           /\ \A addresses :
                  [link EXCEPT !.addresses = addresses].alias = link.alias
           /\ \A up : [link EXCEPT !.up = up].alias = link.alias
           /\ \A ttl, mtu, addresses, up :
                  LET changed == [link EXCEPT !.ttl = ttl, !.mtu = mtu,
                                      !.addresses = addresses, !.up = up]
                  IN  changed.alias = link.alias /\ changed.maker = link.maker
  BY DEF Link

LEMMA SetLinkTypes ==
    ASSUME HostTypeOK, NEW name \in Names, NEW link \in Link \cup {None},
           SetLink(name, link)
    PROVE  /\ links' \in [Names -> Link \cup {None}]
           /\ links'[name] = link
           /\ \A other \in Names \ {name} : links'[other] = links[other]
  BY DEF HostTypeOK, SetLink

LEMMA CallTypes ==
    ASSUME ProviderTypeOK
    PROVE  /\ \A pc \in Working \ {"mark_rule", "nat_rule"} :
                  /\ Step(pc) => ProviderTypeOK'
                  /\ Take(pc) => ProviderTypeOK'
                  /\ Call(pc) => ProviderTypeOK'
           /\ \A result \in Results : Answer(result) => ProviderTypeOK'
           /\ call' = NoCall => ProviderTypeOK'
  <1>1. \A pc \in Working \ {"mark_rule", "nat_rule"} :
            Step(pc) => ProviderTypeOK'
    BY DEF ProviderTypeOK, Step
  <1>2. \A pc \in Working \ {"mark_rule", "nat_rule"} :
            Take(pc) => ProviderTypeOK'
    BY DEF ProviderTypeOK, Take
  <1>3. \A pc \in Working \ {"mark_rule", "nat_rule"} :
            Call(pc) => ProviderTypeOK'
    BY DEF ProviderTypeOK, Call, NoCall
  <1>4. \A result \in Results : Answer(result) => ProviderTypeOK'
    BY DEF ProviderTypeOK, Answer, NoCall
  <1>5. call' = NoCall => ProviderTypeOK'
    BY DEF ProviderTypeOK, NoCall
  <1> QED BY <1>1, <1>2, <1>3, <1>4, <1>5

(* What a call does next, field by field. *)
LEMMA CallFields ==
    ASSUME ProviderTypeOK
    PROVE  /\ \A pc : Step(pc) => /\ call'.pc = pc
                                  /\ call'.held = call.held
                                  /\ call'.result = call.result
           /\ \A pc : Take(pc) => call'.pc = pc /\ call'.held
           /\ \A pc : Call(pc) => call'.pc = pc /\ ~call'.held
           /\ \A result : Answer(result) => /\ call'.pc = "answered"
                                            /\ ~call'.held
                                            /\ call'.result = result
           /\ NoCall.pc = "idle" /\ ~NoCall.held
  BY DEF ProviderTypeOK, Step, Take, Call, Answer, NoCall

LEMMA RowTypes ==
    ASSUME NEW row \in Row
    PROVE  /\ row.name \in Names
           /\ row.config.endpoints \in Endpoints
           /\ row.config.ttl \in TTLs
           /\ row.config.mtu \in MTUs
           /\ row.config.address \in Addresses
  BY ConfigsAssumption DEF Row

LEMMA Points1 ==
    /\ {"ok", "failed", "up", "down", "missing", "error"} = Results
    /\ ReconcilePoints \cup RulePoints \cup RemovePoints \cup {"observe"}
           = Working
  BY DEF Results, Working

-----------------------------------------------------------------------------
(* What the provider has in hand for a call: while it is marking the link, a
   link of that name; afterwards, and before it replaces or deletes one, the
   tunnel's own, or one that an import has taken meanwhile. *)
MarkingPoints == {"alias", "verify", "alias_ip", "verify_ip"}
OwnedPoints == {"replace", "mtu", "list", "assign", "up", "down", "unlink"}
                   \cup RulePoints

Mine(id, name) == Owned(id, name) \/ Imported(name)

Holds(id, row) ==
    call.held => /\ call.pc \in MarkingPoints => Present(row.name)
                 /\ call.pc \in OwnedPoints => Mine(id, row.name)

(* Where a provider method goes next: its points follow the state that is
   desired, and "ok" of a Remove is the answer of Lookup or Unlink. *)
Follows(id, row) ==
    /\ ProviderTypeOK'
    /\ call'.pc # "idle"
    /\ call'.pc \in ReconcilePoints =>
           \/ call.pc \in ReconcilePoints
           \/ call.pc \in RulePoints /\ row.desired # "deleted"
    /\ call'.pc \in RulePoints => call.pc \in ReconcilePoints \cup RulePoints
    /\ call'.pc \in RemovePoints =>
           \/ call.pc \in RemovePoints
           \/ call.pc \in RulePoints /\ row.desired = "deleted"
    /\ call'.pc = "answered" /\ call'.result = "ok" =>
           \/ call.pc \in ReconcilePoints
           \/ row.desired = "enabled"
           \/ call.pc \in RemovePoints /\ ~Present(row.name)'

LEMMA WorkFollows ==
    ASSUME HostTypeOK, ProviderTypeOK, NEW id \in Ids, NEW row \in Row,
           Holds(id, row), Work(id, row)
    PROVE  Follows(id, row)
  <1> USE CallTypes, CallFields
      DEF Follows, ReconcilePoints, RulePoints, RemovePoints, Working, Results
  <1>1. CASE Find(id, row)
    BY <1>1 DEF Find
  <1>2. CASE Replace(row)
    BY <1>2 DEF Replace, Configure
  <1>3. CASE Add(id, row)
    BY <1>3 DEF Add
  <1>4. CASE Recover(id, row)
    BY <1>4 DEF Recover
  <1>5. CASE Load(row)
    BY <1>5 DEF Load
  <1>6. CASE Alias(id, row)
    BY <1>6 DEF Alias, Configure
  <1>7. CASE Verify(id, row)
    BY <1>7 DEF Verify
  <1>8. CASE AliasByName(id, row)
    BY <1>8 DEF AliasByName
  <1>9. CASE VerifyByName(id, row)
    BY <1>9 DEF VerifyByName
  <1>10. CASE SetMTU(row)
    BY <1>10 DEF SetMTU, Configure
  <1>11. CASE ListAddresses(row)
    <2>1. call.held => links[row.name].addresses \subseteq Addresses
      BY <1>11, LinkTypes, RowTypes
      DEF ListAddresses, Holds, OwnedPoints, Mine, Owned, Imported
    <2>2. ProviderTypeOK'
      BY <1>11, <2>1 DEF ListAddresses, ProviderTypeOK
    <2> QED BY <1>11, <2>2 DEF ListAddresses, ProviderTypeOK
  <1>12. CASE DropAddress(row)
    <2>1. CASE Answer("failed")
      BY <1>12, <2>1 DEF DropAddress
    <2>2. ASSUME NEW address, call' = [call EXCEPT !.drifted = @ \ {address}]
          PROVE  Follows(id, row)
      BY <1>12, <2>2 DEF DropAddress, ProviderTypeOK
    <2> QED BY <1>12, <2>1, <2>2 DEF DropAddress
  <1>13. CASE Assign(row)
    BY <1>13 DEF Assign, Configure
  <1>14. CASE SetUp(row)
    BY <1>14 DEF SetUp, Configure
  <1>15. CASE SetDown(row)
    BY <1>15 DEF SetDown
  <1>16. CASE FindEgress
    <2>1. CASE Answer("failed")
      BY <1>16, <2>1 DEF FindEgress
    <2>2. CASE /\ route # None
               /\ call' = [call EXCEPT !.pc = "mark_rule", !.egress = route]
      <3>1. ProviderTypeOK'
        BY <2>2 DEF ProviderTypeOK, HostTypeOK
      <3> QED BY <1>16, <2>2, <3>1 DEF FindEgress, ProviderTypeOK
    <2> QED BY <1>16, <2>1, <2>2 DEF FindEgress
  <1>17. CASE MarkRule(id, row)
    BY <1>17 DEF MarkRule, Step, ProviderTypeOK
  <1>18. CASE NatRule(id, row)
    BY <1>18 DEF NatRule, AfterRules
  <1>19. CASE Lookup(id, row)
    BY <1>19 DEF Lookup, hostVars, Present
  <1>20. CASE Unlink(row)
    <2>1. CASE call.held /\ SetLink(row.name, None) /\ Answer("ok")
      <3>1. ~Present(row.name)'
        BY <2>1, SetLinkTypes, RowTypes DEF Present
      <3> QED BY <1>20, <2>1, <3>1 DEF Unlink
    <2>2. CASE Answer("failed")
      BY <1>20, <2>2 DEF Unlink
    <2> QED BY <1>20, <2>1, <2>2 DEF Unlink
  <1>21. CASE Observe(id, row)
    BY <1>21 DEF Observe
  <1> QED
    BY <1>1, <1>2, <1>3, <1>4, <1>5, <1>6, <1>7, <1>8, <1>9, <1>10, <1>11,
       <1>12, <1>13, <1>14, <1>15, <1>16, <1>17, <1>18, <1>19, <1>20, <1>21
    DEF Work

-----------------------------------------------------------------------------
(* What a call does to the links, and what it then has in hand. *)
Touches(id, row) ==
    \A name \in Names :
        Present(name) /\ links'[name] # links[name] =>
            /\ name = row.name
            /\ \/ Mine(id, name)
               \/ links'[name] = [links[name] EXCEPT !.alias = id]
            /\ links'[name] = None \/ links'[name].alias # None

(* No import begins or forgets that it has found its link. *)
FindsKept == \A r \in Requests : At(r, "find")' <=> At(r, "find")

LEMMA MineKept ==
    ASSUME FindsKept, NEW id \in Ids, NEW name, Mine(id, name),
           Present(name)', links'[name].alias = links[name].alias
    PROVE  Mine(id, name)' /\ links[name].alias # None
  BY NoneIsNoLink DEF Mine, Owned, Imported, FindsKept, Ids

Keeps(id, row) == HostTypeOK' /\ Holds(id, row)' /\ Touches(id, row)

(* A change that leaves the marker on the link, or gives it the tunnel's. *)
LEMMA MarkedKeeps ==
    ASSUME HostTypeOK, FindsKept, NEW id \in Ids, NEW row \in Row,
           Present(row.name), NEW link \in Link, SetLink(row.name, link),
           \/ Mine(id, row.name) /\ link.alias = links[row.name].alias
           \/ /\ link = [links[row.name] EXCEPT !.alias = id]
              /\ link.alias = id,
           UNCHANGED <<rules, route>>
    PROVE  Keeps(id, row)
  <1>1. row.name \in Names
    BY RowTypes
  <1>2. /\ links' \in [Names -> Link \cup {None}]
        /\ links'[row.name] = link
        /\ \A other \in Names \ {row.name} : links'[other] = links[other]
    BY <1>1, SetLinkTypes
  <1>3. Present(row.name)'
    BY <1>2, NoneIsNoLink DEF Present
  <1>4. Mine(id, row.name)' /\ link.alias # None
    BY <1>2, <1>3, MineKept, NoneIsNoLink DEF Mine, Owned
  <1> QED BY <1>1, <1>2, <1>3, <1>4 DEF Keeps, HostTypeOK, Holds, Touches

(* A call that changes no link and ends the method. *)
LEMMA FailedKeeps ==
    ASSUME HostTypeOK, ProviderTypeOK, NEW id \in Ids, NEW row \in Row,
           NEW result, Answer(result), UNCHANGED hostVars
    PROVE  Keeps(id, row)
  BY CallFields DEF Keeps, hostVars, HostTypeOK, Touches, Holds

(* A call that only looks. *)
LEMMA LooksKeep ==
    ASSUME HostTypeOK, ProviderTypeOK, FindsKept, NEW id \in Ids, NEW row \in Row,
           Holds(id, row), UNCHANGED hostVars,
           \/ Find(id, row) \/ Recover(id, row) \/ Load(row)
           \/ Verify(id, row) \/ VerifyByName(id, row)
           \/ ListAddresses(row) \/ FindEgress
           \/ Lookup(id, row) \/ Observe(id, row)
    PROVE  Keeps(id, row)
  <1>1. HostTypeOK' /\ Touches(id, row)
    BY DEF hostVars, HostTypeOK, Touches
  <1>2. /\ Present(row.name)' = Present(row.name)
        /\ Mine(id, row.name) => Mine(id, row.name)'
    BY MineKept DEF hostVars, Present, Owned, Imported, Mine
  <1>3. Owned(id, row.name) => Present(row.name) /\ Mine(id, row.name)
    BY DEF Owned, Mine
  <1> USE <1>1, <1>2, <1>3, CallFields
      DEF Keeps, Holds, MarkingPoints, OwnedPoints, RulePoints
  <1>4. CASE Find(id, row)
    BY <1>4 DEF Find
  <1>5. CASE Recover(id, row)
    BY <1>5 DEF Recover
  <1>6. CASE Load(row)
    BY <1>6 DEF Load
  <1>7. CASE Verify(id, row)
    BY <1>7 DEF Verify
  <1>8. CASE VerifyByName(id, row)
    BY <1>8 DEF VerifyByName
  <1>9. CASE ListAddresses(row)
    BY <1>9 DEF ListAddresses, ProviderTypeOK
  <1>10. CASE FindEgress
    <2>1. CASE Answer("failed")
      BY <2>1
    <2>2. CASE call' = [call EXCEPT !.pc = "mark_rule", !.egress = route]
      BY <1>10, <2>2 DEF FindEgress, ProviderTypeOK
    <2> QED BY <1>10, <2>1, <2>2 DEF FindEgress
  <1>11. CASE Lookup(id, row)
    BY <1>11 DEF Lookup
  <1>12. CASE Observe(id, row)
    BY <1>12 DEF Observe
  <1> QED BY <1>4, <1>5, <1>6, <1>7, <1>8, <1>9, <1>10, <1>11, <1>12

LEMMA RulesKeep ==
    ASSUME HostTypeOK, ProviderTypeOK, FindsKept, NEW id \in Ids, NEW row \in Row,
           Holds(id, row), MarkRule(id, row) \/ NatRule(id, row)
    PROVE  Keeps(id, row)
  <1>1. call.egress \in Egresses
    BY DEF MarkRule, NatRule, ProviderTypeOK
  <1>2. /\ [table |-> "mangle", tunnel |-> id, on |-> row.name] \in Rule
        /\ [table |-> "nat", tunnel |-> id, on |-> call.egress] \in Rule
    BY <1>1, RowTypes DEF Rule
  <1>3. rules' \subseteq Rule
    BY <1>2 DEF MarkRule, NatRule, SetRule, HostTypeOK
  <1>4. HostTypeOK' /\ Touches(id, row)
    BY <1>3 DEF MarkRule, NatRule, HostTypeOK, Touches
  <1>5. Mine(id, row.name) => Mine(id, row.name)'
    BY MineKept DEF MarkRule, NatRule, Present, Owned, Imported, Mine
  <1> USE <1>4, <1>5, CallFields
      DEF Keeps, Holds, MarkingPoints, OwnedPoints, RulePoints
  <1>6. CASE MarkRule(id, row)
    BY <1>6 DEF MarkRule
  <1>7. CASE NatRule(id, row)
    BY <1>7 DEF NatRule, AfterRules
  <1> QED BY <1>6, <1>7

(* A new link, and one less. *)
LEMMA AddKeeps ==
    ASSUME HostTypeOK, ProviderTypeOK, FindsKept, NEW id \in Ids, NEW row \in Row,
           Add(id, row)
    PROVE  Keeps(id, row)
  <1>1. row.name \in Names
    BY RowTypes
  <1>2. CASE Step("conflict") /\ UNCHANGED links
    BY <1>2, CallFields
    DEF Add, Keeps, HostTypeOK, Touches, Holds, MarkingPoints, OwnedPoints,
        RulePoints
  <1>3. ASSUME ~Conflict(row.name, row.config.endpoints), Step("load"),
               NEW alias \in {id, None},
               SetLink(row.name,
                   [endpoints |-> row.config.endpoints, ttl |-> row.config.ttl,
                    mtu |-> row.config.mtu, addresses |-> {}, up |-> FALSE,
                    alias |-> alias, maker |-> id])
        PROVE  Keeps(id, row)
    <2> DEFINE link == [endpoints |-> row.config.endpoints,
                        ttl |-> row.config.ttl, mtu |-> row.config.mtu,
                        addresses |-> {}, up |-> FALSE,
                        alias |-> alias, maker |-> id]
    <2>1. link \in Link
      BY RowTypes DEF Link, Owners
    <2> HIDE DEF link
    <2>2. SetLink(row.name, link)
      BY <1>3 DEF link
    <2>3. /\ links' \in [Names -> Link \cup {None}]
          /\ \A other \in Names \ {row.name} : links'[other] = links[other]
      BY <1>1, <2>1, <2>2, SetLinkTypes
    <2>4. ~Present(row.name)
      BY <1>3 DEF Conflict
    <2>5. call'.pc = "load"
      BY <1>3, CallFields
    <2>6. Holds(id, row)'
      BY <2>5 DEF Holds, MarkingPoints, OwnedPoints, RulePoints
    <2> QED BY <1>1, <2>3, <2>4, <2>6 DEF Add, Keeps, HostTypeOK, Touches
  <1> QED BY <1>2, <1>3 DEF Add

LEMMA DeleteKeeps ==
    ASSUME HostTypeOK, ProviderTypeOK, FindsKept, NEW id \in Ids, NEW row \in Row,
           Holds(id, row), Replace(row) \/ Unlink(row)
    PROVE  Keeps(id, row)
  <1>1. row.name \in Names
    BY RowTypes
  <1>2. CASE call.held /\ SetLink(row.name, None)
    <2>1. Mine(id, row.name)
      BY <1>2 DEF Replace, Unlink, Holds, OwnedPoints
    <2>2. /\ links' \in [Names -> Link \cup {None}]
          /\ links'[row.name] = None
          /\ \A other \in Names \ {row.name} : links'[other] = links[other]
      BY <1>1, <1>2, SetLinkTypes
    <2>3. call'.pc = "add" \/ ~call'.held
      BY <1>2, CallFields DEF Replace, Unlink, Configure
    <2>4. Holds(id, row)'
      BY <2>3 DEF Holds, MarkingPoints, OwnedPoints, RulePoints
    <2> QED BY <1>1, <2>1, <2>2, <2>4
        DEF Replace, Unlink, Keeps, HostTypeOK, Touches
  <1>3. CASE ~call.held
    BY <1>3, FailedKeeps DEF Replace, Unlink, Configure, hostVars
  <1> QED BY <1>2, <1>3 DEF Replace, Unlink, Configure

(* Marking the link in hand, whoever's it is. *)
LEMMA AliasKeeps ==
    ASSUME HostTypeOK, ProviderTypeOK, FindsKept, NEW id \in Ids, NEW row \in Row,
           Holds(id, row), Alias(id, row) \/ AliasByName(id, row)
    PROVE  Keeps(id, row)
  <1>1. row.name \in Names
    BY RowTypes
  <1>2. CASE /\ Present(row.name)
             /\ SetLink(row.name, [links[row.name] EXCEPT !.alias = id])
    <2>1. [links[row.name] EXCEPT !.alias = id] \in Link
      BY <1>1, <1>2, LinkTypes
    <2>2. [links[row.name] EXCEPT !.alias = id].alias = id
      BY <1>1, <1>2, LinkTypes, LinkMarkers
    <2> QED BY <1>2, <2>1, <2>2, MarkedKeeps DEF Alias, AliasByName
  <1>3. CASE Answer("failed") /\ UNCHANGED links
    BY <1>3, FailedKeeps DEF Alias, AliasByName, hostVars
  <1>4. CASE Alias(id, row) /\ call.held /\ Step("verify") /\ UNCHANGED links
    <2>1. Present(row.name)' = Present(row.name)
      BY <1>4 DEF Present
    <2>2. Present(row.name)
      BY <1>4 DEF Alias, Holds, MarkingPoints
    <2>3. call'.pc = "verify"
      BY <1>4, CallFields
    <2>4. Holds(id, row)'
      BY <2>1, <2>2, <2>3 DEF Holds, OwnedPoints, RulePoints
    <2>5. HostTypeOK' /\ Touches(id, row)
      BY <1>4 DEF Alias, HostTypeOK, Touches
    <2> QED BY <2>4, <2>5 DEF Keeps
  <1>5. Alias(id, row) /\ call.held => Present(row.name)
    BY DEF Alias, Holds, MarkingPoints
  <1> QED BY <1>2, <1>3, <1>4, <1>5 DEF Alias, AliasByName, Configure

(* Settings of the link in hand, by now the tunnel's own. *)
LEMMA SettingsKeep ==
    ASSUME HostTypeOK, ProviderTypeOK, FindsKept, NEW id \in Ids, NEW row \in Row,
           Holds(id, row),
           \/ SetMTU(row) \/ DropAddress(row) \/ Assign(row)
           \/ SetUp(row) \/ SetDown(row)
    PROVE  Keeps(id, row)
  <1>1. row.name \in Names
    BY RowTypes
  <1>2. CASE Answer("failed") /\ UNCHANGED links
    BY <1>2, FailedKeeps
    DEF SetMTU, DropAddress, Assign, SetUp, SetDown, hostVars
  <1>3. CASE call.held
    <2>1. Mine(id, row.name)
      BY <1>3 DEF SetMTU, DropAddress, Assign, SetUp, SetDown, Holds,
                  OwnedPoints
    <2>2. Present(row.name)
      BY <2>1 DEF Mine, Owned, Imported
    <2>3. ASSUME NEW link \in Link, link.alias = links[row.name].alias,
                 SetLink(row.name, link)
          PROVE  Keeps(id, row)
      BY <2>1, <2>2, <2>3, MarkedKeeps
      DEF SetMTU, DropAddress, Assign, SetUp, SetDown
    <2> DEFINE link == links[row.name]
    <2>4. link \in Link /\ link.addresses \subseteq Addresses
      BY <1>1, <2>2, LinkTypes
    <2>5. CASE SetMTU(row)
      <3>1. SetLink(row.name, [link EXCEPT !.mtu = row.config.mtu])
        BY <1>3, <2>5 DEF SetMTU, Configure
      <3>2. [link EXCEPT !.mtu = row.config.mtu] \in Link
        BY <1>1, <2>2, LinkTypes, RowTypes
      <3>3. [link EXCEPT !.mtu = row.config.mtu].alias = link.alias
        BY <2>4, LinkMarkers
      <3> QED BY <2>3, <3>1, <3>2, <3>3
    <2>6. ASSUME NEW addresses \in SUBSET Addresses,
                  SetLink(row.name, [link EXCEPT !.addresses = addresses])
           PROVE  Keeps(id, row)
      <3>1. [link EXCEPT !.addresses = addresses] \in Link
        BY <1>1, <2>2, LinkTypes
      <3>2. [link EXCEPT !.addresses = addresses].alias = link.alias
        BY <2>4, LinkMarkers
      <3> QED BY <2>3, <2>6, <3>1, <3>2
    <2>7. CASE DropAddress(row)
      BY <1>2, <2>7, <2>4, <2>6, FailedKeeps DEF DropAddress
    <2>8. CASE Assign(row)
      <3>1. SetLink(row.name,
                [link EXCEPT !.addresses = @ \cup {row.config.address}])
        BY <1>3, <2>8 DEF Assign, Configure
      <3>2. link.addresses \cup {row.config.address} \in SUBSET Addresses
        BY <2>4, RowTypes
      <3> QED BY <2>6, <3>1, <3>2
    <2>9. ASSUME NEW up \in BOOLEAN,
                  SetLink(row.name, [link EXCEPT !.up = up])
           PROVE  Keeps(id, row)
      <3>1. [link EXCEPT !.up = up] \in Link
        BY <1>1, <2>2, LinkTypes
      <3>2. [link EXCEPT !.up = up].alias = link.alias
        BY <2>4, LinkMarkers
      <3> QED BY <2>3, <2>9, <3>1, <3>2
    <2>10. CASE SetUp(row)
      BY <1>2, <2>10, <2>9 DEF SetUp, Configure
    <2>11. CASE SetDown(row)
      BY <1>2, <2>11, <2>9 DEF SetDown
    <2> QED BY <2>5, <2>7, <2>8, <2>10, <2>11
  <1> QED BY <1>2, <1>3
      DEF SetMTU, DropAddress, Assign, SetUp, SetDown, Configure

LEMMA WorkKeeps ==
    ASSUME HostTypeOK, ProviderTypeOK, FindsKept, NEW id \in Ids, NEW row \in Row,
           Holds(id, row), Work(id, row)
    PROVE  Keeps(id, row)
  BY LooksKeep, RulesKeep, AddKeeps, DeleteKeeps, AliasKeeps, SettingsKeep
  DEF Work, Find, Recover, Load, Verify, VerifyByName, ListAddresses,
      FindEgress, Lookup, Observe

-----------------------------------------------------------------------------
(* A link that comes or changes: unmarked, or marked as it was. *)
LEMMA OtherLinks ==
    ASSUME HostTypeOK, NEW name \in Names, AddForeign(name) \/ Drift(name)
    PROVE  \E link \in Link :
               /\ SetLink(name, link)
               /\ \/ ~Present(name) /\ link.alias = None /\ link.maker = None
                  \/ /\ Present(name)
                     /\ link.alias = links[name].alias
                     /\ link.maker = links[name].maker
  <1>1. CASE AddForeign(name)
    <2>1. PICK endpoints \in Endpoints \cup {None}, ttl \in TTLs,
               mtu \in MTUs :
              SetLink(name,
                  [endpoints |-> endpoints, ttl |-> ttl, mtu |-> mtu,
                   addresses |-> {}, up |-> TRUE,
                   alias |-> None, maker |-> None])
      BY <1>1 DEF AddForeign
    <2>2. [endpoints |-> endpoints, ttl |-> ttl, mtu |-> mtu,
           addresses |-> {}, up |-> TRUE, alias |-> None, maker |-> None]
              \in Link
      BY DEF Link, Owners
    <2> QED BY <1>1, <2>1, <2>2 DEF AddForeign
  <1>2. CASE Drift(name)
    <2>1. PICK ttl \in TTLs, mtu \in MTUs, addresses \in SUBSET Addresses,
               up \in BOOLEAN :
              SetLink(name,
                  [links[name] EXCEPT !.ttl = ttl, !.mtu = mtu,
                       !.addresses = addresses, !.up = up])
      BY <1>2 DEF Drift
    <2>2. Present(name) /\ links[name] \in Link
      BY <1>2, LinkTypes DEF Drift
    <2>3. [links[name] EXCEPT !.ttl = ttl, !.mtu = mtu,
               !.addresses = addresses, !.up = up] \in Link
      BY <2>2, LinkTypes
    <2>4. LET changed == [links[name] EXCEPT !.ttl = ttl, !.mtu = mtu,
                              !.addresses = addresses, !.up = up]
          IN  /\ changed.alias = links[name].alias
              /\ changed.maker = links[name].maker
      BY <2>2, LinkMarkers
    <2> QED BY <2>1, <2>2, <2>3, <2>4
  <1> QED BY <1>1, <1>2

(* What Remove leaves under the tunnel's name: nothing, or a link that others
   have put there and that has the tunnel's marker from its import alone. *)
Gone(id, name) ==
    Present(name) => /\ links[name].maker = None
                     /\ links[name].alias = id => ~At(id, "find")

(* No link loses its marker. *)
MarkersStay ==
    \A name \in Names : Managed(name) /\ Present(name)' => Managed(name)'

(* The steps of others: a link comes with no marker, goes, or keeps the
   marker it has. *)
LEMMA OthersMark ==
    ASSUME HostTypeOK,
           \/ \E name \in Names, inHand \in BOOLEAN :
                  RemoveDiscovered(name, inHand)
           \/ Reroute \/ \E name \in Names : AddForeign(name) \/ Drift(name)
    PROVE  MarkersStay
  <1>1. ASSUME NEW name \in Names, NEW inHand \in BOOLEAN,
               RemoveDiscovered(name, inHand)
        PROVE  MarkersStay
    BY <1>1, SetLinkTypes DEF RemoveDiscovered, MarkersStay, Managed, Present
  <1>2. Reroute => MarkersStay
    BY DEF Reroute, MarkersStay, Managed, Present
  <1>3. ASSUME NEW name \in Names, AddForeign(name) \/ Drift(name)
        PROVE  MarkersStay
    <2>1. PICK link \in Link :
              /\ SetLink(name, link)
              /\ Present(name) => link.alias = links[name].alias
      BY <1>3, OtherLinks
    <2> QED BY <2>1, SetLinkTypes DEF MarkersStay, Managed, Present
  <1> QED BY <1>1, <1>2, <1>3

LEMMA OthersKeep ==
    ASSUME HostTypeOK, ProviderTypeOK, FindsKept, NEW id \in Ids, NEW row \in Row,
           \/ \E name \in Names : RemoveDiscovered(name, row.name = name)
           \/ /\ Reroute \/ \E name \in Names : AddForeign(name) \/ Drift(name)
              /\ UNCHANGED call
    PROVE  /\ HostTypeOK'
           /\ ProviderTypeOK'
           /\ Holds(id, row) => Holds(id, row)'
           /\ Gone(id, row.name) => Gone(id, row.name)'
           /\ call'.pc = call.pc /\ call'.result = call.result
  <1>1. row.name \in Names
    BY RowTypes
  <1>2. ASSUME NEW name \in Names, RemoveDiscovered(name, row.name = name)
        PROVE  /\ HostTypeOK'
               /\ ProviderTypeOK'
               /\ Holds(id, row) => Holds(id, row)'
               /\ Gone(id, row.name) => Gone(id, row.name)'
               /\ call'.pc = call.pc /\ call'.result = call.result
    <2>1. /\ links' \in [Names -> Link \cup {None}]
          /\ links'[name] = None
          /\ \A other \in Names \ {name} : links'[other] = links[other]
      BY <1>2, SetLinkTypes DEF RemoveDiscovered
    <2>2. HostTypeOK'
      BY <1>2, <2>1 DEF RemoveDiscovered, HostTypeOK
    <2>3. /\ ProviderTypeOK'
          /\ call'.pc = call.pc /\ call'.result = call.result
          /\ call'.held = (call.held /\ row.name # name)
      BY <1>2 DEF RemoveDiscovered, ProviderTypeOK
    <2>4. CASE row.name = name
      BY <2>1, <2>2, <2>3, <2>4 DEF Holds, Gone, Present
    <2>5. CASE row.name # name
      <3>1. links'[row.name] = links[row.name]
        BY <1>1, <2>1, <2>5
      <3>2. /\ Mine(id, row.name) => Mine(id, row.name)'
            /\ Present(row.name)' = Present(row.name)
            /\ Gone(id, row.name) => Gone(id, row.name)'
        BY <3>1, MineKept
        DEF Mine, Owned, Imported, Present, Gone, FindsKept, Ids
      <3> QED BY <2>2, <2>3, <2>5, <3>2
          DEF Holds, MarkingPoints, OwnedPoints, RulePoints
    <2> QED BY <2>4, <2>5
  <1>3. ASSUME Reroute, UNCHANGED call
        PROVE  /\ HostTypeOK'
               /\ ProviderTypeOK'
               /\ Holds(id, row) => Holds(id, row)'
               /\ Gone(id, row.name) => Gone(id, row.name)'
    <2>1. /\ Mine(id, row.name) => Mine(id, row.name)'
          /\ Present(row.name)' = Present(row.name)
          /\ Gone(id, row.name) => Gone(id, row.name)'
      BY <1>3, MineKept
      DEF Reroute, Mine, Owned, Imported, Present, Gone, FindsKept, Ids
    <2> QED BY <1>3, <2>1
        DEF Reroute, HostTypeOK, ProviderTypeOK, Holds, MarkingPoints,
            OwnedPoints, RulePoints
  <1>4. ASSUME NEW name \in Names, AddForeign(name) \/ Drift(name),
               UNCHANGED call
        PROVE  /\ HostTypeOK'
               /\ ProviderTypeOK'
               /\ Holds(id, row) => Holds(id, row)'
               /\ Gone(id, row.name) => Gone(id, row.name)'
    <2>1. PICK link \in Link :
              /\ SetLink(name, link)
              /\ \/ ~Present(name) /\ link.alias = None /\ link.maker = None
                 \/ /\ Present(name)
                    /\ link.alias = links[name].alias
                    /\ link.maker = links[name].maker
      BY <1>4, OtherLinks
    <2>2. /\ links' \in [Names -> Link \cup {None}]
          /\ links'[name] = link
          /\ \A other \in Names \ {name} : links'[other] = links[other]
      BY <2>1, SetLinkTypes
    <2>3. HostTypeOK' /\ ProviderTypeOK'
      BY <1>4, <2>2 DEF AddForeign, Drift, HostTypeOK, ProviderTypeOK
    <2>4. Present(row.name) => /\ Present(row.name)'
                               /\ links'[row.name].alias = links[row.name].alias
                               /\ links'[row.name].maker = links[row.name].maker
      BY <1>1, <2>1, <2>2, NoneIsNoLink DEF Present
    <2>5. ~Present(row.name) /\ Present(row.name)'
              => links'[row.name].alias = None /\ links'[row.name].maker = None
      BY <1>1, <2>1, <2>2 DEF Present
    <2>6. Gone(id, row.name) => Gone(id, row.name)'
      BY <2>4, <2>5, NoneIsNoLink DEF Gone, Present, FindsKept, Ids
    <2>7. Mine(id, row.name) => Mine(id, row.name)'
      BY <2>4, MineKept DEF Mine, Owned, Imported
    <2> QED BY <1>4, <2>3, <2>4, <2>6, <2>7 DEF Holds
  <1> QED BY <1>2, <1>3, <1>4

(* The same with no tunnel in hand. *)
LEMMA OthersTypes ==
    ASSUME HostTypeOK, ProviderTypeOK,
           \/ \E name \in Names : RemoveDiscovered(name, FALSE)
           \/ /\ Reroute \/ \E name \in Names : AddForeign(name) \/ Drift(name)
              /\ UNCHANGED call
    PROVE  HostTypeOK' /\ ProviderTypeOK' /\ call'.pc = call.pc
  <1>1. ASSUME NEW name \in Names, RemoveDiscovered(name, FALSE)
        PROVE  HostTypeOK' /\ ProviderTypeOK' /\ call'.pc = call.pc
    BY <1>1, SetLinkTypes DEF RemoveDiscovered, HostTypeOK, ProviderTypeOK
  <1>2. ASSUME NEW name \in Names, AddForeign(name) \/ Drift(name),
               UNCHANGED call
        PROVE  HostTypeOK' /\ ProviderTypeOK' /\ call'.pc = call.pc
    <2>1. links' \in [Names -> Link \cup {None}]
      BY <1>2, OtherLinks, SetLinkTypes
    <2> QED BY <1>2, <2>1
        DEF AddForeign, Drift, HostTypeOK, ProviderTypeOK
  <1>3. Reroute /\ UNCHANGED call
            => HostTypeOK' /\ ProviderTypeOK' /\ call'.pc = call.pc
    BY DEF Reroute, HostTypeOK, ProviderTypeOK
  <1> QED BY <1>1, <1>2, <1>3

-----------------------------------------------------------------------------
(* The method called is the one for the state the copy desires. *)
RowDirects ==
    /\ controller.pc = "remove" => controller.row.desired = "deleted"
    /\ controller.pc \in {"reconcile", "observe"}
           => controller.row.desired # "deleted"

(* A Remove that has succeeded has left no link of the tunnel's. *)
Removed ==
    \/ controller.pc = "drop"
    \/ controller.pc = "remove" /\ call.pc = "answered" /\ call.result = "ok"

RemovalDone == Removed => Gone(controller.tunnel, controller.row.name)

(* The link an import has in hand has a marker. *)
AdoptionHolds ==
    \A r \in Requests :
        adoptions[r].held => /\ requests[r].pc = "adopt"
                             /\ ~At(r, "find")
                             /\ Managed(requests[r].row.name)

AdoptionsOK == adoptions \in [Requests -> Adoption] /\ AdoptionHolds

Ownership ==
    /\ AgentTypeOK
    /\ RowDirects
    /\ AtProvider => Holds(controller.tunnel, controller.row)
    /\ RemovalDone
    /\ AdoptionsOK

(* Nothing is in hand between calls. *)
LEMMA NothingHeld ==
    ASSUME call.pc \in {"idle", "answered", "find", "observe"} \/ ~call.held
    PROVE  \A id, row : Holds(id, row)
  BY DEF Holds, MarkingPoints, OwnedPoints, RulePoints

(* The statements of the store lead to the method the copy asks for, and
   only Remove leads to the drop. *)
LEMMA StatementsDirect ==
    ASSUME TypeOK, ~AtProvider, Progress \/ ControllerStoreError
    PROVE  RowDirects' /\ controller'.pc # "drop"
  <1> USE DEF RowDirects, TypeOK, ControllerTypeOK, AtProvider, ProviderPoints
  <1>1. \A rest : Loop(rest) => controller'.pc \in {"list", "next"}
    BY DEF Loop, Started
  <1>2. Return => controller'.pc \in {"list", "next"}
    BY <1>1 DEF Return
  <1>3. \A pc \in {"resume", "list", "succeed", "fail", "give_up"} :
            Goto(pc) => controller'.pc = pc
    BY DEF Goto
  <1>4. CASE Requeue \/ Resume
    BY <1>3, <1>4 DEF Requeue, Resume
  <1>5. CASE ListTunnels
    BY <1>1, <1>5 DEF ListTunnels
  <1>6. CASE \E id \in Ids : Skip(id) \/ Begin(id)
    <2>1. ASSUME NEW id \in Ids, Skip(id)
          PROVE  controller'.pc \in {"list", "next"}
      BY <1>1, <2>1 DEF Skip
    <2>2. ASSUME NEW id \in Ids, Begin(id)
          PROVE  controller'.pc = "start"
      BY <2>2 DEF Begin
    <2> QED BY <1>6, <2>1, <2>2
  <1>7. CASE Start
    <2>1. controller'.row = controller.row
      BY <1>7 DEF Start, Goto
    <2>2. controller'.pc = IF controller.row.desired = "deleted"
                           THEN "remove" ELSE "reconcile"
      BY <1>7 DEF Start, Goto
    <2> QED BY <2>1, <2>2
  <1>8. CASE Drop
    BY <1>2, <1>3, <1>8 DEF Drop
  <1>9. CASE Mark \/ Fail
    BY <1>2, <1>3, <1>9 DEF Mark, Fail, WriteBack
  <1>10. CASE Complete
    BY <1>2, <1>10 DEF Complete
  <1>11. CASE ControllerStoreError
    BY <1>2, <1>11 DEF ControllerStoreError
  <1> QED
    BY <1>4, <1>5, <1>6, <1>7, <1>8, <1>9, <1>10, <1>11
    DEF Progress, RemoveSucceeds, ReconcileSucceeds, ObserveHealthy

LEMMA InHandTypes ==
    ASSUME TypeOK, AtProvider
    PROVE  controller.tunnel \in Ids /\ controller.row \in Row
  BY DEF TypeOK, ControllerTypeOK, AtProvider, ProviderPoints, Busy, Points,
         StorePoints

(* Where a step leaves links and imports alone, so it does what Remove has
   left. *)
LEMMA GoneKept ==
    ASSUME TypeOK, FindsKept, UNCHANGED links,
           controller'.tunnel = controller.tunnel,
           controller'.row = controller.row,
           Removed, RemovalDone
    PROVE  Gone(controller.tunnel, controller.row.name)'
  <1>1. PICK id \in Requests : id = controller.tunnel
    BY DEF TypeOK, ControllerTypeOK, Removed, Busy, Points, StorePoints,
           ProviderPoints, Ids
  <1> QED BY <1>1 DEF RemovalDone, Gone, Present, FindsKept

LEMMA ProvideKept ==
    ASSUME Ownership, TypeOK', FindsKept, AdoptionsOK', Provide
    PROVE  Ownership'
  <1>1. /\ AtProvider /\ UNCHANGED controller
        /\ Work(controller.tunnel, controller.row)
    BY DEF Provide, vars
  <1>2. PICK id \in Ids, row \in Row :
            id = controller.tunnel /\ row = controller.row
    BY <1>1, InHandTypes DEF Ownership, AgentTypeOK
  <1>3. Work(id, row) /\ Holds(id, row)
    BY <1>1, <1>2 DEF Ownership
  <1>4. Follows(id, row) /\ Keeps(id, row)
    BY <1>1, <1>2, <1>3, WorkFollows, WorkKeeps DEF Ownership, AgentTypeOK
  <1>5. HostTypeOK' /\ ProviderTypeOK'
    BY <1>4 DEF Follows, Keeps
  <1>6. Holds(controller.tunnel, controller.row)'
    BY <1>1, <1>2, <1>4
    DEF Keeps, Holds, Mine, Owned, Imported, Present
  <1>7. AtProvider' /\ RowDirects' /\ controller'.pc # "drop"
    BY <1>1 DEF Ownership, AtProvider, ProviderPoints, RowDirects
  <1>8. /\ call'.pc \in ReconcilePoints => controller'.pc = "reconcile"
        /\ call'.pc \in RulePoints => controller'.pc \in {"reconcile", "remove"}
        /\ call'.pc \in RemovePoints => controller'.pc = "remove"
    BY <1>1, <1>2, <1>4 DEF Follows, Ownership, AgentTypeOK, RowDirects
  <1>9. RemovalDone'
    <2> SUFFICES ASSUME controller.pc = "remove", call'.pc = "answered",
                        call'.result = "ok"
                 PROVE  Gone(controller.tunnel, controller.row.name)'
      BY <1>1, <1>7 DEF RemovalDone, Removed
    <2>1. row.desired # "enabled" /\ call.pc \notin ReconcilePoints
      BY <1>2 DEF Ownership, AgentTypeOK, RowDirects
    <2> QED BY <1>1, <1>2, <1>4, <2>1 DEF Follows, Gone, Present
  <1> QED BY <1>5, <1>6, <1>7, <1>8, <1>9
      DEF Ownership, AgentTypeOK, AdoptionsOK

LEMMA EnterKept ==
    ASSUME Ownership, TypeOK', FindsKept, AdoptionsOK', Enter
    PROVE  Ownership'
  <1>1. UNCHANGED <<controller, links, rules, route>>
    BY DEF Enter, vars, hostVars
  <1>2. PICK pc \in {"find", "observe", "route"} :
            /\ Call(pc)
            /\ pc = "find" => controller.pc = "reconcile"
            /\ pc = "route" => controller.pc = "remove"
    BY DEF Enter, AtProvider, ProviderPoints
  <1>3. call'.pc = pc /\ ~call'.held /\ ProviderTypeOK'
    BY <1>2, CallFields, CallTypes
    DEF Ownership, AgentTypeOK, Working, ReconcilePoints, RulePoints
  <1>4. HostTypeOK' /\ RowDirects' /\ AtProvider'
    BY <1>1 DEF Enter, Ownership, AgentTypeOK, HostTypeOK, RowDirects,
                AtProvider
  <1>5. Holds(controller.tunnel, controller.row)'
    BY <1>3 DEF Holds
  <1>6. RemovalDone'
    BY <1>3, <1>4 DEF RemovalDone, Removed, AtProvider, ProviderPoints
  <1>7. /\ call'.pc \in ReconcilePoints => controller'.pc = "reconcile"
        /\ call'.pc \in RulePoints => controller'.pc \in {"reconcile", "remove"}
        /\ call'.pc \in RemovePoints => controller'.pc = "remove"
    BY <1>1, <1>2, <1>3 DEF ReconcilePoints, RulePoints, RemovePoints
  <1> QED BY <1>3, <1>4, <1>5, <1>6, <1>7
      DEF Ownership, AgentTypeOK, AdoptionsOK

(* A step after which no call is under way. *)
LEMMA IdleKept ==
    ASSUME Ownership, TypeOK', AdoptionsOK', HostTypeOK', call' = NoCall,
           RowDirects',
           controller'.pc = "drop"
               => Gone(controller.tunnel, controller.row.name)'
    PROVE  Ownership'
  <1>1. ProviderTypeOK' /\ call'.pc = "idle" /\ ~call'.held
    BY CallTypes, CallFields DEF Ownership, AgentTypeOK
  <1>2. Holds(controller.tunnel, controller.row)' /\ RemovalDone'
    BY <1>1 DEF Holds, RemovalDone, Removed
  <1> QED BY <1>1, <1>2
      DEF Ownership, AgentTypeOK, AdoptionsOK, ReconcilePoints, RulePoints,
          RemovePoints

LEMMA ReceiveKept ==
    ASSUME Ownership, TypeOK', FindsKept, AdoptionsOK', Receive
    PROVE  Ownership'
  <1> USE DEF Ownership, AgentTypeOK, TypeOK, ControllerTypeOK
  <1>1. UNCHANGED <<links, rules, route>>
    BY DEF Receive, hostVars
  <1>2. /\ controller'.tunnel = controller.tunnel
        /\ controller'.row = controller.row
        /\ \/ controller.pc = "reconcile" /\ controller'.pc = "observe"
           \/ controller'.pc \in {"drop", "mark", "fail"}
        /\ controller'.pc = "drop" =>
               controller.pc = "remove" /\ call.result = "ok"
    BY DEF Receive, Accept, ReconcileSucceeds, RemoveSucceeds,
           ObserveHealthy, ObserveUnhealthy, ProviderFails, Goto
  <1>3. RowDirects'
    BY <1>2 DEF RowDirects
  <1>4. controller'.pc = "drop"
            => Gone(controller.tunnel, controller.row.name)'
    <2> SUFFICES ASSUME controller'.pc = "drop"
                 PROVE  Gone(controller.tunnel, controller.row.name)'
      OBVIOUS
    <2>1. Removed /\ controller.pc = "remove"
      BY <1>2 DEF Receive, Removed
    <2> HIDE DEF TypeOK, ControllerTypeOK
    <2> QED BY <1>1, <1>2, <2>1, GoneKept
  <1>5. HostTypeOK'
    BY <1>1 DEF HostTypeOK
  <1> HIDE DEF Ownership
  <1> QED BY <1>3, <1>4, <1>5, IdleKept DEF Receive

LEMMA ProceedKept ==
    ASSUME Ownership, TypeOK', AdoptionsOK', ~AtProvider,
           Progress \/ ControllerStoreError, UNCHANGED <<hostVars, call>>
    PROVE  Ownership'
  <1>1. call.pc = "idle" /\ ProviderTypeOK' /\ HostTypeOK'
    BY DEF Ownership, AgentTypeOK, HostTypeOK, ProviderTypeOK, hostVars
  <1>2. RowDirects' /\ controller'.pc # "drop"
    BY StatementsDirect DEF Ownership, AgentTypeOK
  <1>3. /\ Holds(controller.tunnel, controller.row)'
        /\ RemovalDone'
    BY <1>1, <1>2
    DEF Holds, MarkingPoints, OwnedPoints, RulePoints, RemovalDone, Removed
  <1> QED BY <1>1, <1>2, <1>3
      DEF Ownership, AgentTypeOK, AdoptionsOK, ReconcilePoints, RulePoints,
          RemovePoints

(* Handlers: neither the controller's state nor the host changes. *)
LEMMA StillKept ==
    ASSUME Ownership, TypeOK', FindsKept, AdoptionsOK',
           UNCHANGED <<controller, hostVars, call>>
    PROVE  Ownership'
  <1>1. HostTypeOK' /\ ProviderTypeOK'
    BY DEF Ownership, AgentTypeOK, HostTypeOK, ProviderTypeOK, hostVars
  <1>2. /\ AtProvider' = AtProvider
        /\ Holds(controller.tunnel, controller.row)
               => Holds(controller.tunnel, controller.row)'
        /\ RowDirects' = RowDirects
        /\ Removed' = Removed
    BY DEF AtProvider, Holds, RowDirects, Removed, Mine, Owned, Imported,
           Present, FindsKept, Ids, hostVars
  <1>3. RemovalDone'
    BY <1>2, GoneKept
    DEF Ownership, AgentTypeOK, RemovalDone, Removed, hostVars
  <1> QED BY <1>1, <1>2, <1>3 DEF Ownership, AgentTypeOK, AdoptionsOK

LEMMA CommandFailsKept ==
    ASSUME Ownership, TypeOK', FindsKept, AdoptionsOK', AtProvider,
           CallFails(controller.row) \/ RuleStays(controller.row),
           UNCHANGED vars
    PROVE  Ownership'
  <1> DEFINE id == controller.tunnel
             row == controller.row
  <1>1. UNCHANGED <<controller, links, rules, route>> /\ AtProvider
    BY DEF CallFails, RuleStays, vars, hostVars
  <1>2. HostTypeOK' /\ RowDirects' /\ AtProvider' /\ controller'.pc # "drop"
    BY <1>1 DEF Ownership, AgentTypeOK, HostTypeOK, RowDirects, AtProvider,
                ProviderPoints
  <1>3. Mine(id, row.name) => Mine(id, row.name)'
    BY <1>1 DEF Mine, Owned, Imported, Present, FindsKept
  <1> USE <1>1, <1>2, CallTypes, CallFields
      DEF Ownership, AgentTypeOK, AdoptionsOK
  <1>4. CASE Answer("failed")
    <2>1. /\ call'.pc = "answered" /\ ~call'.held
          /\ call'.result = "failed" /\ ProviderTypeOK'
      BY <1>4 DEF Results
    <2> QED BY <2>1
        DEF Holds, RemovalDone, Removed, ReconcilePoints, RulePoints, RemovePoints
  <1>5. CASE RuleStays(row)
    <2>1. CASE call.pc = "mark_rule" /\ Step("nat_rule")
      <3>1. ProviderTypeOK' /\ call'.pc = "nat_rule" /\ call'.held = call.held
        BY <2>1 DEF Step, ProviderTypeOK, Working, RulePoints
      <3>2. Holds(controller.tunnel, controller.row)'
        BY <1>3, <2>1, <3>1
        DEF Holds, MarkingPoints, OwnedPoints, RulePoints
      <3> QED BY <2>1, <3>1, <3>2
          DEF RemovalDone, Removed, ReconcilePoints, RulePoints, RemovePoints
    <2>2. CASE row.desired = "enabled" /\ Answer("ok")
      <3>1. /\ call'.pc = "answered" /\ ~call'.held /\ ProviderTypeOK'
        BY <2>2 DEF Results
      <3>2. controller.pc # "remove"
        BY <2>2 DEF RowDirects
      <3> QED BY <3>1, <3>2
          DEF Holds, RemovalDone, Removed, ReconcilePoints, RulePoints, RemovePoints
    <2>3. CASE \/ row.desired = "disabled" /\ Step("down")
               \/ row.desired = "deleted" /\ Step("lookup")
      <3>1. /\ ProviderTypeOK' /\ call'.held = call.held
            /\ \/ row.desired = "disabled" /\ call'.pc = "down"
               \/ row.desired = "deleted" /\ call'.pc = "lookup"
        BY <2>3 DEF Working, ReconcilePoints, RemovePoints
      <3>2. call.pc \in RulePoints
        BY <1>5 DEF RuleStays, RulePoints
      <3>3. Holds(controller.tunnel, controller.row)'
        BY <1>3, <3>1, <3>2
        DEF Holds, MarkingPoints, OwnedPoints, RulePoints
      <3>4. /\ row.desired = "disabled" => controller.pc = "reconcile"
            /\ row.desired = "deleted" => controller.pc = "remove"
        BY <3>2 DEF RowDirects
      <3> QED BY <3>1, <3>3, <3>4
          DEF RemovalDone, Removed, ReconcilePoints, RulePoints, RemovePoints
    <2> QED BY <1>5, <2>1, <2>2, <2>3 DEF RuleStays, AfterRules
  <1> QED BY <1>4, <1>5 DEF CallFails

LEMMA CrashKept ==
    ASSUME Ownership, TypeOK', FindsKept, AdoptionsOK', AgentCrash
    PROVE  Ownership'
  <1>1. controller'.pc = "boot"
    BY DEF AgentCrash, Crash, Restart, Started
  <1>2. RowDirects'
    BY <1>1 DEF RowDirects
  <1>3. HostTypeOK'
    BY DEF AgentCrash, Reboot, hostVars, Ownership, AgentTypeOK, HostTypeOK
  <1> QED BY <1>1, <1>2, <1>3, IdleKept DEF AgentCrash

LEMMA InterveneKept ==
    ASSUME Ownership, TypeOK', FindsKept, AdoptionsOK', Intervene
    PROVE  Ownership'
  <1>1. UNCHANGED controller
    BY DEF Intervene, vars
  <1>2. CASE controller.pc \in Busy
    <2>1. PICK id \in Ids, row \in Row :
              id = controller.tunnel /\ row = controller.row
      BY <1>2 DEF Ownership, AgentTypeOK, TypeOK, ControllerTypeOK
    <2>2. \/ \E name \in Names : RemoveDiscovered(name, row.name = name)
          \/ /\ Reroute \/ \E name \in Names : AddForeign(name) \/ Drift(name)
             /\ UNCHANGED call
      <3>1. ASSUME NEW name \in Names, RemoveDiscovered(name, InHand(name))
            PROVE  RemoveDiscovered(name, row.name = name)
        BY <1>2, <2>1, <3>1 DEF RemoveDiscovered, InHand
      <3> QED BY <3>1 DEF Intervene
    <2>3. /\ HostTypeOK' /\ ProviderTypeOK'
          /\ Holds(id, row) => Holds(id, row)'
          /\ Gone(id, row.name) => Gone(id, row.name)'
          /\ call'.pc = call.pc /\ call'.result = call.result
      BY <2>1, <2>2, OthersKeep DEF Ownership, AgentTypeOK
    <2>4. /\ AtProvider' = AtProvider
          /\ AtProvider => Holds(controller.tunnel, controller.row)'
          /\ RowDirects' /\ RemovalDone'
      BY <1>1, <2>1, <2>3
      DEF Ownership, AtProvider, Holds, RowDirects, RemovalDone, Removed, Gone,
          Mine, Owned, Imported, Present, At
    <2> QED BY <1>1, <2>3, <2>4 DEF Ownership, AgentTypeOK, AdoptionsOK
  <1>3. CASE controller.pc \notin Busy
    <2>1. HostTypeOK' /\ ProviderTypeOK' /\ call'.pc = call.pc
      BY <1>3, OthersTypes DEF Intervene, InHand, Ownership, AgentTypeOK
    <2>2. ~AtProvider' /\ call.pc = "idle"
      BY <1>1, <1>3 DEF AtProvider, Ownership, AgentTypeOK, Busy, Points,
                        StorePoints, ProviderPoints
    <2>3. RowDirects' /\ RemovalDone'
      BY <1>1, <1>3 DEF RowDirects, RemovalDone, Removed, Busy, Points, StorePoints,
                        ProviderPoints
    <2> QED BY <2>1, <2>2, <2>3
        DEF Ownership, AgentTypeOK, AdoptionsOK, ReconcilePoints, RulePoints,
            RemovePoints
  <1> QED BY <1>2, <1>3

-----------------------------------------------------------------------------
(* The row of an import stays its own while Adopt is under way. *)
LEMMA RowsStay ==
    ASSUME TypeOK, [Next]_vars, NEW r \in Requests,
           requests[r].pc = "adopt", requests'[r].pc = "adopt"
    PROVE  requests'[r].row = requests[r].row
  <1> USE DEF TypeOK, ApiTypeOK
  <1>1. CASE Crash
    BY <1>1 DEF Crash, DropRequests, InFlight, Idle
  <1>2. CASE UNCHANGED requests
    BY <1>2
  <1>3. ASSUME NEW q \in Requests, Serve(q) \/ RequestStoreError(q)
        PROVE  requests'[r].row = requests[r].row
    <2>1. CASE q = r
      <3>1. Adopt(r)
        BY <1>3, <2>1
        DEF Serve, Reject, Ask, AskCreate, AskImport, AskUpdate, AskState,
            AskDelete, ReadForChange, Handle, Insert, Withdraw, Update, Audit,
            RequestStoreError
      <3>2. \A pc : Advance(r, pc) => requests'[r].pc = pc
        BY DEF Advance, Handler
      <3> QED BY <3>1, <3>2 DEF Adopt
    <2>2. CASE q # r
      <3>1. /\ \A pc : Advance(q, pc) => requests'[r] = requests[r]
            /\ Respond(q) => requests'[r] = requests[r]
            /\ \A pc, action, id, row :
                   Hold(q, pc, action, id, row) => requests'[r] = requests[r]
        BY <2>2 DEF Advance, Respond, Hold
      <3> QED BY <1>3, <3>1
          DEF Serve, Reject, Ask, AskCreate, AskImport, AskUpdate, AskState,
              AskDelete, ReadForChange, Handle, Insert, Adopt, Withdraw,
              Update, Audit, RequestStoreError
    <2> QED BY <2>1, <2>2
  <1> QED BY <1>1, <1>2, <1>3
      DEF Next, Api, ApiStep, Controller, ControllerFrame, vars

(* What is held stays marked, or is held no longer. *)
LEMMA FrameKeeps ==
    ASSUME AdoptionsOK, TypeOK, TypeOK', [Next]_vars, MarkersStay, AdoptionFrame
    PROVE  FindsKept /\ AdoptionsOK'
  <1>1. \A r \in Requests :
            /\ At(r, "find") => adoptions'[r] = adoptions[r]
            /\ ~At(r, "find") => /\ adoptions'[r] \in Adoption
                                 /\ adoptions'[r].pc # "find"
                                 /\ adoptions'[r].held =>
                                        /\ adoptions[r].held
                                        /\ requests'[r].pc = "adopt"
                                        /\ links'[requests[r].row.name] # None
    <2> SUFFICES ASSUME NEW r \in Requests
                 PROVE  /\ At(r, "find") => adoptions'[r] = adoptions[r]
                        /\ ~At(r, "find") =>
                               /\ adoptions'[r] \in Adoption
                               /\ adoptions'[r].pc # "find"
                               /\ adoptions'[r].held =>
                                      /\ adoptions[r].held
                                      /\ requests'[r].pc = "adopt"
                                      /\ links'[requests[r].row.name] # None
      BY DEF AdoptionsOK, Present
    <2>1. adoptions[r] \in Adoption
      BY DEF AdoptionsOK
    <2>2. CASE At(r, "find")
      BY <2>2 DEF AdoptionFrame
    <2>3. CASE ~At(r, "find") /\ requests'[r].pc # "adopt"
      BY <2>3 DEF AdoptionFrame, Adoption
    <2>4. CASE ~At(r, "find") /\ requests'[r].pc = "adopt"
      <3>1. adoptions'[r] = [adoptions[r] EXCEPT
                                 !.held = @ /\ links'[requests[r].row.name] # None]
        BY <2>4 DEF AdoptionFrame
      <3> QED BY <2>1, <2>4, <3>1 DEF Adoption, At, Present
    <2> QED BY <2>2, <2>3, <2>4
  <1>2. FindsKept /\ adoptions' \in [Requests -> Adoption]
    BY <1>1 DEF FindsKept, At, AdoptionFrame, AdoptionsOK
  <1>3. ASSUME NEW r \in Requests, adoptions'[r].held
        PROVE  /\ requests'[r].pc = "adopt"
               /\ ~At(r, "find")'
               /\ Managed(requests[r].row.name)'
    <2>1. /\ adoptions[r].held /\ ~At(r, "find") /\ requests'[r].pc = "adopt"
          /\ links'[requests[r].row.name] # None
      BY <1>1, <1>3 DEF AdoptionsOK, AdoptionHolds
    <2>2. requests[r].pc = "adopt" /\ Managed(requests[r].row.name)
      BY <2>1 DEF AdoptionsOK, AdoptionHolds
    <2>3. PICK name \in Names : name = requests[r].row.name
      BY <2>2, RowTypes DEF TypeOK, ApiTypeOK, InFlight
    <2>4. Managed(name)'
      BY <2>1, <2>2, <2>3 DEF MarkersStay, Present
    <2>5. requests'[r].row = requests[r].row
      BY <2>1, <2>2, RowsStay
    <2> QED BY <1>2, <2>1, <2>3, <2>4, <2>5 DEF FindsKept, Managed, Present
  <1> QED BY <1>2, <1>3 DEF AdoptionsOK, AdoptionHolds, Managed, Present

LEMMA StillMarked ==
    ASSUME UNCHANGED links
    PROVE  MarkersStay
  BY DEF MarkersStay, Managed, Present

LEMMA ProvideMarks ==
    ASSUME Ownership, Provide, FindsKept
    PROVE  MarkersStay
  <1>1. PICK id \in Ids, row \in Row :
            id = controller.tunnel /\ row = controller.row
    BY InHandTypes DEF Provide, Ownership, AgentTypeOK
  <1>2. Touches(id, row)
    BY <1>1, WorkKeeps DEF Provide, Keeps, Ownership, AgentTypeOK
  <1> QED BY <1>2 DEF Touches, MarkersStay, Managed, Present

LEMMA FrameFinds ==
    ASSUME adoptions \in [Requests -> Adoption], AdoptionFrame
    PROVE  FindsKept
  <1>1. \A r \in Requests :
            /\ At(r, "find") => adoptions'[r] = adoptions[r]
            /\ ~At(r, "find") => adoptions'[r].pc # "find"
    BY DEF AdoptionFrame, Adoption, At
  <1> QED BY <1>1 DEF FindsKept, At

-----------------------------------------------------------------------------
(* The calls of Adopt: the link gets the marker of the import, and an import
   that has begun stays so. *)
LEMMA AdoptsMarks ==
    ASSUME Ownership, NEW r \in Requests, requests[r].pc = "adopt",
           NEW name \in Names, name = requests[r].row.name, Adopts(r, name)
    PROVE  /\ links' \in [Names -> Link \cup {None}]
           /\ \A other \in Names :
                  \/ links'[other] = links[other]
                  \/ /\ other = name /\ Present(name) /\ Present(name)'
                     /\ links'[name].alias = r
                     /\ links'[name].maker = links[name].maker
                     /\ ~At(r, "find") /\ ~At(r, "find")'
                     /\ Managed(name) \/ At(r, "alias_ip")
           /\ adoptions' \in [Requests -> Adoption]
           /\ \A q \in Requests \ {r} : adoptions'[q] = adoptions[q]
           /\ ~At(r, "find")'
           /\ adoptions'[r].held => Managed(name)'
           /\ UNCHANGED <<rules, route, call>>
  <1> USE DEF Ownership, AgentTypeOK, AdoptionsOK
  <1>1. \A pc, held :
            AdoptionStep(r, pc, held) =>
                /\ \A q \in Requests \ {r} : adoptions'[q] = adoptions[q]
                /\ adoptions'[r] = [pc |-> pc, held |-> held]
                /\ At(r, pc)'
                /\ UNCHANGED <<rules, route, call>>
    BY DEF AdoptionStep, At
  <1>2. \A pc \in {"alias", "verify", "alias_ip", "verify_ip"},
           held \in BOOLEAN :
            AdoptionStep(r, pc, held) =>
                adoptions' \in [Requests -> Adoption] /\ ~At(r, "find")'
    BY DEF AdoptionStep, Adoption, At
  <1>3. /\ adoptions[r].held \in BOOLEAN
        /\ adoptions[r].held => Managed(name)
    BY DEF Adoption, AdoptionHolds
  <1>4. links \in [Names -> Link \cup {None}]
    BY DEF HostTypeOK
  <1>5. ASSUME Present(name),
               SetLink(name, [links[name] EXCEPT !.alias = r])
        PROVE  /\ links' \in [Names -> Link \cup {None}]
               /\ links'[name].alias = r
               /\ links'[name].maker = links[name].maker
               /\ Present(name)' /\ Managed(name)'
               /\ \A other \in Names \ {name} : links'[other] = links[other]
    <2>1. r \in Ids /\ links[name] \in Link
      BY <1>5, LinkTypes DEF Ids
    <2>2. [links[name] EXCEPT !.alias = r] \in Link
      BY <1>5, <2>1, LinkTypes
    <2>3. /\ [links[name] EXCEPT !.alias = r].alias = r
          /\ [links[name] EXCEPT !.alias = r].maker = links[name].maker
      BY <2>1, LinkMarkers
    <2>4. /\ links' \in [Names -> Link \cup {None}]
          /\ links'[name] = [links[name] EXCEPT !.alias = r]
          /\ \A other \in Names \ {name} : links'[other] = links[other]
      BY <1>5, <2>2, SetLinkTypes
    <2> QED BY <2>1, <2>2, <2>3, <2>4, NoneIsNoLink DEF Present, Managed
  <1>6. UNCHANGED links => (Managed(name) => Managed(name)')
    BY DEF Managed, Present
  <1>7. CASE FindManaged(r, name)
    BY <1>1, <1>2, <1>4, <1>6, <1>7 DEF FindManaged
  <1>8. CASE MarkManaged(r, name)
    <2>1. Present(name) /\ Managed(name) /\ ~At(r, "find")
      BY <1>3, <1>8 DEF MarkManaged, Managed, At
    <2>2. AdoptionStep(r, "verify", TRUE)
      BY <1>8 DEF MarkManaged
    <2>3. CASE SetLink(name, [links[name] EXCEPT !.alias = r])
      BY <1>1, <1>2, <1>5, <2>1, <2>2, <2>3
    <2>4. CASE UNCHANGED links
      BY <1>1, <1>2, <1>4, <1>6, <2>1, <2>2, <2>4
    <2> QED BY <1>8, <2>3, <2>4 DEF MarkManaged
  <1>9. CASE VerifyMarked(r, name)
    <2>1. /\ AdoptionStep(r, "alias_ip", adoptions[r].held)
          /\ UNCHANGED links
      BY <1>9 DEF VerifyMarked
    <2>2. adoptions'[r].held = adoptions[r].held
      BY <2>1 DEF AdoptionStep
    <2> QED BY <1>1, <1>2, <1>3, <1>4, <1>6, <2>1, <2>2
  <1>10. CASE MarkByName(r, name)
    <2>1. At(r, "alias_ip") /\ ~At(r, "find")
      BY <1>10 DEF MarkByName, At
    <2> QED BY <1>1, <1>2, <1>3, <1>5, <1>10, <2>1 DEF MarkByName
  <1> QED BY <1>7, <1>8, <1>9, <1>10 DEF Adopts

LEMMA AdoptsKept ==
    ASSUME Ownership, TypeOK', NEW r \in Requests, requests[r].pc = "adopt",
           Adopts(r, requests[r].row.name), UNCHANGED vars
    PROVE  Ownership'
  <1>1. PICK n \in Names : n = requests[r].row.name
    BY RowTypes DEF Ownership, AgentTypeOK, TypeOK, ApiTypeOK, InFlight
  <1>2. /\ links' \in [Names -> Link \cup {None}]
        /\ \A other \in Names :
               \/ links'[other] = links[other]
               \/ /\ other = n /\ Present(n) /\ Present(n)'
                  /\ links'[n].alias = r
                  /\ links'[n].maker = links[n].maker
                  /\ ~At(r, "find") /\ ~At(r, "find")'
        /\ adoptions' \in [Requests -> Adoption]
        /\ \A q \in Requests \ {r} : adoptions'[q] = adoptions[q]
        /\ ~At(r, "find")'
        /\ adoptions'[r].held => Managed(n)'
        /\ UNCHANGED <<rules, route, call>>
    BY <1>1, AdoptsMarks
  <1>3. UNCHANGED <<controller, requests>>
    BY DEF vars
  <1>4. \A q \in Requests : ~At(q, "find") => ~At(q, "find")'
    BY <1>2 DEF At
  <1>5. HostTypeOK' /\ ProviderTypeOK'
    BY <1>2 DEF Ownership, AgentTypeOK, HostTypeOK, ProviderTypeOK
  <1>6. MarkersStay
    BY <1>1, <1>2, NoneIsNoLink DEF MarkersStay, Managed, Present, Ids
  <1>7. ASSUME NEW q \in Requests, adoptions'[q].held
        PROVE  /\ requests'[q].pc = "adopt" /\ ~At(q, "find")'
               /\ Managed(requests[q].row.name)'
    <2>1. CASE q = r
      BY <1>1, <1>2, <1>3, <1>7, <2>1 DEF Managed, Present
    <2>2. CASE q # r
      <3>1. /\ adoptions[q].held /\ requests[q].pc = "adopt"
            /\ ~At(q, "find") /\ Managed(requests[q].row.name)
        BY <1>2, <1>7, <2>2 DEF Ownership, AdoptionsOK, AdoptionHolds
      <3>2. PICK name \in Names : name = requests[q].row.name
        BY <3>1, RowTypes
        DEF Ownership, AgentTypeOK, TypeOK, ApiTypeOK, InFlight
      <3>3. Present(name)'
        BY <1>2, <3>1, <3>2 DEF Managed, Present
      <3>4. Managed(name)'
        BY <1>6, <3>1, <3>2, <3>3 DEF MarkersStay
      <3> QED BY <1>3, <1>4, <3>1, <3>2, <3>4 DEF Managed, Present
    <2> QED BY <2>1, <2>2
  <1>8. AdoptionsOK'
    BY <1>2, <1>7 DEF AdoptionsOK, AdoptionHolds, Managed, Present
  <1>9. ASSUME NEW id \in Ids, NEW name \in Names
        PROVE  /\ Present(name) => Present(name)'
               /\ Mine(id, name) => Mine(id, name)'
               /\ Gone(id, name) => Gone(id, name)'
    <2>1. CASE links'[name] = links[name]
      BY <1>4, <2>1 DEF Present, Mine, Owned, Imported, Gone, Ids
    <2>2. CASE /\ name = n /\ Present(n) /\ Present(n)'
               /\ links'[n].alias = r /\ links'[n].maker = links[n].maker
               /\ ~At(r, "find")'
      BY <2>2 DEF Present, Mine, Imported, Gone
    <2> QED BY <1>2, <2>1, <2>2
  <1>10. AtProvider \/ controller.pc = "drop" =>
             controller.tunnel \in Ids /\ controller.row.name \in Names
    BY RowTypes
    DEF Ownership, AgentTypeOK, TypeOK, ControllerTypeOK, AtProvider,
        ProviderPoints, Busy, Points, StorePoints
  <1>11. /\ AtProvider' = AtProvider /\ RowDirects' = RowDirects
         /\ AtProvider => Holds(controller.tunnel, controller.row)'
    BY <1>2, <1>3, <1>9, <1>10
    DEF Ownership, AtProvider, RowDirects, Holds, Mine, Owned, Imported,
        Present
  <1>12. RemovalDone'
    BY <1>2, <1>3, <1>9, <1>10
    DEF Ownership, RemovalDone, Removed, AtProvider, ProviderPoints, Gone,
        Present, At
  <1> QED BY <1>2, <1>3, <1>5, <1>8, <1>11, <1>12
      DEF Ownership, AgentTypeOK, AdoptionsOK

-----------------------------------------------------------------------------
(* Every step but a call of Adopt that goes on. *)
LEMMA FramedKept ==
    ASSUME Ownership, TypeOK', [Next]_vars, AdoptionFrame,
           \/ Enter \/ Provide \/ Receive \/ Proceed
           \/ /\ ControllerStoreError \/ UNCHANGED controller
              /\ UNCHANGED <<hostVars, call>>
           \/ /\ AtProvider /\ UNCHANGED vars
              /\ CallFails(controller.row) \/ RuleStays(controller.row)
           \/ AgentCrash \/ Intervene
    PROVE  Ownership'
  <1>1. FindsKept
    BY FrameFinds DEF Ownership, AdoptionsOK
  <1>2. MarkersStay
    <2>1. CASE Provide
      BY <1>1, <2>1, ProvideMarks
    <2>2. CASE AgentCrash
      BY <2>2, StillMarked
      DEF AgentCrash, Reboot, hostVars, MarkersStay, Managed, Present
    <2>3. CASE Intervene
      BY <2>3, OthersMark DEF Intervene, InHand, Ownership, AgentTypeOK
    <2>4. CASE UNCHANGED links
      BY <2>4, StillMarked
    <2> QED BY <2>1, <2>2, <2>3, <2>4
        DEF Enter, Receive, Proceed, CallFails, RuleStays, hostVars
  <1>3. AdoptionsOK'
    BY <1>2, FrameKeeps DEF Ownership, AgentTypeOK
  <1>4. CASE Enter \/ Provide \/ Receive
    BY <1>1, <1>3, <1>4, EnterKept, ProvideKept, ReceiveKept
  <1>5. CASE Proceed
    BY <1>3, <1>5, ProceedKept DEF Proceed
  <1>6. CASE ControllerStoreError /\ UNCHANGED <<hostVars, call>>
    <2>1. ~AtProvider
      BY <1>6 DEF ControllerStoreError, AtProvider, StorePoints,
                  ProviderPoints
    <2> QED BY <1>3, <1>6, <2>1, ProceedKept
  <1>7. CASE UNCHANGED <<controller, hostVars, call>>
    BY <1>1, <1>3, <1>7, StillKept
  <1>8. CASE /\ AtProvider /\ UNCHANGED vars
             /\ CallFails(controller.row) \/ RuleStays(controller.row)
    BY <1>1, <1>3, <1>8, CommandFailsKept
  <1>9. CASE AgentCrash \/ Intervene
    BY <1>1, <1>3, <1>9, CrashKept, InterveneKept
  <1> QED BY <1>4, <1>5, <1>6, <1>7, <1>8, <1>9

LEMMA OwnershipKept ==
    ASSUME Ownership, TypeOK', [AgentNext]_agentVars
    PROVE  Ownership'
  <1>1. [Next]_vars
    BY CalmImplemented, MishapImplemented DEF AgentNext, agentVars
  <1>2. CASE AgentProgress
    BY <1>1, <1>2, FramedKept DEF AgentProgress
  <1>3. ASSUME NEW r \in Requests, AgentApi(r)
        PROVE  Ownership'
    <2>1. CASE AgentServe(r)
      BY <1>1, <2>1, FramedKept DEF AgentServe, ApiFrame
    <2>2. ASSUME NEW pc, EndAdoption(r, pc)
          PROVE  Ownership'
      BY <1>1, <2>2, FramedKept DEF EndAdoption, ApiFrame
    <2>3. CASE Import(r)
      BY <2>2, <2>3, AdoptsKept DEF Import
    <2> QED BY <1>3, <2>1, <2>3 DEF AgentApi
  <1>4. CASE StatementFails
    BY <1>1, <1>4, FramedKept DEF StatementFails, ApiFrame
  <1>5. CASE CommandFails
    <2>1. ASSUME NEW r \in Requests, EndAdoption(r, "withdraw")
          PROVE  Ownership'
      BY <1>1, <2>1, FramedKept DEF EndAdoption, ApiFrame
    <2> QED BY <1>1, <1>5, <2>1, FramedKept DEF CommandFails
  <1>6. CASE AgentCrash \/ Intervene
    BY <1>1, <1>6, FramedKept DEF AgentCrash, Intervene
  <1>7. CASE UNCHANGED agentVars
    <2>1. FindsKept /\ AdoptionsOK'
      BY <1>7 DEF agentVars, vars, hostVars, FindsKept, At, Ownership,
                  AdoptionsOK, AdoptionHolds, Managed, Present
    <2> QED BY <1>7, <2>1, StillKept DEF agentVars, vars
  <1> QED BY <1>2, <1>3, <1>4, <1>5, <1>6, <1>7
      DEF AgentNext, AgentCalm, AgentMishap

THEOREM OwnershipCorrect == AgentSpec => []Ownership
  <1>1. AgentInit => (TypeOK => Ownership)
    <2> SUFFICES ASSUME AgentInit, TypeOK PROVE Ownership
      OBVIOUS
    <2>1. HostTypeOK /\ ProviderTypeOK
      <3>1. FormerLink \subseteq Link
        BY DEF FormerLink, Link, Owners
      <3> QED BY <3>1 DEF AgentInit, HostInit, HostTypeOK, ProviderInit,
                          ProviderTypeOK, NoCall
    <2>2. call.pc = "idle" /\ controller.pc = "boot"
      BY DEF AgentInit, Init, ControllerInit, Started, ProviderInit, NoCall
    <2>3. AdoptionsOK
      BY DEF AgentInit, AdoptionInit, AdoptionsOK, Adoption, AdoptionHolds
    <2> QED BY <2>1, <2>2, <2>3
        DEF Ownership, AgentTypeOK, AdoptionsOK, AtProvider, ProviderPoints,
            RowDirects, RemovalDone, Removed, ReconcilePoints, RulePoints,
            RemovePoints
  <1>2. TypeOK' /\ Ownership /\ [AgentNext]_agentVars => Ownership'
    BY OwnershipKept
  <1>3. AgentSpec => []TypeOK
    BY AgentSafe, PTL
  <1> QED BY <1>1, <1>2, <1>3, PTL DEF AgentSpec

(* Every variable of the agent keeps its type, and the call under way is one
   of the method the controller has called. *)
THEOREM AgentTypeCorrect == AgentSpec => []AgentTypeOK
  BY OwnershipCorrect, PTL DEF Ownership

(* A record is dropped with no link of its name that has its marker, but for
   one of others that the tunnel's import has marked. *)
THEOREM RemovalCorrect == AgentSpec => []RemovalIsReal
  <1>1. Ownership => RemovalIsReal
    BY DEF Ownership, RemovalDone, Removed, RemovalIsReal, Gone, Owned
  <1> QED BY <1>1, OwnershipCorrect, PTL

(* An import marks no link without a marker, whoever replaces links between
   its calls, unless it has to go by name. *)
THEOREM ImportCorrect == AgentSpec => ImportsManagedOnly
  <1>1. ASSUME Ownership, NEW r \in Requests, Import(r)
        PROVE  \A name \in Names :
                   links'[name] # links[name]
                       => Managed(name) \/ At(r, "alias_ip")
    <2>1. requests[r].row.name \in Names
      BY <1>1, RowTypes
      DEF Import, Ownership, AgentTypeOK, TypeOK, ApiTypeOK, InFlight
    <2>2. CASE Adopts(r, requests[r].row.name)
      BY <1>1, <2>1, <2>2, AdoptsMarks DEF Import
    <2>3. CASE UNCHANGED links
      BY <2>3
    <2> QED BY <1>1, <2>2, <2>3 DEF Import, EndAdoption, hostVars
  <1>2. Ownership /\ [AgentNext]_agentVars =>
            [\A r \in Requests :
                 Import(r) =>
                     \A name \in Names :
                         links'[name] # links[name]
                             => Managed(name) \/ At(r, "alias_ip")]_agentVars
    BY <1>1
  <1> QED BY <1>2, OwnershipCorrect, PTL DEF AgentSpec, ImportsManagedOnly

(* The only step of an import that finds its link changes none. *)
LEMMA FindsKeptOrStill ==
    ASSUME Ownership, [AgentNext]_agentVars
    PROVE  FindsKept \/ UNCHANGED links
  <1>1. CASE AdoptionFrame
    BY <1>1, FrameFinds DEF Ownership, AdoptionsOK
  <1>2. ASSUME NEW r \in Requests, NEW name, Adopts(r, name)
        PROVE  FindsKept \/ UNCHANGED links
    <2>1. ASSUME NEW pc \in {"verify", "verify_ip"}, NEW held,
                 AdoptionStep(r, pc, held), ~At(r, "find")
          PROVE  FindsKept
      BY <2>1 DEF AdoptionStep, FindsKept, At, Ownership, AdoptionsOK
    <2>2. CASE MarkManaged(r, name) \/ MarkByName(r, name)
      BY <2>1, <2>2 DEF MarkManaged, MarkByName, At
    <2> QED BY <1>2, <2>2 DEF Adopts, FindManaged, VerifyMarked
  <1>3. CASE UNCHANGED agentVars
    BY <1>3 DEF agentVars, hostVars
  <1> QED BY <1>1, <1>2, <1>3
      DEF AgentNext, AgentCalm, AgentProgress, AgentApi, AgentServe, Import,
          EndAdoption, AgentMishap, StatementFails, CommandFails, AgentCrash,
          Intervene

(* The provider changes no link but the tunnel's own, one it has just made
   or one an import has taken, whoever replaces links between its calls. *)
THEOREM TouchCorrect == AgentSpec => TouchesOwnedOnly
  <1>1. ASSUME Ownership, Provide, FindsKept \/ UNCHANGED links
        PROVE  \A name \in Names :
                   Present(name) /\ links'[name] # links[name] =>
                       /\ name = controller.row.name
                       /\ \/ Owned(controller.tunnel, name)
                          \/ MarksOnly(name)
                          \/ Imported(name)
    <2>1. PICK id \in Ids, row \in Row :
              id = controller.tunnel /\ row = controller.row
      BY <1>1, InHandTypes DEF Provide, Ownership, AgentTypeOK
    <2>2. Work(id, row) /\ Holds(id, row)
      BY <1>1, <2>1 DEF Provide, Ownership
    <2>3. Touches(id, row)
      BY <1>1, <2>2, WorkKeeps DEF Keeps, Touches, Ownership, AgentTypeOK
    <2> QED BY <2>1, <2>3 DEF Touches, Mine, MarksOnly
  <1>2. Ownership /\ [AgentNext]_agentVars =>
            [Provide =>
                 \A name \in Names :
                     Present(name) /\ links'[name] # links[name] =>
                         /\ name = controller.row.name
                         /\ \/ Owned(controller.tunnel, name)
                            \/ MarksOnly(name)
                            \/ Imported(name)]_agentVars
    BY <1>1, FindsKeptOrStill
  <1> QED BY <1>2, OwnershipCorrect, PTL DEF AgentSpec, TouchesOwnedOnly
=============================================================================
