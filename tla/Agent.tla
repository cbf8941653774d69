------------------------------- MODULE Agent -------------------------------
(***************************************************************************)
(* The whole agent on its host: ControlPlane with the GRE provider of      *)
(* provider_linux.go in the place of an arbitrary one, on the links, rules *)
(* and routes of Host; imports adopt links while the controller works.     *)
(***************************************************************************)
EXTENDS ControlPlane, Adoption

agentVars == <<vars, hostVars, call, adoptions>>

AgentInit == Init /\ HostInit /\ ProviderInit /\ AdoptionInit

(* Whatever happens, an import loses its hold of a link that goes, and of any
   once it is over. *)
AdoptionFrame ==
    adoptions' = [r \in Requests |->
        IF At(r, "find") THEN adoptions[r]
        ELSE IF requests'[r].pc # "adopt" THEN [pc |-> "over", held |-> FALSE]
        ELSE [adoptions[r] EXCEPT
                 !.held = @ /\ links'[requests[r].row.name] # None]]

AtProvider == controller.pc \in ProviderPoints

-----------------------------------------------------------------------------
(* The controller calls Reconcile, Observe or Remove. *)
Enter ==
    /\ AtProvider
    /\ call.pc = "idle"
    /\ Call(CASE controller.pc = "reconcile" -> "find"
              [] controller.pc = "observe" -> "observe"
              [] controller.pc = "remove" -> "route")
    /\ UNCHANGED <<vars, hostVars>>

Provide ==
    /\ AtProvider
    /\ Work(controller.tunnel, controller.row)
    /\ UNCHANGED vars

(* The controller goes on with what the call has returned. *)
Accept ==
    \/ call.result = "ok" /\ (ReconcileSucceeds \/ RemoveSucceeds)
    \/ call.result \in Healthy /\ ObserveHealthy(call.result)
    \/ call.result \in {"missing", "error"} /\ ObserveUnhealthy(call.result)
    \/ call.result = "failed" /\ ProviderFails

Receive ==
    /\ call.pc = "answered"
    /\ Accept
    /\ ControllerFrame
    /\ call' = NoCall
    /\ UNCHANGED hostVars

(* Between the calls of the provider: the statements of the store. *)
Proceed ==
    /\ ~AtProvider
    /\ Progress
    /\ ControllerFrame
    /\ UNCHANGED <<hostVars, call>>

AgentProgress == (Enter \/ Provide \/ Receive \/ Proceed) /\ AdoptionFrame

(* createTunnel refuses the name of any interface there is. *)
NameIsFree(r) == ~Present(requests'[r].row.name)

(* importInterface takes what Discover lists: a GRE link with a marker and an
   address, as it is, and without masquerade. *)
Importable(r) ==
    LET row == requests'[r].row
        link == links[row.name]
    IN  /\ Managed(row.name)
        /\ row.config.endpoints = link.endpoints
        /\ row.config.ttl = link.ttl /\ row.config.mtu = link.mtu
        /\ row.config.address \in link.addresses
        /\ ~row.config.masquerade

(* What the handlers ask of the host before their INSERT. *)
HostAllows(r) ==
    requests[r].pc = "idle" /\ requests'[r].pc = "insert"
        => IF requests'[r].action = "create" THEN NameIsFree(r)
                                             ELSE Importable(r)

AgentServe(r) ==
    /\ Serve(r) /\ requests[r].pc # "adopt"
    /\ HostAllows(r)
    /\ ApiFrame
    /\ UNCHANGED <<hostVars, call>>
    /\ AdoptionFrame

(* The import goes on with what Adopt has returned. *)
EndAdoption(r, pc) ==
    /\ Adopt(r) /\ requests'[r].pc = pc
    /\ ApiFrame
    /\ UNCHANGED <<hostVars, call>>
    /\ AdoptionFrame

Import(r) ==
    /\ requests[r].pc = "adopt"
    /\ LET name == requests[r].row.name
       IN  \/ Adopts(r, name) /\ UNCHANGED vars
           \/ Adopted(r, name) /\ EndAdoption(r, "audit")
           \/ Refused(r, name) /\ EndAdoption(r, "withdraw")

AgentApi(r) == AgentServe(r) \/ Import(r)

AgentCalm == AgentProgress \/ \E r \in Requests : AgentApi(r)

-----------------------------------------------------------------------------
StatementFails ==
    /\ \/ (\E r \in Requests : RequestStoreError(r)) /\ ApiFrame
       \/ ControllerStoreError /\ ControllerFrame
    /\ UNCHANGED <<hostVars, call>>
    /\ AdoptionFrame

CommandFails ==
    \/ /\ AtProvider
       /\ CallFails(controller.row) \/ RuleStays(controller.row)
       /\ UNCHANGED vars
       /\ AdoptionFrame
    \/ \E r \in Requests : EndAdoption(r, "withdraw")

(* The process ends, or the machine with it. *)
AgentCrash ==
    /\ Crash
    /\ Reboot \/ UNCHANGED hostVars
    /\ call' = NoCall
    /\ AdoptionFrame

(* Does the controller work on a tunnel of that name? *)
InHand(name) == controller.pc \in Busy /\ controller.row.name = name

(* Others, and the interface API, which asks neither store nor controller. *)
Intervene ==
    /\ \/ \E name \in Names : RemoveDiscovered(name, InHand(name))
       \/ /\ Reroute \/ \E name \in Names : AddForeign(name) \/ Drift(name)
          /\ UNCHANGED call
    /\ UNCHANGED vars
    /\ AdoptionFrame

AgentMishap == StatementFails \/ CommandFails \/ AgentCrash \/ Intervene

AgentNext == AgentCalm \/ AgentMishap

AgentSpec == AgentInit /\ [][AgentNext]_agentVars

(* The fairness of ControlPlane: the calls of netlink and iptables return. *)
AgentFairness ==
    /\ WF_agentVars(AgentProgress)
    /\ \A id \in Ids : SF_agentVars(Begin(id) /\ Proceed /\ AdoptionFrame)
    /\ \A r \in Requests :
           WF_agentVars((Handle(r) /\ AgentServe(r)) \/ Import(r))

AgentFairSpec == AgentSpec /\ AgentFairness

MishapsStop == <>[][AgentCalm]_agentVars

-----------------------------------------------------------------------------
(* Types, and the method whose call is under way. *)
AgentTypeOK ==
    /\ TypeOK
    /\ HostTypeOK
    /\ ProviderTypeOK
    /\ adoptions \in [Requests -> Adoption]
    /\ call.pc # "idle" => AtProvider
    /\ call.pc \in ReconcilePoints => controller.pc = "reconcile"
    /\ call.pc \in RulePoints => controller.pc \in {"reconcile", "remove"}
    /\ call.pc \in RemovePoints => controller.pc = "remove"

(* Nothing of the link of that name changes but that it gets the marker. *)
MarksOnly(name) ==
    links'[name] = [links[name] EXCEPT !.alias = controller.tunnel]

(* The provider changes or deletes no link but one with the name and the
   marker of the tunnel it is called for; others may take the link away or
   put one in its place between any two of its calls (architecture.md: it
   never adopts, alters or deletes an unmarked interface).  There are two
   exceptions.  Between LinkAdd and the lookup after it another link may get
   the name, and is then marked for the new one.  And an import may give the
   link to another tunnel while the provider has it in hand for one that is
   renamed or withdrawn. *)
TouchesOwnedOnly ==
    [][Provide =>
           \A name \in Names :
               Present(name) /\ links'[name] # links[name] =>
                   /\ name = controller.row.name
                   /\ \/ Owned(controller.tunnel, name)
                      \/ MarksOnly(name)
                      \/ Imported(name)]_agentVars

(* When the controller is about to drop a record after Remove, no link of
   that name carries the tunnel's marker (README.md: the controller removes
   the owned interface, and only after that succeeds the deletion does),
   unless the tunnel's import has meanwhile put it on a link of somebody
   else. *)
RemovalIsReal ==
    controller.pc = "drop" /\ Owned(controller.tunnel, controller.row.name) =>
        /\ links[controller.row.name].maker = None
        /\ ~At(controller.tunnel, "find")

(* An import marks no link but one that has a marker already, whoever has
   replaced the link since Discover or since Adopt has looked it up
   (README.md: unmarked interfaces are never adopted automatically).  Only
   the fallback to iproute2, which goes by name, may mark another. *)
ImportsManagedOnly ==
    [][\A r \in Requests :
           Import(r) =>
               \A name \in Names :
                   links'[name] # links[name]
                       => Managed(name) \/ At(r, "alias_ip")]_agentVars

-----------------------------------------------------------------------------
(* The link is what the record asks for, addresses apart. *)
Fits(id, row) ==
    LET link == links[row.name]
    IN  /\ Owned(id, row.name)
        /\ link.endpoints = row.config.endpoints
        /\ link.ttl = row.config.ttl
        /\ link.mtu = row.config.mtu
        /\ link.up = (row.desired = "enabled")

(* Every pass drops the address and assigns it again. *)
Readdressed(id) == controller.tunnel = id /\ call.pc = "assign"

Addressed(id, row) ==
    \/ links[row.name].addresses = {row.config.address}
    \/ links[row.name].addresses = {} /\ Readdressed(id)

Matches(id) == Fits(id, tunnels[id]) /\ Addressed(id, tunnels[id])

RulesFor(id, row) ==
    {[table |-> "mangle", tunnel |-> id, on |-> row.name],
     [table |-> "nat", tunnel |-> id, on |-> route]}

Translated(id) ==
    Wanted(tunnels[id]) => RulesFor(id, tunnels[id]) \subseteq rules

(* The host has what a row asks for: nothing is missing but, it may be, the
   address, and nothing that is there is too much. *)
InPlace(id, row) ==
    /\ row.desired # "deleted"
    /\ Present(row.name) \/ row.desired = "enabled" =>
           /\ Fits(id, row)
           /\ links[row.name].addresses \subseteq {row.config.address}
    /\ IF Wanted(row) THEN RulesFor(id, row) \subseteq rules
                      ELSE RulesFor(id, row) \cap rules = {}

(* A copy of a row says of tunnel id what the table says, and none of another
   tunnel has its name. *)
Agrees(id, other, copy) ==
    IF other = id THEN Intent(copy) = Intent(tunnels[id])
                  ELSE copy.name # tunnels[id].name

(* Tunnel id is in its place, and the pass under way knows what it asks for
   and has not decided to replace the link it had before. *)
InOrder(id) ==
    /\ Exists(id) /\ InPlace(id, tunnels[id])
    /\ \A other \in Ids :
           controller.pending[other] # None
               => Agrees(id, other, controller.pending[other])
    /\ controller.pc \in Busy =>
           /\ Agrees(id, controller.tunnel, controller.row)
           /\ controller.tunnel = id => call.pc \notin {"replace", "add"}

ByController ==
    \/ AgentProgress \/ StatementFails \/ CommandFails
    \/ AgentCrash /\ UNCHANGED hostVars

SameButAddresses(name) ==
    links'[name] = [links[name] EXCEPT !.addresses = links'[name].addresses]

(* What is in order the controller keeps in order, at every step of every
   pass over it or over others, also of those whose calls or statements fail
   and of a process that has been started anew: endpoints, TTL, MTU and state
   of the link stay as they are, and its rules are never incomplete
   (roadmap.md: it reconciles idempotently).  Only ensureAddress, in a pass
   over the tunnel itself, changes the link, and of the link no more than
   that the one address goes and comes. *)
KeepsInOrder ==
    [][\A id \in Ids :
           InOrder(id) /\ ByController =>
               /\ InOrder(id)'
               /\ LET name == tunnels[id].name
                  IN  \/ links'[name] = links[name]
                      \/ Readdressed(id) /\ SameButAddresses(name)]_agentVars

(* The links that keep tunnel id from its place on the host: the holders of
   its name and of its endpoints. *)
InTheWay(id) ==
    {name \in Names :
        /\ Present(name)
        /\ \/ name = tunnels[id].name
           \/ links[name].endpoints = tunnels[id].config.endpoints}

Unobstructed(id) ==
    /\ Exists(id)
    /\ route # None
    /\ \A name \in InTheWay(id) :
           name = tunnels[id].name /\ Owned(id, name)

Settled(id) ==
    /\ Exists(id)
    /\ tunnels[id].desired # "deleted"
    /\ Present(tunnels[id].name) \/ tunnels[id].desired = "enabled"
           => Matches(id) /\ Translated(id)

(* Once nothing goes wrong any more, a tunnel with room on the host has the
   link and the rules its record asks for, whatever has happened to them
   before, and the address but for the moments in which a pass has dropped it
   to assign it again; one that is to be disabled has no link that is up; and
   one that is to be deleted is gone. *)
ConvergesUnobstructed ==
    MishapsStop =>
        \A id \in Ids :
            <>[]Unobstructed(id) => <>[]Settled(id)

(* Once nothing goes wrong any more, obstructed or not, a record that says
   up or down has a link with its marker in that state (roadmap.md: an API
   response never claims a tunnel is usable until the provider reports it). *)
ClaimsComeTrue ==
    MishapsStop =>
        <>[](\A id \in Ids :
                 Exists(id) /\ tunnels[id].actual \in Healthy =>
                     /\ Owned(id, tunnels[id].name)
                     /\ links[tunnels[id].name].up
                            = (tunnels[id].actual = "up"))

-----------------------------------------------------------------------------
(* What the documents say and the code does not do. *)

(* roadmap.md: it reconciles address, MTU, TTL and link state idempotently.
   So the controller does not change a link that is in order. *)
Idempotent ==
    [][\A id \in Ids :
           InOrder(id) /\ ByController
               => links'[tunnels[id].name] = links[tunnels[id].name]]_agentVars

(* README.md: the controller removes the owned interface, and marks the
   deletion successful only after that.  So no tunnel that is gone has left
   a link with its marker. *)
DeletionLeavesNothing ==
    \A name \in Names :
        Present(name) /\ links[name].alias \in Ids => Exists(links[name].alias)

(* architecture.md: the controller owns convergence, for an enabled tunnel it
   restores the link.  So a tunnel that stays enabled gets its link, when no
   link but those the provider has made for it stands in the way. *)
OnlySelfInTheWay(id) ==
    /\ Exists(id)
    /\ tunnels[id].desired = "enabled"
    /\ route # None
    /\ \A name \in InTheWay(id) : links[name].maker = id

EnabledConverges ==
    MishapsStop =>
        \A id \in Ids :
            <>[]OnlySelfInTheWay(id) => <>[](Exists(id) /\ Matches(id))
=============================================================================
