---------------------------- MODULE GREProvider ----------------------------
(***************************************************************************)
(* internal/provider/gre/provider_linux.go, one action per netlink call or *)
(* command.  The calls of one provider method are made one after another   *)
(* by the controller's goroutine, everybody else on the host between them. *)
(*                                                                         *)
(* A netlink call on a link in hand goes by the link's index, and indexes  *)
(* are not used again: held says whether the link last looked up is still  *)
(* the one that has the name.                                              *)
(***************************************************************************)
EXTENDS Host

VARIABLE call   \* the method call under way

ReconcilePoints == {"find", "replace", "add", "conflict", "load", "alias",
                    "verify", "alias_ip", "verify_ip", "mtu", "list", "assign",
                    "up", "down"}
RulePoints == {"route", "mark_rule", "nat_rule"}
RemovePoints == {"lookup", "unlink"}
Working == ReconcilePoints \cup RulePoints \cup RemovePoints \cup {"observe"}

Results == {"ok", "failed", "up", "down", "missing", "error"}

NoCall == [pc |-> "idle", held |-> FALSE, drifted |-> {}, egress |-> None,
           result |-> "none"]

Call(pc) == call' = [NoCall EXCEPT !.pc = pc]

Step(pc) == call' = [call EXCEPT !.pc = pc]

(* Go on with the link just looked up. *)
Take(pc) == call' = [call EXCEPT !.pc = pc, !.held = TRUE]

Answer(result) == call' = [NoCall EXCEPT !.pc = "answered", !.result = result]

(* A change of the link in hand: an error once that link is gone. *)
Configure(name, link, pc) ==
    \/ call.held /\ SetLink(name, link) /\ Step(pc)
    \/ ~call.held /\ Answer("failed") /\ UNCHANGED links

RequiresRecreate_AlsoDown(link, config) ==
    \/ link.endpoints # config.endpoints \/ link.ttl # config.ttl
    \/ ~link.up

(* requiresRecreate *)
RequiresRecreate(link, config) ==
    link.endpoints # config.endpoints \/ link.ttl # config.ttl

-----------------------------------------------------------------------------
(* reconcilePlatform: look the link up, refuse a link of somebody else. *)
Find_AnyOwner(id, row) ==
    /\ call.pc = "find"
    /\ \/ ~Present(row.name) /\ row.desired = "disabled" /\ Answer("ok")
       \/ ~Present(row.name) /\ row.desired # "disabled" /\ Step("add")
       \/ /\ Present(row.name)
          /\ Take(IF RequiresRecreate(links[row.name], row.config)
                  THEN "replace" ELSE "mtu")
    /\ UNCHANGED hostVars

Find_TrustsExisting(id, row) ==
    /\ call.pc = "find"
    /\ \/ ~Present(row.name) /\ row.desired = "disabled" /\ Answer("ok")
       \/ ~Present(row.name) /\ row.desired # "disabled" /\ Step("add")
       \/ Present(row.name) /\ ~Owned(id, row.name) /\ Answer("failed")
       \/ /\ Owned(id, row.name)
          /\ IF RequiresRecreate(links[row.name], row.config)
             THEN Take("replace") ELSE Answer("ok")
    /\ UNCHANGED hostVars

Find(id, row) ==
    /\ call.pc = "find"
    /\ \/ ~Present(row.name) /\ row.desired = "disabled" /\ Answer("ok")
       \/ ~Present(row.name) /\ row.desired # "disabled" /\ Step("add")
       \/ Present(row.name) /\ ~Owned(id, row.name) /\ Answer("failed")
       \/ /\ Owned(id, row.name)
          /\ Take(IF RequiresRecreate(links[row.name], row.config)
                  THEN "replace" ELSE "mtu")
    /\ UNCHANGED hostVars

(* LinkDel of a link with other endpoints or another TTL. *)
Replace(row) ==
    /\ call.pc = "replace"
    /\ Configure(row.name, None, "add")
    /\ UNCHANGED <<rules, route>>

-----------------------------------------------------------------------------
(* create.  LinkAdd keeps the alias on some kernels only. *)
Add(id, row) ==
    /\ call.pc = "add"
    /\ \/ /\ Conflict(row.name, row.config.endpoints)
          /\ Step("conflict")
          /\ UNCHANGED links
       \/ /\ ~Conflict(row.name, row.config.endpoints)
          /\ \E alias \in {id, None} :
                 SetLink(row.name,
                     [endpoints |-> row.config.endpoints, ttl |-> row.config.ttl,
                      mtu |-> row.config.mtu, addresses |-> {}, up |-> FALSE,
                      alias |-> alias, maker |-> id])
          /\ Step("load")
    /\ UNCHANGED <<rules, route>>

(* After EEXIST: the name may have appeared meanwhile, and be owned. *)
Recover(id, row) ==
    /\ call.pc = "conflict"
    /\ \/ Owned(id, row.name) /\ Take("mtu")
       \/ ~Owned(id, row.name) /\ Answer("failed")
    /\ UNCHANGED hostVars

(* After LinkAdd: whatever link has the name now is taken for the new one. *)
Load(row) ==
    /\ call.pc = "load"
    /\ \/ Present(row.name) /\ Take("alias")
       \/ ~Present(row.name) /\ Answer("failed")
    /\ UNCHANGED hostVars

(* markOwnership: some kernels acknowledge the alias and do not keep it. *)
Alias(id, row) ==
    /\ call.pc = "alias"
    /\ \/ Configure(row.name, [links[row.name] EXCEPT !.alias = id], "verify")
       \/ call.held /\ Step("verify") /\ UNCHANGED links
    /\ UNCHANGED <<rules, route>>

Verify(id, row) ==
    /\ call.pc = "verify"
    /\ \/ Owned(id, row.name) /\ Step("mtu")
       \/ Present(row.name) /\ ~Owned(id, row.name) /\ Step("alias_ip")
       \/ ~Present(row.name) /\ Answer("failed")
    /\ UNCHANGED hostVars

(* The fallback, ip link set dev NAME alias, goes by name. *)
AliasByName(id, row) ==
    /\ call.pc = "alias_ip"
    /\ \/ /\ Present(row.name)
          /\ SetLink(row.name, [links[row.name] EXCEPT !.alias = id])
          /\ Step("verify_ip")
       \/ ~Present(row.name) /\ Answer("failed") /\ UNCHANGED links
    /\ UNCHANGED <<rules, route>>

VerifyByName(id, row) ==
    /\ call.pc = "verify_ip"
    /\ \/ Owned(id, row.name) /\ Step("mtu")
       \/ ~Owned(id, row.name) /\ Answer("failed")
    /\ UNCHANGED hostVars

-----------------------------------------------------------------------------
SetMTU(row) ==
    /\ call.pc = "mtu"
    /\ Configure(row.name, [links[row.name] EXCEPT !.mtu = row.config.mtu],
                 "list")
    /\ UNCHANGED <<rules, route>>

(* ensureAddress: AddrList of a link that is gone is empty.  Addresses are
   compared as texts.  The text of one that the kernel lists ends in its
   label, by default the link's name; the text of the one asked for has none.
   So they never agree, and the address asked for is dropped with the rest. *)
ListAddresses(row) ==
    /\ call.pc = "list"
    /\ call' = [call EXCEPT
           !.pc = "assign",
           !.drifted = IF call.held THEN links[row.name].addresses ELSE {}]
    /\ UNCHANGED hostVars

DropAddress(row) ==
    /\ call.pc = "assign"
    /\ \E address \in call.drifted :
           \/ /\ call.held /\ address \in links[row.name].addresses
              /\ SetLink(row.name,
                     [links[row.name] EXCEPT !.addresses = @ \ {address}])
              /\ call' = [call EXCEPT !.drifted = @ \ {address}]
           \/ /\ ~(call.held /\ address \in links[row.name].addresses)
              /\ Answer("failed")
              /\ UNCHANGED links
    /\ UNCHANGED <<rules, route>>

Assign(row) ==
    /\ call.pc = "assign"
    /\ call.drifted = {}
    /\ Configure(row.name,
           [links[row.name] EXCEPT !.addresses = @ \cup {row.config.address}],
           IF row.desired = "disabled" THEN "route" ELSE "up")
    /\ UNCHANGED <<rules, route>>

SetUp(row) ==
    /\ call.pc = "up"
    /\ Configure(row.name, [links[row.name] EXCEPT !.up = TRUE], "route")
    /\ UNCHANGED <<rules, route>>

SetDown(row) ==
    /\ call.pc = "down"
    /\ \/ /\ call.held
          /\ SetLink(row.name, [links[row.name] EXCEPT !.up = FALSE])
          /\ Answer("ok")
       \/ ~call.held /\ Answer("failed") /\ UNCHANGED links
    /\ UNCHANGED <<rules, route>>

-----------------------------------------------------------------------------
(* ensureMasquerade, the rules wanted or not: without a default route it is
   an error, also when there is nothing to remove. *)
Wanted(row) == row.desired = "enabled" /\ row.config.masquerade

FindEgress ==
    /\ call.pc = "route"
    /\ \/ /\ route # None
          /\ call' = [call EXCEPT !.pc = "mark_rule", !.egress = route]
       \/ route = None /\ Answer("failed")
    /\ UNCHANGED hostVars

SetRule(rule, wanted) ==
    rules' = IF wanted THEN rules \cup {rule} ELSE rules \ {rule}

MarkRule(id, row) ==
    /\ call.pc = "mark_rule"
    /\ SetRule([table |-> "mangle", tunnel |-> id, on |-> row.name], Wanted(row))
    /\ Step("nat_rule")
    /\ UNCHANGED <<links, route>>

AfterRules_LeavesUp(row) ==
    \/ row.desired # "deleted" /\ Answer("ok")
    \/ row.desired = "deleted" /\ Step("lookup")

AfterRules_RemovesDisabled(row) ==
    \/ row.desired = "enabled" /\ Answer("ok")
    \/ row.desired # "enabled" /\ Step("lookup")

(* What follows ensureMasquerade: nothing in Reconcile of an enabled tunnel,
   the link itself when it is to be down or to go. *)
AfterRules(row) ==
    \/ row.desired = "enabled" /\ Answer("ok")
    \/ row.desired = "disabled" /\ Step("down")
    \/ row.desired = "deleted" /\ Step("lookup")

NatRule(id, row) ==
    /\ call.pc = "nat_rule"
    /\ SetRule([table |-> "nat", tunnel |-> id, on |-> call.egress], Wanted(row))
    /\ AfterRules(row)
    /\ UNCHANGED <<links, route>>

(* removeRule does not look at what iptables answers. *)
RuleStays(row) ==
    /\ call.pc \in {"mark_rule", "nat_rule"}
    /\ ~Wanted(row)
    /\ IF call.pc = "mark_rule" THEN Step("nat_rule") ELSE AfterRules(row)
    /\ UNCHANGED hostVars

-----------------------------------------------------------------------------
Lookup_SparesActive(id, row) ==
    /\ call.pc = "lookup"
    /\ \/ /\ Present(row.name) => links[row.name].up
          /\ Answer("ok")
       \/ /\ Present(row.name) /\ ~links[row.name].up
          /\ IF Owned(id, row.name) THEN Take("unlink") ELSE Answer("failed")
    /\ UNCHANGED hostVars

(* removePlatform, after the rules. *)
Lookup(id, row) ==
    /\ call.pc = "lookup"
    /\ \/ ~Present(row.name) /\ Answer("ok")
       \/ Present(row.name) /\ ~Owned(id, row.name) /\ Answer("failed")
       \/ Owned(id, row.name) /\ Take("unlink")
    /\ UNCHANGED hostVars

Unlink(row) ==
    /\ call.pc = "unlink"
    /\ \/ call.held /\ SetLink(row.name, None) /\ Answer("ok")
       \/ ~call.held /\ Answer("failed") /\ UNCHANGED links
    /\ UNCHANGED <<rules, route>>

Observe_OwnedIsUp(id, row) ==
    /\ call.pc = "observe"
    /\ \/ ~Present(row.name) /\ Answer("missing")
       \/ Present(row.name) /\ ~Owned(id, row.name) /\ Answer("error")
       \/ Owned(id, row.name) /\ Answer("up")
    /\ UNCHANGED hostVars

(* observePlatform *)
Observe(id, row) ==
    /\ call.pc = "observe"
    /\ \/ ~Present(row.name) /\ Answer("missing")
       \/ Present(row.name) /\ ~Owned(id, row.name) /\ Answer("error")
       \/ Owned(id, row.name) /\ links[row.name].up /\ Answer("up")
       \/ Owned(id, row.name) /\ ~links[row.name].up /\ Answer("down")
    /\ UNCHANGED hostVars

-----------------------------------------------------------------------------
(* The next call of the method under way, made for row of tunnel id. *)
Work(id, row) ==
    \/ Find(id, row) \/ Replace(row)
    \/ Add(id, row) \/ Recover(id, row) \/ Load(row)
    \/ Alias(id, row) \/ Verify(id, row)
    \/ AliasByName(id, row) \/ VerifyByName(id, row)
    \/ SetMTU(row) \/ ListAddresses(row) \/ DropAddress(row) \/ Assign(row)
    \/ SetUp(row) \/ SetDown(row)
    \/ FindEgress \/ MarkRule(id, row) \/ NatRule(id, row)
    \/ Lookup(id, row) \/ Unlink(row) \/ Observe(id, row)

(* Any call can fail; the error ends the method. *)
CallFails(row) ==
    /\ call.pc \in Working
    /\ call.pc \in {"mark_rule", "nat_rule"} => Wanted(row)
    /\ Answer("failed")
    /\ UNCHANGED hostVars

(* RemoveDiscovered, for the interface API: any GRE link, by name.  The
   provider loses its hold of a link that goes. *)
RemoveDiscovered(name, inHand) ==
    /\ Present(name)
    /\ links[name].endpoints # None
    /\ SetLink(name, None)
    /\ call' = [call EXCEPT !.held = @ /\ ~inHand]
    /\ UNCHANGED <<rules, route>>

ProviderInit == call = NoCall

ProviderTypeOK ==
    /\ call \in [pc: Working \cup {"idle", "answered"}, held: BOOLEAN,
                 drifted: SUBSET Addresses, egress: Egresses \cup {None},
                 result: Results \cup {"none"}]
    /\ call.pc \in {"mark_rule", "nat_rule"} => call.egress # None
=============================================================================
