------------------------------ MODULE Adoption ------------------------------
(***************************************************************************)
(* gre.Adopt of provider_linux.go, which importInterface calls between its *)
(* INSERT and the operation record: one action per netlink call or         *)
(* command, in the goroutine of the request, beside the controller's.      *)
(*                                                                         *)
(* Like the provider it holds the link it has looked up by index.          *)
(***************************************************************************)
EXTENDS GREProvider

VARIABLE adoptions  \* by request: the call of Adopt; "over" when it has ended
                    \* after it has found the link

Adoption == [pc: {"find", "alias", "verify", "alias_ip", "verify_ip", "over"},
             held: BOOLEAN]

AdoptionInit ==
    adoptions = [r \in Requests |-> [pc |-> "find", held |-> FALSE]]

At(r, pc) == adoptions[r].pc = pc

AdoptionStep(r, pc, held) ==
    /\ adoptions' = [adoptions EXCEPT ![r] = [pc |-> pc, held |-> held]]
    /\ UNCHANGED <<rules, route, call>>

(* Some marker of MikroTunnel is on the link, whoever's. *)
Managed(name) == Present(name) /\ links[name].alias # None

(* Is the link of that name an import's by now?  It may be while the
   provider still works on it for the tunnel that has had it before. *)
Imported(name) ==
    Present(name) /\ \E r \in Requests : links[name].alias = r /\ ~At(r, "find")

-----------------------------------------------------------------------------
FindManaged_Trusts(r, name) ==
    /\ At(r, "find")
    /\ Present(name) /\ links[name].endpoints # None
    /\ AdoptionStep(r, "alias", TRUE)
    /\ UNCHANGED links

(* The link Discover has listed may be another by now: only a GRE link with
   a marker is adopted. *)
FindManaged(r, name) ==
    /\ At(r, "find")
    /\ Managed(name) /\ links[name].endpoints # None
    /\ AdoptionStep(r, "alias", TRUE)
    /\ UNCHANGED links

(* markOwnership, as for a link the provider has made. *)
MarkManaged(r, name) ==
    /\ At(r, "alias") /\ adoptions[r].held
    /\ SetLink(name, [links[name] EXCEPT !.alias = r]) \/ UNCHANGED links
    /\ AdoptionStep(r, "verify", TRUE)

VerifyMarked(r, name) ==
    /\ At(r, "verify")
    /\ Present(name) /\ ~Owned(r, name)
    /\ AdoptionStep(r, "alias_ip", adoptions[r].held)
    /\ UNCHANGED links

MarkByName(r, name) ==
    /\ At(r, "alias_ip")
    /\ Present(name)
    /\ SetLink(name, [links[name] EXCEPT !.alias = r])
    /\ AdoptionStep(r, "verify_ip", adoptions[r].held)

-----------------------------------------------------------------------------
(* The calls after which Adopt goes on. *)
Adopts(r, name) ==
    \/ FindManaged(r, name) \/ MarkManaged(r, name)
    \/ VerifyMarked(r, name) \/ MarkByName(r, name)

(* Those that end it, without and with an error. *)
Adopted(r, name) == (At(r, "verify") \/ At(r, "verify_ip")) /\ Owned(r, name)

Refused(r, name) ==
    \/ At(r, "find") /\ ~(Managed(name) /\ links[name].endpoints # None)
    \/ At(r, "alias") /\ ~adoptions[r].held
    \/ (At(r, "verify") \/ At(r, "alias_ip")) /\ ~Present(name)
    \/ At(r, "verify_ip") /\ ~Owned(r, name)
=============================================================================
