-------------------------------- MODULE Host --------------------------------
(***************************************************************************)
(* The Linux host as the GRE provider sees it: the kernel's links, the     *)
(* iptables rules MikroTunnel adds and the default route; and what others  *)
(* do to them.  None of it is code of this repository: the operators say   *)
(* what the calls of provider_linux.go rely on.                            *)
(***************************************************************************)
EXTENDS Domain

CONSTANTS
    Endpoints,  \* pairs of a local and a remote address
    TTLs, MTUs, Addresses,
    Egresses,   \* interfaces a default route can leave by
    Former,     \* the marker of a tunnel of an earlier installation
    Leftovers   \* names under which that one may have left links

VARIABLES
    links,      \* the links, by interface name
    rules,      \* iptables rules with a tunnel's comment
    route       \* the interface of the IPv4 default route

hostVars == <<links, rules, route>>

ASSUME ConfigsAssumption ==
    Configs \subseteq [endpoints: Endpoints, ttl: TTLs, mtu: MTUs,
                       address: Addresses, masquerade: BOOLEAN]

ASSUME NoneOnHostAssumption == None \notin Endpoints \cup Egresses

ASSUME FormerAssumption == Former \notin Ids \cup {None} /\ Leftovers \subseteq Names

(* endpoints is None for a link that is not a GRE tunnel, alias for one that
   has no marker of MikroTunnel.  maker is history: the tunnel whose
   provider call has added the link. *)
Owners == Ids \cup {Former, None}

Link == [endpoints: Endpoints \cup {None}, ttl: TTLs, mtu: MTUs,
         addresses: SUBSET Addresses, up: BOOLEAN,
         alias: Owners, maker: Owners]

(* Uninstalling with --purge deletes the database and leaves the links. *)
FormerLink == [endpoints: Endpoints, ttl: TTLs, mtu: MTUs,
               addresses: SUBSET Addresses, up: BOOLEAN,
               alias: {Former}, maker: {Former}]

ASSUME NoneIsNoLinkAssumption == None \notin Link

(* The mark in PREROUTING is set by the ingress interface, the masquerade in
   POSTROUTING applies to the mark on one egress. *)
Rule == [table: {"mangle"}, tunnel: Ids, on: Names]
            \cup [table: {"nat"}, tunnel: Ids, on: Egresses]

-----------------------------------------------------------------------------
Present(name) == links[name] # None

(* LinkByName finds a link that carries the marker of tunnel id. *)
Owned(id, name) == Present(name) /\ links[name].alias = id

(* LinkAdd answers EEXIST for a name in use and for endpoints in use. *)
Conflict(name, endpoints) ==
    \/ Present(name)
    \/ \E other \in Names :
           Present(other) /\ links[other].endpoints = endpoints

SetLink(name, link) == links' = [links EXCEPT ![name] = link]

-----------------------------------------------------------------------------
(* Others on the host: administrators and programs without the marker, who
   do not forge it. *)
AddForeign(name) ==
    /\ ~Present(name)
    /\ \E endpoints \in Endpoints \cup {None}, ttl \in TTLs, mtu \in MTUs :
           /\ endpoints # None => ~Conflict(name, endpoints)
           /\ SetLink(name, [endpoints |-> endpoints, ttl |-> ttl, mtu |-> mtu,
                             addresses |-> {}, up |-> TRUE,
                             alias |-> None, maker |-> None])
    /\ UNCHANGED <<rules, route>>

Drift(name) ==
    /\ Present(name)
    /\ \E ttl \in TTLs, mtu \in MTUs, addresses \in SUBSET Addresses,
          up \in BOOLEAN :
           SetLink(name, [links[name] EXCEPT !.ttl = ttl, !.mtu = mtu,
                              !.addresses = addresses, !.up = up])
    /\ UNCHANGED <<rules, route>>

Reroute ==
    /\ route' \in Egresses \cup {None}
    /\ UNCHANGED <<links, rules>>

(* Nothing in the kernel survives a reboot. *)
Reboot ==
    /\ links' = [name \in Names |-> None]
    /\ rules' = {}
    /\ UNCHANGED route

HostInit ==
    /\ links \in [Names -> {None} \cup FormerLink]
    /\ \A name \in Names : Present(name) => name \in Leftovers
    /\ \A name, other \in Names :
           Present(name) /\ Present(other) /\ name # other
               => links[name].endpoints # links[other].endpoints
    /\ rules = {}
    /\ route \in Egresses

HostTypeOK ==
    /\ links \in [Names -> Link \cup {None}]
    /\ rules \subseteq Rule
    /\ route \in Egresses \cup {None}
=============================================================================
