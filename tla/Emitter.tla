------------------------------- MODULE Emitter -------------------------------
(***************************************************************************)
(* emitter._canonicalize: the emitter sorts an intent's lists before the   *)
(* templates iterate over them.  Of the lists the loader builds, the VLANs *)
(* are in the order Netbox lists the interfaces, which may be any; the     *)
(* others are in the order of their names already.                         *)
(*                                                                         *)
(* An intent's lists are sets in HostIntent.  Here they are sequences: a   *)
(* listing is an intent with its lists in one of their orders.             *)
(***************************************************************************)
EXTENDS HostIntent, SequencesExt

CONSTANT NameRank  \* the position of an interface name among all names, sorted

ASSUME NameRankAssumption ==
  /\ NameRank \in [Names -> Nat]
  /\ \A m, n \in Names : NameRank[m] = NameRank[n] => m = n

\* Python's sorted(s, key=Key): elements with equal keys keep their order.
sorted(s, Key(_)) ==
  LET Before(i, j) == Key(s[i]) < Key(s[j]) \/ (Key(s[i]) = Key(s[j]) /\ i <= j)
      Place(j)     == Cardinality({i \in DOMAIN s : Before(i, j)})
  IN  [k \in DOMAIN s |-> s[CHOOSE j \in DOMAIN s : Place(j) = k]]

\* The sorts of _canonicalize, by the keys its lambdas name.
by_name(s)    == sorted(s, LAMBDA x : NameRank[x.name])
by_vlan_id(s) == sorted(s, LAMBDA v : v.vlan_id)
by_text(s)    == sorted(s, LAMBDA n : NameRank[n])

\* What the loader may have built for the intent h: it looks the NICs up in the order
\* of NS_NIC_NAMES, which is that of their names, and sorts the underlays by name.
Listings(h) ==
  [ns_nics : {by_name(s) : s \in SetToSeqs(h.ns_nics)},
   vlans : SetToSeqs(h.vlans),
   roce_underlays : {by_name(s) : s \in SetToSeqs(h.roce_underlays)},
   ib_underlays : {by_name(s) : s \in SetToSeqs(h.ib_underlays)},
   members : {by_text(s) : s \in SetToSeqs(h.bond.members)}]

\* Faulty variant: the VLANs are left as they come, like the lists that the loader
\* has sorted.
canonicalize_VlansAsListed(l) ==
  [ns_nics |-> by_name(l.ns_nics), vlans |-> l.vlans,
   roce_underlays |-> by_name(l.roce_underlays), ib_underlays |-> by_name(l.ib_underlays),
   members |-> by_text(l.members)]
canonicalize(l) ==
  [ns_nics |-> by_name(l.ns_nics), vlans |-> by_vlan_id(l.vlans),
   roce_underlays |-> by_name(l.roce_underlays), ib_underlays |-> by_name(l.ib_underlays),
   members |-> by_text(l.members)]

\* The lists a role's template iterates over.
Iterated(role, kind) ==
  IF kind = "meta-data" THEN {}
  ELSE {"ns_nics", "members", "vlans"}
         \cup (IF role \in {"gpu-b300", "gpu-b200"} THEN {"roce_underlays"} ELSE {})
         \cup (IF role = "gpu-h200" THEN {"ib_underlays"} ELSE {})

\* The bytes: which template, and what it finds in the lists it iterates over.
render_for(role, kind, l) ==
  LET ctx == canonicalize(l) IN <<role, kind, [f \in Iterated(role, kind) |-> ctx[f]]>>

DistinctVlanIds(h) == \A v, w \in h.vlans : v.vlan_id = w.vlan_id => v = w

\* Every order of the lists renders to the same bytes.
OrderIndependent(h, kind) ==
  LET bytes == render_for(h.role, kind, CHOOSE l \in Listings(h) : TRUE)
  IN  \A l \in Listings(h) : render_for(h.role, kind, l) = bytes
=============================================================================
