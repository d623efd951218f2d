--------------------------- MODULE MCRenderService ---------------------------
(***************************************************************************)
(* A small instance of RenderService, for the runs about requests: one     *)
(* host with one NIC per fabric in place of eight and three VLANs, an edit *)
(* after which its load fails with an exception no handler knows, and one  *)
(* after which it renders to something else.                               *)
(***************************************************************************)
EXTENDS RenderService

Absent(i) == [i EXCEPT !.present = FALSE]
Nic       == [present |-> TRUE, mac |-> TRUE, mtu |-> None, vlan |-> None, vfs |-> None]
Child(vid, name, mtu) ==
  [present |-> TRUE, mac |-> FALSE, mtu |-> mtu, vlan |-> [vid |-> vid, name |-> name],
   vfs |-> None]

mcVlanNames == {"bond0.101", "bond0.102", "bond0.103"}
mcAddrs     == {10, 11, 266, 267}
mcSlugs     == Roles \cup {"router"}
mcVlanTitles == VlanRoles \cup {"backup"}

\* A complete host of this role, with its addresses.
Host(slug, fabric) ==
  [device |-> TRUE, slug |-> slug,
   ifaces |-> [n \in Names |->
     CASE n \in {"nsa", "nsb", "bond0"} \cup fabric -> Nic
       [] n = "bond0.101" -> Child(101, "mgmt", None)
       [] n = "bond0.102" -> Child(102, "storage", 9000)
       [] n = "bond0.103" -> Child(103, "ingress", 1500)
       [] OTHER -> Absent(Nic)],
   ips |-> [n \in Names |->
     CASE n = "bond0.101" -> {10}
       [] n = "bond0.102" -> {11}
       [] n = "bond0.103" -> {266}
       [] n \in fabric    -> IF n \in {"gpu1", "ib1"} THEN {268} ELSE {267}
       [] OTHER -> {}]]

mcOneHost == {Host("gpu-h200", {"ib0"})}
mcOneEdit == {<<"bond0", [Nic EXCEPT !.mtu = 9217]>>}
mcNewMtu  == {<<"bond0.101", Child(101, "mgmt", 9000)>>}
mcNone    == {}

mcBroken == {<<"gpu-h200", "meta-data">>}
=============================================================================
