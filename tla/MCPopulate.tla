------------------------------ MODULE MCPopulate ------------------------------
(***************************************************************************)
(* A small instance of Populate: a B300 host with one gpu NIC in place of  *)
(* eight, two runs that die, and each kind of conflict populate looks for. *)
(***************************************************************************)
EXTENDS Populate

mcVlanNames == {"bond0.101", "bond0.102", "bond0.103"}
mcSlugs     == Roles
mcAddrs     == {10, 266, 522, 778}
mcVlanTitles == VlanRoles
mcNone      == {}

Nic == [present |-> TRUE, mac |-> TRUE, mtu |-> 9000, vlan |-> None, vfs |-> None]
Child(vid, name, mtu) ==
  [present |-> TRUE, mac |-> FALSE, mtu |-> mtu, vlan |-> [vid |-> vid, name |-> name],
   vfs |-> None]

mcFixture ==
  [device |-> TRUE, slug |-> "gpu-b300",
   ifaces |-> [n \in Names |->
     CASE n \in {"nsa", "nsb"} -> Nic
       [] n = "bond0"     -> [Nic EXCEPT !.mac = FALSE]
       [] n = "bond0.101" -> Child(101, "mgmt", 1500)
       [] n = "bond0.102" -> Child(102, "storage", 9000)
       [] n = "bond0.103" -> Child(103, "ingress", 1500)
       [] n = "gpu0"      -> [Nic EXCEPT !.vfs = 16]],
   ips |-> [n \in Names |->
     CASE n = "bond0.101" -> {10}
       [] n = "bond0.102" -> {266}
       [] n = "bond0.103" -> {522}
       [] n = "gpu0"      -> {778}
       [] OTHER -> {}]]

mcInterfaces ==
  <<"nsa", "nsb", "bond0", "bond0.101", "bond0.102", "bond0.103", "gpu0">>

mcForeign ==
  { {}, {<<"device_type", Keyless>>}, {<<"vlan", "bond0.102">>}, {<<"device", Keyless>>},
    {<<"mac_address", "gpu0">>, <<"ip_address", "bond0.103">>} }

mcEmptyHosts == {View({}, others) : others \in InitialForeign}
=============================================================================
