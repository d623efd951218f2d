------------------------------ MODULE HostIntent ------------------------------
(***************************************************************************)
(* What the loader makes of the Netbox data of one host, and the           *)
(* cross-field invariants an accepted HostIntent satisfies.                *)
(*                                                                         *)
(* Operators only: the module has no state.  RenderService drives them,    *)
(* one Netbox query at a time.                                             *)
(*                                                                         *)
(* Data is kept as far as a decision of the code depends on it.  An        *)
(* interface name is an element of the set whose naming convention it      *)
(* follows, a MAC address is whether Netbox has a primary one, an address  *)
(* is a number in a /24 network (or V6, anything IPv4Interface rejects).   *)
(* Lists whose elements have distinct names are sets of records; the order *)
(* of a list never decides anything in the code modelled here.             *)
(***************************************************************************)
EXTENDS Integers, FiniteSets

CONSTANTS
  VlanNames,      \* names that start with "bond0."
  RoceNames,      \* names of the form gpuN
  IbNames,        \* names of the form ibN
  UnderlayCount,  \* east-west NICs of a GPU host (8 in the code)
  Addrs,          \* IPv4 addresses in use
  Slugs,          \* slugs of Netbox device roles, the code's Roles or others
  VlanTitles,     \* names of Netbox VLANs, the code's VlanRoles or others
  V6,             \* an address that is not IPv4
  None            \* Python's None

NS_NIC_NAMES == {"nsa", "nsb"}
BOND_NAME    == "bond0"
Names        == NS_NIC_NAMES \cup {BOND_NAME} \cup VlanNames \cup RoceNames \cup IbNames

ASSUME ConstantsAssumption ==
  /\ UnderlayCount \in Nat
  /\ Addrs \subseteq Nat /\ IsFiniteSet(Addrs) /\ V6 \notin Nat /\ None \notin Nat
  /\ VlanNames \cap (NS_NIC_NAMES \cup {BOND_NAME} \cup RoceNames \cup IbNames) = {}
  /\ RoceNames \cap (NS_NIC_NAMES \cup {BOND_NAME} \cup IbNames) = {}
  /\ IbNames \cap (NS_NIC_NAMES \cup {BOND_NAME}) = {}

Roles       == {"cpu", "gpu-b300", "gpu-b200", "gpu-h200"}
VlanRoles   == {"mgmt", "storage", "ingress"}
MIN_MTU     == 1500
MAX_MTU     == 9216
MIN_VLAN_ID == 1
MAX_VLAN_ID == 4094
MAX_VFS     == 128
Mtus        == MIN_MTU .. MAX_MTU

(***************************************************************************)
(* The slice of Netbox one asset tag can reach (external): its device      *)
(* record, its interfaces and the addresses assigned to each.              *)
(***************************************************************************)
Vlan  == [vid : Nat, name : VlanTitles]
Iface == [present : BOOLEAN, mac : BOOLEAN, mtu : Nat \cup {None},
          vlan : Vlan \cup {None}, vfs : Nat \cup {None}]
Netbox == [device : BOOLEAN, slug : Slugs, ifaces : [Names -> Iface],
           ips : [Names -> SUBSET (Addrs \cup {V6})]]

Present(ifaces, S) == {n \in S : ifaces[n].present}

(***************************************************************************)
(* The models: what pydantic lets through field by field.                  *)
(***************************************************************************)
BondMember == [name : NS_NIC_NAMES, mtu : Mtus]
Bond       == [name : {BOND_NAME}, members : SUBSET NS_NIC_NAMES, mtu : Mtus]
VlanChild  == [name : VlanNames, parent : {BOND_NAME}, vlan_id : MIN_VLAN_ID .. MAX_VLAN_ID,
               role : VlanRoles, mtu : Mtus, address : Addrs, gateway : Nat \cup {None}]
RoceUnderlay       == [name : RoceNames, mtu : Mtus, address : Addrs, sriov_vfs : 0 .. MAX_VFS]
InfinibandUnderlay == [name : IbNames, mtu : Mtus, address : Addrs]
Intent == [role : Roles, ns_nics : SUBSET BondMember, bond : Bond, vlans : SUBSET VlanChild,
           roce_underlays : SUBSET RoceUnderlay, ib_underlays : SUBSET InfinibandUnderlay]

-----------------------------------------------------------------------------
(***************************************************************************)
(* Loading.  A builder that can raise comes in two parts: its error (the   *)
(* class of the exception, "ok" if it returns) and the value it returns.   *)
(* "Untyped" stands for pydantic.ValidationError and ValueError, which     *)
(* are not HostConfigErrors.                                               *)
(***************************************************************************)
Errors == {"HostNotFound", "NetboxQuery", "Invariant", "Untyped"}

read_mtu(i, default) == IF i.mtu = None THEN default ELSE i.mtu
read_sriov_vfs(i)    == IF i.vfs = None THEN 16 ELSE i.vfs

\* First host address of the /24 the address lies in.
derive_gateway(a) == 256 * (a \div 256) + 1

parse_role_error(slug) == IF slug \in Roles THEN "ok" ELSE "NetboxQuery"

ns_nic_error(ifaces, n) ==
  CASE ~ifaces[n].present \/ ~ifaces[n].mac        -> "NetboxQuery"
    [] ifaces[n].present /\ ifaces[n].mac          ->
         IF read_mtu(ifaces[n], 9000) \in Mtus THEN "ok" ELSE "Untyped"

build_ns_nics_error(ifaces) ==
  IF ns_nic_error(ifaces, "nsa") # "ok" THEN ns_nic_error(ifaces, "nsa")
                                        ELSE ns_nic_error(ifaces, "nsb")

build_ns_nics(ifaces) ==
  {[name |-> n, mtu |-> read_mtu(ifaces[n], 9000)] : n \in NS_NIC_NAMES}

build_bond_error(ifaces) ==
  CASE ~ifaces[BOND_NAME].present -> "NetboxQuery"
    [] ifaces[BOND_NAME].present  ->
         IF read_mtu(ifaces[BOND_NAME], 9000) \in Mtus THEN "ok" ELSE "Untyped"

build_bond(ifaces, ns_nics) ==
  [name |-> BOND_NAME, members |-> {m.name : m \in ns_nics},
   mtu |-> read_mtu(ifaces[BOND_NAME], 9000)]

\* _fetch_single_ip, given what the query returned.
single_ip_error(ips) ==
  CASE Cardinality(ips) # 1 -> "NetboxQuery"
    [] ips = {V6}           -> "Untyped"
    [] OTHER                -> "ok"

single_ip(ips) == CHOOSE a \in ips : TRUE

\* What one iteration of _build_vlans, _build_roce_underlays or
\* _build_ib_underlays reads before it queries the addresses ...
pre_ip_error(n, i) ==
  IF n \in VlanNames
  THEN IF i.vlan = None THEN "NetboxQuery"
       ELSE IF i.vlan.name \in VlanRoles THEN "ok" ELSE "NetboxQuery"
  ELSE IF i.mac THEN "ok" ELSE "NetboxQuery"

\* ... and the bounds its model checks once it has the address.
DefaultMtu(n) == CASE n \in VlanNames -> 1500
                   [] n \in RoceNames -> 9000
                   [] n \in IbNames   -> 2044

model_error(n, i) ==
  IF /\ read_mtu(i, DefaultMtu(n)) \in Mtus
     /\ n \in VlanNames => i.vlan.vid \in MIN_VLAN_ID .. MAX_VLAN_ID
     /\ n \in RoceNames => read_sriov_vfs(i) \in 0 .. MAX_VFS
  THEN "ok" ELSE "Untyped"

build_vlan(n, i, ips) ==
  [name |-> n, parent |-> BOND_NAME, vlan_id |-> i.vlan.vid, role |-> i.vlan.name,
   mtu |-> read_mtu(i, 1500), address |-> single_ip(ips),
   gateway |-> IF i.vlan.name = "mgmt" THEN derive_gateway(single_ip(ips)) ELSE None]

build_roce(n, i, ips) ==
  [name |-> n, mtu |-> read_mtu(i, 9000), address |-> single_ip(ips),
   sriov_vfs |-> read_sriov_vfs(i)]

build_ib(n, i, ips) ==
  [name |-> n, mtu |-> read_mtu(i, 2044), address |-> single_ip(ips)]

-----------------------------------------------------------------------------
(***************************************************************************)
(* The cross-field validators, in the order _check_invariants runs them.   *)
(***************************************************************************)
ROCE_COUNT_BY_ROLE ==
  [r \in Roles |-> IF r \in {"gpu-b300", "gpu-b200"} THEN UnderlayCount ELSE 0]
IB_COUNT_BY_ROLE == [r \in Roles |-> IF r = "gpu-h200" THEN UnderlayCount ELSE 0]

Addressed(h) == h.vlans \cup h.roce_underlays \cup h.ib_underlays

check_ns_nic_count(h)            == Cardinality(h.ns_nics) = 2
check_bond_references_ns_nics(h) == h.bond.members \subseteq {m.name : m \in h.ns_nics}
check_vlan_roles_complete(h)     ==
  \A r \in VlanRoles : Cardinality({v \in h.vlans : v.role = r}) = 1
check_vlan_parents(h)            == \A v \in h.vlans : v.parent = h.bond.name
check_exactly_one_default_gateway(h) ==
  Cardinality({v \in h.vlans : v.gateway # None}) = 1
check_default_gateway_on_mgmt(h) == \A v \in h.vlans : v.gateway # None => v.role = "mgmt"
check_mtu_monotone(h)            == \A v \in h.vlans : v.mtu <= h.bond.mtu
check_roce_count_for_role(h)     ==
  Cardinality(h.roce_underlays) = ROCE_COUNT_BY_ROLE[h.role]
check_ib_count_for_role(h)       == Cardinality(h.ib_underlays) = IB_COUNT_BY_ROLE[h.role]
check_unique_names(h)            ==
  \A x, y \in h.ns_nics \cup Addressed(h) : x.name = y.name => x = y
\* Faulty variant: only the VLANs are compared.
check_unique_ips_VlansOnly(h)    ==
  \A x, y \in h.vlans : x.address = y.address => x = y
check_unique_ips(h)              ==
  \A x, y \in Addressed(h) : x.address = y.address => x = y

check_invariants(h) ==
  /\ check_ns_nic_count(h)
  /\ check_bond_references_ns_nics(h)
  /\ check_vlan_roles_complete(h)
  /\ check_vlan_parents(h)
  /\ check_exactly_one_default_gateway(h)
  /\ check_default_gateway_on_mgmt(h)
  /\ check_mtu_monotone(h)
  /\ check_roce_count_for_role(h)
  /\ check_ib_count_for_role(h)
  /\ check_unique_names(h)
  /\ check_unique_ips(h)

-----------------------------------------------------------------------------
(***************************************************************************)
(* Reference definitions, stated from what a host needs, not from how the  *)
(* code checks it.                                                         *)
(***************************************************************************)

\* A host that boots with this intent has a working network: one way out, over
\* management; one VLAN for each traffic class, none larger than the bond that
\* carries it; every address on one interface; the fabric of its role and no
\* other.
Bootable(h) ==
  /\ \E m \in h.vlans :
       /\ m.role = "mgmt" /\ m.gateway # None
       /\ \A v \in h.vlans : v.gateway # None => v = m
  /\ \A r \in VlanRoles : \E v \in h.vlans : v.role = r
  /\ \A v, w \in h.vlans : v.role = w.role => v = w
  /\ \A v \in h.vlans : v.parent = h.bond.name /\ v.mtu <= h.bond.mtu
  /\ \A x, y \in Addressed(h) : x # y => x.address # y.address
  /\ h.role = "cpu" => h.roce_underlays = {} /\ h.ib_underlays = {}
  /\ h.role \in {"gpu-b300", "gpu-b200"} =>
       Cardinality(h.roce_underlays) = UnderlayCount /\ h.ib_underlays = {}
  /\ h.role = "gpu-h200" =>
       Cardinality(h.ib_underlays) = UnderlayCount /\ h.roce_underlays = {}

\* The interfaces that carry an address, and the MTU an interface comes up with.
Carriers(nb) == Present(nb.ifaces, VlanNames \cup RoceNames \cup IbNames)
MtuOf(nb, n) ==
  IF nb.ifaces[n].mtu # None THEN nb.ifaces[n].mtu
  ELSE IF n \in Carriers(nb) THEN DefaultMtu(n) ELSE 9000

\* The device has a known role and the north-south NICs and bond of every host;
Wired(nb) ==
  /\ nb.device /\ nb.slug \in Roles
  /\ \A n \in NS_NIC_NAMES \cup {BOND_NAME} : nb.ifaces[n].present /\ MtuOf(nb, n) \in Mtus
  /\ \A n \in NS_NIC_NAMES : nb.ifaces[n].mac

\* an interface that carries an address has one IPv4 address and every field within
\* its bounds;
Configured(nb, n) ==
  /\ Cardinality(nb.ips[n]) = 1 /\ V6 \notin nb.ips[n]
  /\ MtuOf(nb, n) \in Mtus
  /\ n \notin VlanNames => nb.ifaces[n].mac
  /\ n \in VlanNames => /\ nb.ifaces[n].vlan # None
                        /\ nb.ifaces[n].vlan.vid \in MIN_VLAN_ID .. MAX_VLAN_ID
                        /\ nb.ifaces[n].vlan.name \in VlanRoles
  /\ n \in RoceNames /\ nb.ifaces[n].vfs # None => nb.ifaces[n].vfs \in 0 .. MAX_VFS

\* and they fit together: no address twice, one VLAN for each traffic class, none
\* larger than the bond, the fabric of the role and no other.
Consistent(nb) ==
  LET V == Carriers(nb) \cap VlanNames
      Fabric(S, roles) ==
        Cardinality(Carriers(nb) \cap S) = IF nb.slug \in roles THEN UnderlayCount ELSE 0
  IN  /\ \A m, n \in Carriers(nb) : m # n => nb.ips[m] # nb.ips[n]
      /\ \A n \in V : MtuOf(nb, n) <= MtuOf(nb, BOND_NAME)
      /\ Cardinality(V) = 3 /\ \A r \in VlanRoles : \E n \in V : nb.ifaces[n].vlan.name = r
      /\ Fabric(RoceNames, {"gpu-b300", "gpu-b200"}) /\ Fabric(IbNames, {"gpu-h200"})

\* Netbox describes the host completely and consistently.
Renderable(nb) ==
  /\ Wired(nb)
  /\ \A n \in Carriers(nb) : Configured(nb, n)
  /\ Consistent(nb)

\* The addresses Netbox assigns to the interfaces that carry one.
NetboxAddresses(nb) ==
  {p \in Names \X Addrs : p[1] \in Carriers(nb) /\ p[2] \in nb.ips[p[1]]}
IntentAddresses(h) == {<<x.name, x.address>> : x \in Addressed(h)}
=============================================================================
