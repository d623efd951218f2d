----------------------------- MODULE LoaderProofs -----------------------------
(***************************************************************************)
(* Theorems about the loader: of a host that Netbox does not change under  *)
(* it, it refuses nothing a host could boot with, and accepts nothing      *)
(* else, for every host Netbox may describe.                               *)
(***************************************************************************)
EXTENDS RenderServiceProofs

(***************************************************************************)
(* The loader's checks, each against what it is for.                       *)
(***************************************************************************)

\* _fetch_single_ip lets exactly one IPv4 address through.
LEMMA SingleIpExact ==
  ASSUME NEW ips \in SUBSET (Addrs \cup {V6})
  PROVE  /\ single_ip_error(ips) = "ok" <=> Cardinality(ips) = 1 /\ V6 \notin ips
         /\ single_ip_error(ips) = "ok" => ips = {single_ip(ips)} /\ single_ip(ips) \in Addrs
<1>1. IsFiniteSet(ips)
  <2>1. IsFiniteSet(Addrs \cup {V6})
    BY ConstantsAssumption, FS_AddElement
  <2> QED BY <2>1, FS_Subset
<1>2. CASE Cardinality(ips) # 1
  BY <1>2 DEF single_ip_error
<1>3. CASE Cardinality(ips) = 1
  <2>1. PICK a : ips = {a}
    BY <1>1, <1>3, FS_Singleton
  <2>2. single_ip(ips) = a
    BY <2>1 DEF single_ip
  <2>3. single_ip_error(ips) = IF a = V6 THEN "Untyped" ELSE "ok"
    BY <1>3, <2>1 DEF single_ip_error
  <2> QED BY <1>3, <2>1, <2>2, <2>3
<1> QED BY <1>2, <1>3

\* The default MTU is the one of the kind.
LEMMA MtuIsRead ==
  ASSUME NEW b \in Netbox
  PROVE  /\ \A n \in Carriers(b) : MtuOf(b, n) = read_mtu(b.ifaces[n], DefaultMtu(n))
         /\ \A n \in NS_NIC_NAMES \cup {BOND_NAME} : MtuOf(b, n) = read_mtu(b.ifaces[n], 9000)
<1>1. \A n \in NS_NIC_NAMES \cup {BOND_NAME} : n \notin Carriers(b)
  BY ConstantsAssumption DEF Carriers, Present
<1> QED BY <1>1 DEF MtuOf, read_mtu

\* An iteration of a build loop raises unless the interface is configured.
LEMMA BuildExact ==
  ASSUME NEW b \in Netbox, NEW n \in Carriers(b)
  PROVE  build_error(n, b.ifaces[n], b.ips[n]) = "ok" <=> Configured(b, n)
<1> DEFINE i == b.ifaces[n]
<1>1. /\ n \in VlanNames \cup RoceNames \cup IbNames /\ n \in Names
      /\ i \in Iface /\ b.ips[n] \in SUBSET (Addrs \cup {V6})
  BY DEF Carriers, Present, Names, Netbox
<1>2. single_ip_error(b.ips[n]) = "ok" <=> Cardinality(b.ips[n]) = 1 /\ V6 \notin b.ips[n]
  BY <1>1, SingleIpExact
<1>3. MtuOf(b, n) = read_mtu(i, DefaultMtu(n))
  BY MtuIsRead
<1>4. pre_ip_error(n, i) = "ok" <=> /\ n \in VlanNames => i.vlan # None /\ i.vlan.name \in VlanRoles
                                    /\ n \notin VlanNames => i.mac
  BY DEF pre_ip_error
<1>5. n \in RoceNames => (read_sriov_vfs(i) \in 0 .. MAX_VFS
                            <=> (i.vfs # None => i.vfs \in 0 .. MAX_VFS))
  BY DEF read_sriov_vfs, MAX_VFS
<1>6. model_error(n, i) = "ok" <=> /\ MtuOf(b, n) \in Mtus
                                   /\ n \in VlanNames => i.vlan.vid \in MIN_VLAN_ID .. MAX_VLAN_ID
                                   /\ n \in RoceNames /\ i.vfs # None => i.vfs \in 0 .. MAX_VFS
  BY <1>3, <1>5 DEF model_error
<1>7. build_error(n, i, b.ips[n]) = "ok" <=> /\ pre_ip_error(n, i) = "ok"
                                             /\ single_ip_error(b.ips[n]) = "ok"
                                             /\ model_error(n, i) = "ok"
  BY DEF build_error
<1> QED BY <1>2, <1>4, <1>6, <1>7 DEF Configured

\* The part of the load before the first address query raises unless the host is
\* wired.
LEMMA StructureExact ==
  ASSUME NEW b \in Netbox, b.device
  PROVE  structure_error(b.slug, b.ifaces) = "ok" <=> Wired(b)
<1>1. \A n \in NS_NIC_NAMES \cup {BOND_NAME} : MtuOf(b, n) = read_mtu(b.ifaces[n], 9000)
  BY MtuIsRead
<1>2. \A n \in NS_NIC_NAMES : ns_nic_error(b.ifaces, n) = "ok" <=>
        b.ifaces[n].present /\ b.ifaces[n].mac /\ MtuOf(b, n) \in Mtus
  BY <1>1 DEF ns_nic_error
<1>3. build_ns_nics_error(b.ifaces) = "ok" <=>
        \A n \in NS_NIC_NAMES : b.ifaces[n].present /\ b.ifaces[n].mac /\ MtuOf(b, n) \in Mtus
  BY <1>2 DEF build_ns_nics_error, NS_NIC_NAMES
<1>4. build_bond_error(b.ifaces) = "ok" <=>
        b.ifaces[BOND_NAME].present /\ MtuOf(b, BOND_NAME) \in Mtus
  BY <1>1 DEF build_bond_error
<1>5. structure_error(b.slug, b.ifaces) = "ok" <=>
        /\ b.slug \in Roles /\ build_ns_nics_error(b.ifaces) = "ok"
        /\ build_bond_error(b.ifaces) = "ok"
  BY DEF structure_error, parse_role_error
<1> QED BY <1>3, <1>4, <1>5 DEF Wired

-----------------------------------------------------------------------------
(***************************************************************************)
(* The cross-field validators, against what they are for.                  *)
(***************************************************************************)
VlanOf(b, n) == build_vlan(n, b.ifaces[n], b.ips[n])
RoceOf(b, n) == build_roce(n, b.ifaces[n], b.ips[n])
IbOf(b, n)   == build_ib(n, b.ifaces[n], b.ips[n])

\* An interface as an intent has it.
LEMMA PartFields ==
  ASSUME NEW b \in Netbox, NEW n \in Carriers(b), Configured(b, n)
  PROVE  /\ n \in VlanNames =>
              /\ VlanOf(b, n).name = n /\ b.ips[n] = {VlanOf(b, n).address}
              /\ VlanOf(b, n).mtu = MtuOf(b, n) /\ VlanOf(b, n).parent = BOND_NAME
              /\ VlanOf(b, n).role = b.ifaces[n].vlan.name
              /\ VlanOf(b, n).gateway # None <=> VlanOf(b, n).role = "mgmt"
         /\ n \in RoceNames => RoceOf(b, n).name = n /\ b.ips[n] = {RoceOf(b, n).address}
         /\ n \in IbNames => IbOf(b, n).name = n /\ b.ips[n] = {IbOf(b, n).address}
<1> DEFINE a == single_ip(b.ips[n])
<1>1. b.ips[n] = {a} /\ a \in Addrs
  <2>1. n \in Names /\ b.ips[n] \in SUBSET (Addrs \cup {V6})
    BY DEF Carriers, Present, Names, Netbox
  <2> QED BY <2>1, SingleIpExact DEF Configured
<1>2. derive_gateway(a) \in Nat /\ None \notin Nat
  <2>1. a \in Nat
    BY <1>1, ConstantsAssumption
  <2> HIDE DEF a
  <2> QED BY <2>1, ConstantsAssumption DEF derive_gateway
<1>3. n \in VlanNames => MtuOf(b, n) = read_mtu(b.ifaces[n], 1500)
  BY MtuIsRead, ConstantsAssumption DEF DefaultMtu
<1> QED BY <1>1, <1>2, <1>3 DEF VlanOf, RoceOf, IbOf, build_vlan, build_roce, build_ib

\* An intent has what Netbox has of a host, interface by interface.
Mirrors(h, b) ==
  /\ h.role = b.slug /\ h.ns_nics = build_ns_nics(b.ifaces)
  /\ h.bond.name = BOND_NAME /\ h.bond.members = NS_NIC_NAMES
  /\ h.bond.mtu = MtuOf(b, BOND_NAME)
  /\ \A x \in Addressed(h) : x.name \in Carriers(b) /\ b.ips[x.name] = {x.address}
  /\ \A x, y \in Addressed(h) : x.name = y.name => x = y
  /\ \A n \in Carriers(b) : \E x \in Addressed(h) : x.name = n
  /\ \A x \in h.vlans : /\ x.name \in VlanNames /\ x.parent = BOND_NAME
                        /\ x.mtu = MtuOf(b, x.name) /\ x.role = b.ifaces[x.name].vlan.name
                        /\ x.gateway # None <=> x.role = "mgmt"
  /\ \A x \in h.roce_underlays : x.name \in RoceNames
  /\ \A x \in h.ib_underlays : x.name \in IbNames

\* So it has Netbox's addresses.
LEMMA MirroredAddresses ==
  ASSUME NEW b \in Netbox, NEW h \in Intent, Mirrors(h, b)
  PROVE  IntentAddresses(h) = NetboxAddresses(b)
<1>1. \A x \in Addressed(h) : x.address \in Addrs
  BY DEF Addressed, Intent, VlanChild, RoceUnderlay, InfinibandUnderlay
<1>2. Carriers(b) \subseteq Names
  BY DEF Carriers, Present, Names
<1>3. ASSUME NEW x \in Addressed(h) PROVE <<x.name, x.address>> \in NetboxAddresses(b)
  BY <1>1, <1>2 DEF NetboxAddresses, Mirrors
<1>4. ASSUME NEW p \in NetboxAddresses(b) PROVE p \in IntentAddresses(h)
  <2>1. p \in Names \X Addrs /\ p[1] \in Carriers(b) /\ p[2] \in b.ips[p[1]] /\ p = <<p[1], p[2]>>
    BY DEF NetboxAddresses
  <2>2. PICK x \in Addressed(h) : x.name = p[1]
    BY <2>1 DEF Mirrors
  <2>3. p[2] = x.address
    BY <2>1, <2>2 DEF Mirrors
  <2> QED BY <2>1, <2>2, <2>3 DEF IntentAddresses
<1> QED BY <1>3, <1>4 DEF IntentAddresses

\* Records that differ by name are as many as the names.
LEMMA CountedByName ==
  ASSUME NEW S, IsFiniteSet(S), NEW N, \A x \in S : x.name \in N,
         \A x, y \in S : x.name = y.name => x = y, \A n \in N : \E x \in S : x.name = n
  PROVE  IsFiniteSet(N) /\ Cardinality(N) = Cardinality(S)
<1> DEFINE f == [x \in S |-> x.name]
<1>1. f \in [S -> N] /\ \A x \in S : f[x] = x.name
  OBVIOUS
<1> HIDE DEF f
<1>2. f \in Injection(S, N)
  BY <1>1 DEF Injection, IsInjective
<1>3. f \in Surjection(S, N)
  BY <1>1 DEF Surjection
<1>4. ExistsBijection(S, N)
  BY <1>2, <1>3 DEF ExistsBijection, Bijection
<1> QED BY <1>4, FS_Bijection

\* Each kind has as many records as interfaces.
LEMMA MirroredCounts ==
  ASSUME NEW b \in Netbox, NEW h \in Intent, Mirrors(h, b), IsFiniteSet(h.vlans),
         IsFiniteSet(h.roce_underlays), IsFiniteSet(h.ib_underlays)
  PROVE  /\ Cardinality(Carriers(b) \cap VlanNames) = Cardinality(h.vlans)
         /\ Cardinality(Carriers(b) \cap RoceNames) = Cardinality(h.roce_underlays)
         /\ Cardinality(Carriers(b) \cap IbNames) = Cardinality(h.ib_underlays)
<1> DEFINE V == Carriers(b) \cap VlanNames
           R == Carriers(b) \cap RoceNames
           I == Carriers(b) \cap IbNames
<1>1. /\ \A x \in h.vlans : x.name \in V
      /\ \A x \in h.roce_underlays : x.name \in R
      /\ \A x \in h.ib_underlays : x.name \in I
  BY DEF Mirrors, Addressed
<1>2. ASSUME NEW n \in Carriers(b)
      PROVE  /\ n \in VlanNames => \E x \in h.vlans : x.name = n
             /\ n \in RoceNames => \E x \in h.roce_underlays : x.name = n
             /\ n \in IbNames => \E x \in h.ib_underlays : x.name = n
  <2>1. PICK x \in Addressed(h) : x.name = n
    BY DEF Mirrors
  <2> QED BY <2>1, ConstantsAssumption DEF Mirrors, Addressed
<1>3. /\ \A x, y \in h.vlans : x.name = y.name => x = y
      /\ \A x, y \in h.roce_underlays : x.name = y.name => x = y
      /\ \A x, y \in h.ib_underlays : x.name = y.name => x = y
  BY DEF Mirrors, Addressed
<1>4. /\ \A n \in V : \E x \in h.vlans : x.name = n
      /\ \A n \in R : \E x \in h.roce_underlays : x.name = n
      /\ \A n \in I : \E x \in h.ib_underlays : x.name = n
  BY <1>2
<1> DEFINE hv == h.vlans
           hr == h.roce_underlays
           hi == h.ib_underlays
<1> HIDE DEF V, R, I, hv, hr, hi
<1>5. Cardinality(V) = Cardinality(hv)
  BY <1>1, <1>3, <1>4, CountedByName DEF hv
<1>6. Cardinality(R) = Cardinality(hr)
  BY <1>1, <1>3, <1>4, CountedByName DEF hr
<1>7. Cardinality(I) = Cardinality(hi)
  BY <1>1, <1>3, <1>4, CountedByName DEF hi
<1> QED BY <1>5, <1>6, <1>7 DEF V, R, I, hv, hr, hi

\* One VLAN of each role is three VLANs and every role.
LEMMA RolesExact ==
  ASSUME NEW S, IsFiniteSet(S), \A v \in S : v.role \in VlanRoles
  PROVE  (\A r \in VlanRoles : Cardinality({v \in S : v.role = r}) = 1)
           <=> Cardinality(S) = 3 /\ \A r \in VlanRoles : \E v \in S : v.role = r
<1> DEFINE R(r) == {v \in S : v.role = r}
<1>1. ASSUME \A r \in VlanRoles : Cardinality(R(r)) = 1
      PROVE  Cardinality(S) = 3 /\ \A r \in VlanRoles : \E v \in S : v.role = r
  <2>1. ASSUME NEW r \in VlanRoles PROVE \E v : R(r) = {v}
    <3>1. IsFiniteSet(R(r)) /\ Cardinality(R(r)) = 1
      BY <1>1, FS_Subset
    <3> HIDE DEF R
    <3> QED BY <3>1, FS_Singleton
  <2>2. PICK a : R("mgmt") = {a}
    BY <2>1 DEF VlanRoles
  <2>3. PICK b : R("storage") = {b}
    BY <2>1 DEF VlanRoles
  <2>4. PICK c : R("ingress") = {c}
    BY <2>1 DEF VlanRoles
  <2>5. /\ a \in S /\ a.role = "mgmt" /\ b \in S /\ b.role = "storage"
        /\ c \in S /\ c.role = "ingress"
    BY <2>2, <2>3, <2>4
  <2>6. ASSUME NEW v \in S PROVE v \in {a, b, c}
    <3>1. v \in R("mgmt") \/ v \in R("storage") \/ v \in R("ingress")
      BY DEF VlanRoles
    <3> QED BY <2>2, <2>3, <2>4, <3>1
  <2>7. S = {a, b, c}
    BY <2>5, <2>6
  <2>8. Cardinality({a, b, c}) = 3
    BY <2>5, ThreeDiffer
  <2>9. \A r \in VlanRoles : \E v \in S : v.role = r
    BY <2>5 DEF VlanRoles
  <2> QED BY <2>7, <2>8, <2>9
<1>2. ASSUME Cardinality(S) = 3, \A r \in VlanRoles : \E v \in S : v.role = r,
             NEW r \in VlanRoles
      PROVE  Cardinality(R(r)) = 1
  <2> DEFINE f == [v \in S |-> v.role]
  <2>1. f \in [S -> VlanRoles] /\ \A v \in S : f[v] = v.role
    OBVIOUS
  <2> HIDE DEF f
  <2>2. f \in Surjection(S, VlanRoles)
    BY <1>2, <2>1 DEF Surjection
  <2>3. Cardinality(VlanRoles) = 3
    BY ThreeDiffer DEF VlanRoles
  <2>4. f \in Injection(S, VlanRoles)
    BY <1>2, <2>2, <2>3, FS_Surjection
  <2>5. \A v, w \in S : v.role = w.role => v = w
    BY <2>1, <2>4 DEF Injection, IsInjective
  <2>6. PICK v \in S : v.role = r
    BY <1>2
  <2>7. R(r) = {v}
    BY <2>5, <2>6
  <2> QED BY <2>7, FS_Singleton
<1> QED BY <1>1, <1>2

\* Of what the builders make, the validators accept exactly the consistent hosts.
LEMMA ValidatorsExact ==
  ASSUME NEW b \in Netbox, Wired(b), \A n \in Carriers(b) : Configured(b, n),
         NEW h \in Intent, Mirrors(h, b), IsFiniteSet(h.vlans),
         IsFiniteSet(h.roce_underlays), IsFiniteSet(h.ib_underlays)
  PROVE  check_invariants(h) <=> Consistent(b)
<1> DEFINE V == Carriers(b) \cap VlanNames
           Roled == \A r \in VlanRoles : \E n \in V : b.ifaces[n].vlan.name = r
           Fits == \A n \in V : MtuOf(b, n) <= MtuOf(b, BOND_NAME)
           Differ == \A m, n \in Carriers(b) : m # n => b.ips[m] # b.ips[n]
<1>1. check_ns_nic_count(h) /\ check_bond_references_ns_nics(h)
  <2> DEFINE na == [name |-> "nsa", mtu |-> read_mtu(b.ifaces["nsa"], 9000)]
             ns == [name |-> "nsb", mtu |-> read_mtu(b.ifaces["nsb"], 9000)]
  <2>1. h.ns_nics = {na, ns}
    BY DEF Mirrors, build_ns_nics, NS_NIC_NAMES
  <2>2. na.name = "nsa" /\ ns.name = "nsb"
    OBVIOUS
  <2> HIDE DEF na, ns
  <2>3. na # ns
    BY <2>2
  <2>4. Cardinality({na, ns}) = 2
    <3>1. IsFiniteSet({na}) /\ Cardinality({na}) = 1
      BY FS_Singleton
    <3>2. Cardinality({na} \cup {ns}) = 1 + 1
      BY <2>3, <3>1, FS_AddElement
    <3>3. {na} \cup {ns} = {na, ns}
      OBVIOUS
    <3> QED BY <3>2, <3>3
  <2> QED BY <2>1, <2>2, <2>4
          DEF check_ns_nic_count, check_bond_references_ns_nics, Mirrors, NS_NIC_NAMES
<1>2. check_vlan_parents(h) /\ check_default_gateway_on_mgmt(h)
  BY DEF check_vlan_parents, check_default_gateway_on_mgmt, Mirrors
<1>3. check_unique_names(h)
  <2>1. \A x \in h.ns_nics : x.name \in NS_NIC_NAMES
    BY DEF Intent, BondMember
  <2>2. \A x, y \in h.ns_nics : x.name = y.name => x = y
    BY DEF Mirrors, build_ns_nics
  <2>3. \A x \in Addressed(h) : x.name \notin NS_NIC_NAMES
    BY ConstantsAssumption DEF Mirrors, Carriers, Present
  <2>4. \A x, y \in Addressed(h) : x.name = y.name => x = y
    BY DEF Mirrors
  <2> QED BY <2>1, <2>2, <2>3, <2>4 DEF check_unique_names
<1>4. check_vlan_roles_complete(h) => check_exactly_one_default_gateway(h)
  <2>1. {v \in h.vlans : v.gateway # None} = {v \in h.vlans : v.role = "mgmt"}
    BY DEF Mirrors
  <2> QED BY <2>1 DEF check_vlan_roles_complete, check_exactly_one_default_gateway, VlanRoles
<1>5. /\ \A n \in V : \E x \in h.vlans : x.name = n
      /\ \A x \in h.vlans : x.name \in V
  <2>1. ASSUME NEW n \in V PROVE \E x \in h.vlans : x.name = n
    <3>1. PICK x \in Addressed(h) : x.name = n
      BY DEF Mirrors
    <3> QED BY <3>1, ConstantsAssumption DEF Mirrors, Addressed
  <2>2. \A x \in h.vlans : x.name \in V
    BY DEF Mirrors, Addressed
  <2> QED BY <2>1, <2>2
<1>6. check_vlan_roles_complete(h) <=> Cardinality(V) = 3 /\ Roled
  <2> DEFINE S == h.vlans
  <2>1. \A v \in S : v.role \in VlanRoles
    BY DEF Intent, VlanChild
  <2>2. Cardinality(V) = Cardinality(S)
    BY MirroredCounts
  <2>3. (\A r \in VlanRoles : \E v \in S : v.role = r) <=> Roled
    BY <1>5 DEF Mirrors
  <2>4. (\A r \in VlanRoles : Cardinality({v \in S : v.role = r}) = 1)
           <=> Cardinality(S) = 3 /\ \A r \in VlanRoles : \E v \in S : v.role = r
    <3> HIDE DEF S
    <3> QED BY <2>1, RolesExact DEF S
  <2> QED BY <2>2, <2>3, <2>4 DEF check_vlan_roles_complete
<1>7. check_mtu_monotone(h) <=> Fits
  BY <1>5 DEF check_mtu_monotone, Mirrors
<1>8. check_unique_ips(h) <=> Differ
  <2>1. ASSUME check_unique_ips(h), NEW m \in Carriers(b), NEW n \in Carriers(b),
               b.ips[m] = b.ips[n]
        PROVE  m = n
    <3>1. PICK x \in Addressed(h) : x.name = m
      BY DEF Mirrors
    <3>2. PICK y \in Addressed(h) : y.name = n
      BY DEF Mirrors
    <3>3. x.address = y.address
      BY <2>1, <3>1, <3>2 DEF Mirrors
    <3> QED BY <2>1, <3>1, <3>2, <3>3 DEF check_unique_ips
  <2>2. ASSUME Differ, NEW x \in Addressed(h), NEW y \in Addressed(h), x.address = y.address
        PROVE  x = y
    <3>1. /\ b.ips[x.name] = {x.address} /\ x.name \in Carriers(b)
          /\ b.ips[y.name] = {y.address} /\ y.name \in Carriers(b)
      BY DEF Mirrors
    <3>2. b.ips[x.name] = b.ips[y.name]
      <4> HIDE DEF Differ
      <4> QED BY <2>2, <3>1
    <3>3. x.name = y.name
      BY <2>2, <3>1, <3>2
    <3> QED BY <3>3 DEF Mirrors
  <2> QED BY <2>1, <2>2 DEF check_unique_ips
<1>9. /\ check_roce_count_for_role(h) <=>
           Cardinality(Carriers(b) \cap RoceNames)
             = IF b.slug \in {"gpu-b300", "gpu-b200"} THEN UnderlayCount ELSE 0
      /\ check_ib_count_for_role(h) <=>
           Cardinality(Carriers(b) \cap IbNames)
             = IF b.slug \in {"gpu-h200"} THEN UnderlayCount ELSE 0
  <2>1. h.role = b.slug /\ b.slug \in Roles
    BY DEF Mirrors, Wired
  <2> QED BY <2>1, MirroredCounts DEF check_roce_count_for_role, check_ib_count_for_role,
                                      ROCE_COUNT_BY_ROLE, IB_COUNT_BY_ROLE
<1> QED BY <1>1, <1>2, <1>3, <1>4, <1>6, <1>7, <1>8, <1>9 DEF check_invariants, Consistent

-----------------------------------------------------------------------------
(***************************************************************************)
(* What a load has read of a Netbox that did not change under it.  A load  *)
(* is clean only as long as its handler keeps the loop, so what it holds   *)
(* while the loop is free, and the route it runs for, have to be part of   *)
(* the invariant.                                                          *)
(***************************************************************************)
Built == Carriers(nb) \ load.todo

QuietRead ==
  /\ load.phase \in {"interfaces", "addresses"} => load.slug = nb.slug
  /\ load.phase = "addresses" =>
       /\ nb.device /\ load.ifaces = nb.ifaces /\ load.todo \subseteq Carriers(nb)
       /\ \A n \in Built : Configured(nb, n)
       /\ load.vlans = {VlanOf(nb, n) : n \in Built \cap VlanNames}
       /\ load.roce = {RoceOf(nb, n) : n \in Built \cap RoceNames}
       /\ load.ib = {IbOf(nb, n) : n \in Built \cap IbNames}

QuietInv ==
  /\ loop = None => load.phase = "none"
  /\ \A r \in Requests : loop = r /\ kind[r] \in RenderKinds => load.phase # "status"
  /\ load.phase # "addresses" => load.vlans = {} /\ load.roce = {} /\ load.ib = {}
  /\ ~load.dirty => QuietRead

\* A handler that returns leaves no load.
LEMMA ReturnQuiet ==
  ASSUME NEW r, NEW s, NEW lab, NEW h, Return(r, s, lab, h)
  PROVE  QuietInv'
<1>1. /\ loop' = None /\ load'.phase = "none"
      /\ load'.vlans = {} /\ load'.roce = {} /\ load'.ib = {}
  BY DEF Return, NoLoad
<1> QED BY <1>1 DEF QuietInv, QuietRead

\* One more interface built.
LEMMA FetchAddressQuiet ==
  ASSUME IInv, QuietInv, NEW r \in Requests, FetchAddress(r)
  PROVE  QuietInv'
<1>1. /\ load.phase = "addresses" /\ load \in Load /\ nb \in Netbox /\ loop = r
      /\ load.todo \subseteq VlanNames \cup RoceNames \cup IbNames
  BY DEF FetchAddress, IInv, TypeOK, LoadInv
<1> DEFINE i(n) == load.ifaces[n]
           err(n) == build_error(n, i(n), nb.ips[n])
           l(n) == [load EXCEPT !.todo = @ \ {n}]
           v(n) == build_vlan(n, i(n), nb.ips[n])
           g(n) == build_roce(n, i(n), nb.ips[n])
           b(n) == build_ib(n, i(n), nb.ips[n])
<1>2. PICK n \in NextInLine(load.todo) :
        \/ err(n) # "ok" /\ Raise(r, err(n))
        \/ err(n) = "ok" /\ n \in VlanNames /\ Continue([l(n) EXCEPT !.vlans = @ \cup {v(n)}])
        \/ err(n) = "ok" /\ n \in RoceNames /\ Continue([l(n) EXCEPT !.roce = @ \cup {g(n)}])
        \/ err(n) = "ok" /\ n \in IbNames /\ Continue([l(n) EXCEPT !.ib = @ \cup {b(n)}])
  BY DEF FetchAddress
<1>3. n \in load.todo
  BY <1>2 DEF NextInLine
<1>4. CASE Raise(r, err(n))
  BY <1>4, ReturnQuiet DEF Raise
<1> DEFINE More ==
      /\ err(n) = "ok" /\ loop' = loop /\ kind' = kind /\ nb' = nb
      /\ load'.phase = "addresses" /\ load'.slug = load.slug /\ load'.ifaces = load.ifaces
      /\ load'.todo = load.todo \ {n} /\ load'.dirty = load.dirty
      /\ \/ n \in VlanNames /\ load'.vlans = load.vlans \cup {v(n)}
         \/ n \notin VlanNames /\ load'.vlans = load.vlans
      /\ \/ n \in RoceNames /\ load'.roce = load.roce \cup {g(n)}
         \/ n \notin RoceNames /\ load'.roce = load.roce
      /\ \/ n \in IbNames /\ load'.ib = load.ib \cup {b(n)}
         \/ n \notin IbNames /\ load'.ib = load.ib
<1>5. ASSUME More PROVE QuietInv'
  <2>1. ASSUME ~load.dirty PROVE QuietRead'
    <3>1. QuietRead /\ n \in Carriers(nb) /\ i(n) = nb.ifaces[n] /\ load.slug = nb.slug
      BY <1>1, <1>3, <2>1 DEF QuietInv, QuietRead
    <3>2. Configured(nb, n)
      BY <1>1, <1>5, <3>1, BuildExact
    <3>3. v(n) = VlanOf(nb, n) /\ g(n) = RoceOf(nb, n) /\ b(n) = IbOf(nb, n)
      BY <3>1 DEF VlanOf, RoceOf, IbOf
    <3> HIDE DEF err, v, g, b
    <3>4. Built' = Built \cup {n}
      BY <1>3, <1>5, <3>1 DEF Built
    <3>5. load'.vlans = {VlanOf(nb, m) : m \in (Built \cup {n}) \cap VlanNames}
      <4>1. load.vlans = {VlanOf(nb, m) : m \in Built \cap VlanNames}
        BY <1>1, <3>1 DEF QuietRead
      <4>2. CASE n \in VlanNames
        <5>1. load'.vlans = load.vlans \cup {VlanOf(nb, n)}
          BY <1>5, <3>3, <4>2
        <5> QED BY <4>1, <4>2, <5>1
      <4>3. CASE n \notin VlanNames
        <5>1. load'.vlans = load.vlans /\ (Built \cup {n}) \cap VlanNames = Built \cap VlanNames
          BY <1>5, <4>3
        <5> QED BY <4>1, <5>1
      <4> QED BY <4>2, <4>3
    <3>6. load'.roce = {RoceOf(nb, m) : m \in (Built \cup {n}) \cap RoceNames}
      <4>1. load.roce = {RoceOf(nb, m) : m \in Built \cap RoceNames}
        BY <1>1, <3>1 DEF QuietRead
      <4>2. CASE n \in RoceNames
        <5>1. load'.roce = load.roce \cup {RoceOf(nb, n)}
          BY <1>5, <3>3, <4>2
        <5> QED BY <4>1, <4>2, <5>1
      <4>3. CASE n \notin RoceNames
        <5>1. load'.roce = load.roce /\ (Built \cup {n}) \cap RoceNames = Built \cap RoceNames
          BY <1>5, <4>3
        <5> QED BY <4>1, <5>1
      <4> QED BY <4>2, <4>3
    <3>7. load'.ib = {IbOf(nb, m) : m \in (Built \cup {n}) \cap IbNames}
      <4>1. load.ib = {IbOf(nb, m) : m \in Built \cap IbNames}
        BY <1>1, <3>1 DEF QuietRead
      <4>2. CASE n \in IbNames
        <5>1. load'.ib = load.ib \cup {IbOf(nb, n)}
          BY <1>5, <3>3, <4>2
        <5> QED BY <4>1, <4>2, <5>1
      <4>3. CASE n \notin IbNames
        <5>1. load'.ib = load.ib /\ (Built \cup {n}) \cap IbNames = Built \cap IbNames
          BY <1>5, <4>3
        <5> QED BY <4>1, <5>1
      <4> QED BY <4>2, <4>3
    <3>8. \A m \in Built' : Configured(nb, m)
      BY <1>1, <3>1, <3>2, <3>4 DEF QuietRead
    <3>9. /\ nb'.device /\ load'.ifaces = nb'.ifaces /\ load'.todo \subseteq Carriers(nb')
          /\ load'.slug = nb'.slug
      BY <1>1, <1>5, <3>1 DEF QuietRead
    <3> QED BY <1>5, <3>4, <3>5, <3>6, <3>7, <3>8, <3>9 DEF QuietRead
  <2> QED BY <1>1, <1>5, <2>1, ServiceAssumption DEF QuietInv
<1>6. /\ n \in VlanNames => n \notin RoceNames \cup IbNames
      /\ n \in RoceNames => n \notin VlanNames \cup IbNames
      /\ n \in IbNames => n \notin VlanNames \cup RoceNames
  BY ConstantsAssumption
<1> HIDE DEF err, v, g, b, More
<1>7. CASE err(n) = "ok" /\ n \in VlanNames /\ Continue([l(n) EXCEPT !.vlans = @ \cup {v(n)}])
  <2>1. /\ load'.phase = load.phase /\ load'.slug = load.slug /\ load'.ifaces = load.ifaces
        /\ load'.todo = load.todo \ {n} /\ load'.vlans = load.vlans \cup {v(n)}
        /\ load'.roce = load.roce /\ load'.ib = load.ib /\ load'.dirty = load.dirty
    BY <1>1, <1>7 DEF Continue, Load
  <2>2. loop' = loop /\ kind' = kind /\ nb' = nb
    BY <1>7 DEF Continue, nbVars, reqVars
  <2>3. More
    BY <1>1, <1>6, <1>7, <2>1, <2>2 DEF More
  <2> QED BY <1>5, <2>3
<1>8. CASE err(n) = "ok" /\ n \in RoceNames /\ Continue([l(n) EXCEPT !.roce = @ \cup {g(n)}])
  <2>1. /\ load'.phase = load.phase /\ load'.slug = load.slug /\ load'.ifaces = load.ifaces
        /\ load'.todo = load.todo \ {n} /\ load'.vlans = load.vlans
        /\ load'.roce = load.roce \cup {g(n)} /\ load'.ib = load.ib /\ load'.dirty = load.dirty
    BY <1>1, <1>8 DEF Continue, Load
  <2>2. loop' = loop /\ kind' = kind /\ nb' = nb
    BY <1>8 DEF Continue, nbVars, reqVars
  <2>3. More
    BY <1>1, <1>6, <1>8, <2>1, <2>2 DEF More
  <2> QED BY <1>5, <2>3
<1>9. CASE err(n) = "ok" /\ n \in IbNames /\ Continue([l(n) EXCEPT !.ib = @ \cup {b(n)}])
  <2>1. /\ load'.phase = load.phase /\ load'.slug = load.slug /\ load'.ifaces = load.ifaces
        /\ load'.todo = load.todo \ {n} /\ load'.vlans = load.vlans
        /\ load'.roce = load.roce /\ load'.ib = load.ib \cup {b(n)} /\ load'.dirty = load.dirty
    BY <1>1, <1>9 DEF Continue, Load
  <2>2. loop' = loop /\ kind' = kind /\ nb' = nb
    BY <1>9 DEF Continue, nbVars, reqVars
  <2>3. More
    BY <1>1, <1>6, <1>9, <2>1, <2>2 DEF More
  <2> QED BY <1>5, <2>3
<1> QED BY <1>2, <1>4, <1>7, <1>8, <1>9

\* The other steps of the loader.
LEMMA FetchQuiet ==
  ASSUME IInv, QuietInv, NEW r \in Requests, FetchDevice(r) \/ FetchInterfaces(r)
  PROVE  QuietInv'
<1>1. load \in Load /\ nb \in Netbox /\ loop = r /\ r # None
  BY ServiceAssumption DEF FetchDevice, FetchInterfaces, IInv, TypeOK
<1>2. ASSUME NEW err, Raise(r, err) PROVE QuietInv'
  BY <1>2, ReturnQuiet DEF Raise
<1>3. ASSUME NEW l, Continue(l) PROVE load' = l /\ loop' = loop /\ kind' = kind /\ nb' = nb
  BY <1>3 DEF Continue, nbVars, reqVars
<1>4. CASE FetchDevice(r)
  <2> DEFINE l == [load EXCEPT !.phase = "interfaces", !.slug = nb.slug]
  <2>1. CASE Continue(l)
    <3>1. load' = l /\ loop' = loop /\ kind' = kind /\ nb' = nb
      BY <1>3, <2>1
    <3>2. /\ load.phase = "device" /\ load'.phase = "interfaces" /\ load'.slug = nb.slug
          /\ load'.vlans = load.vlans /\ load'.roce = load.roce /\ load'.ib = load.ib
      BY <1>1, <1>4, <3>1 DEF FetchDevice, Load
    <3> QED BY <1>1, <3>1, <3>2 DEF QuietInv, QuietRead
  <2> QED BY <1>2, <1>4, <2>1 DEF FetchDevice
<1>5. CASE FetchInterfaces(r)
  <2> DEFINE l == [load EXCEPT !.phase = "addresses", !.ifaces = nb.ifaces,
                               !.todo = WithAddress(nb.ifaces)]
  <2>1. CASE Continue(l)
    <3>1. load' = l /\ loop' = loop /\ kind' = kind /\ nb' = nb
      BY <1>3, <2>1
    <3>2. /\ load.phase = "interfaces" /\ load'.phase = "addresses" /\ load'.slug = load.slug
          /\ load'.ifaces = nb.ifaces /\ load'.todo = WithAddress(nb.ifaces)
          /\ load'.vlans = load.vlans /\ load'.roce = load.roce /\ load'.ib = load.ib
          /\ load'.dirty = load.dirty /\ nb.device
      BY <1>1, <1>5, <3>1 DEF FetchInterfaces, Load
    <3>3. load.vlans = {} /\ load.roce = {} /\ load.ib = {}
      BY <3>2 DEF QuietInv
    <3>4. Built' = {} /\ load'.todo = Carriers(nb)
      BY <3>1, <3>2 DEF Built, WithAddress, Carriers
    <3>5. ASSUME ~load.dirty PROVE QuietRead'
      <4>1. load.slug = nb.slug
        BY <3>2, <3>5 DEF QuietInv, QuietRead
      <4> QED BY <3>1, <3>2, <3>3, <3>4, <4>1 DEF QuietRead
    <3> QED BY <1>1, <3>1, <3>2, <3>5 DEF QuietInv
  <2> QED BY <1>2, <1>5, <2>1 DEF FetchInterfaces
<1> QED BY <1>4, <1>5

\* Every step of the service, of Netbox and of systemd.
LEMMA NextQuiet ==
  ASSUME IInv, QuietInv, [Next]_vars
  PROVE  QuietInv'
<1>1. load \in Load /\ None \notin Requests
  BY ServiceAssumption DEF IInv, TypeOK
<1>2. CASE UNCHANGED vars
  BY <1>2 DEF vars, nbVars, reqVars, QuietInv, QuietRead, Built
<1>3. ASSUME NEW r \in Requests, (\E k \in Kinds : Dispatch(r, k)) \/ Finish(r)
      PROVE  QuietInv'
  <2>1. loop = None /\ loop' = None /\ load' = load /\ nb' = nb
    BY <1>3 DEF Dispatch, Finish, nbVars
  <2> QED BY <1>1, <2>1 DEF QuietInv, QuietRead
<1>4. ASSUME NEW r \in Requests, StartHandler(r)
      PROVE  QuietInv'
  <2>1. /\ loop' = r /\ kind' = kind /\ load'.vlans = {} /\ load'.roce = {} /\ load'.ib = {}
        /\ load'.phase = IF kind[r] = "readyz" THEN "status" ELSE "device"
    BY <1>4 DEF StartHandler, NoLoad
  <2> QED BY <1>1, <2>1 DEF QuietInv, QuietRead, RenderKinds
<1>5. ASSUME NEW r \in Requests,
             AnswerLocally(r) \/ QueryStatus(r) \/ QueryFails(r) \/ ValidateAndRender(r)
      PROVE  QuietInv'
  BY <1>5, ReturnQuiet DEF AnswerLocally, QueryStatus, QueryFails, ValidateAndRender, Raise
<1>6. CASE NetboxEdit
  <2>1. PICK new : Edit(new)
    BY <1>6 DEF NetboxEdit, EditIface, EditIps, EditRole, DeleteDevice
  <2>2. /\ load' = [load EXCEPT !.dirty = @ \/ loop # None] /\ loop' = loop /\ kind' = kind
    BY <2>1 DEF Edit, reqVars
  <2>3. /\ load'.phase = load.phase /\ load'.vlans = load.vlans /\ load'.roce = load.roce
        /\ load'.ib = load.ib
    BY <1>1, <2>2 DEF Load
  <2>4. loop # None => load'.dirty
    BY <1>1, <2>2 DEF Load
  <2> QED BY <2>2, <2>3, <2>4 DEF QuietInv, QuietRead
<1>7. CASE Restart
  <2>1. /\ loop' = None /\ load'.phase = "none"
        /\ load'.vlans = {} /\ load'.roce = {} /\ load'.ib = {}
    BY <1>7 DEF Restart, NoLoad
  <2> QED BY <1>1, <2>1 DEF QuietInv, QuietRead
<1> QED BY <1>2, <1>3, <1>4, <1>5, <1>6, <1>7, FetchQuiet, FetchAddressQuiet DEF Next

-----------------------------------------------------------------------------
(***************************************************************************)
(* What comes of it.                                                       *)
(***************************************************************************)

\* A clean load that has built everything has the host as Netbox has it.
LEMMA LoadedMirrors ==
  ASSUME IInv, QuietInv, ~load.dirty, load.phase = "addresses", load.todo = {}
  PROVE  /\ Wired(nb) /\ \A n \in Carriers(nb) : Configured(nb, n)
         /\ Mirrors(LoadedIntent(load), nb)
<1> DEFINE h == LoadedIntent(load)
<1>1. /\ nb \in Netbox /\ nb.device /\ load.ifaces = nb.ifaces /\ load.slug = nb.slug
      /\ Built = Carriers(nb)
  BY DEF IInv, TypeOK, QuietInv, QuietRead, Built
<1>2. \A n \in Carriers(nb) : Configured(nb, n)
  BY <1>1 DEF QuietInv, QuietRead
<1>3. Wired(nb)
  <2>1. structure_error(nb.slug, nb.ifaces) = "ok"
    BY <1>1 DEF IInv, LoadInv, structure_error, parse_role_error
  <2> QED BY <1>1, <2>1, StructureExact
<1>4. /\ h.role = nb.slug /\ h.ns_nics = build_ns_nics(nb.ifaces)
      /\ h.bond = build_bond(nb.ifaces, build_ns_nics(nb.ifaces))
      /\ h.vlans = load.vlans /\ h.roce_underlays = load.roce /\ h.ib_underlays = load.ib
  BY <1>1 DEF LoadedIntent
<1> HIDE DEF h
<1>5. /\ h.vlans = {VlanOf(nb, n) : n \in Carriers(nb) \cap VlanNames}
      /\ h.roce_underlays = {RoceOf(nb, n) : n \in Carriers(nb) \cap RoceNames}
      /\ h.ib_underlays = {IbOf(nb, n) : n \in Carriers(nb) \cap IbNames}
  BY <1>1, <1>4 DEF QuietInv, QuietRead
<1>6. /\ h.bond.name = BOND_NAME /\ h.bond.members = NS_NIC_NAMES
      /\ h.bond.mtu = MtuOf(nb, BOND_NAME)
  <2>1. {m.name : m \in build_ns_nics(nb.ifaces)} = NS_NIC_NAMES
    <3>1. \A m \in build_ns_nics(nb.ifaces) : m.name \in NS_NIC_NAMES
      BY DEF build_ns_nics
    <3>2. ASSUME NEW n \in NS_NIC_NAMES PROVE \E m \in build_ns_nics(nb.ifaces) : m.name = n
      <4> DEFINE m == [name |-> n, mtu |-> read_mtu(nb.ifaces[n], 9000)]
      <4>1. m \in build_ns_nics(nb.ifaces) /\ m.name = n
        BY DEF build_ns_nics
      <4> QED BY <4>1
    <3> QED BY <3>1, <3>2
  <2>2. MtuOf(nb, BOND_NAME) = read_mtu(nb.ifaces[BOND_NAME], 9000)
    BY <1>1, MtuIsRead
  <2> QED BY <1>4, <2>1, <2>2 DEF build_bond
<1>7. \A n \in Carriers(nb) : n \in VlanNames \cup RoceNames \cup IbNames
  BY DEF Carriers, Present
<1>8. ASSUME NEW x \in h.vlans
      PROVE  /\ x.name \in Carriers(nb) \cap VlanNames /\ x = VlanOf(nb, x.name)
             /\ nb.ips[x.name] = {x.address}
             /\ x.parent = BOND_NAME /\ x.mtu = MtuOf(nb, x.name)
             /\ x.role = nb.ifaces[x.name].vlan.name
             /\ x.gateway # None <=> x.role = "mgmt"
  <2>1. PICK n \in Carriers(nb) \cap VlanNames : x = VlanOf(nb, n)
    BY <1>5
  <2> QED BY <1>1, <1>2, <2>1, PartFields
<1>9. ASSUME NEW x \in h.roce_underlays
      PROVE  /\ x.name \in Carriers(nb) \cap RoceNames /\ x = RoceOf(nb, x.name)
             /\ nb.ips[x.name] = {x.address}
  <2>1. PICK n \in Carriers(nb) \cap RoceNames : x = RoceOf(nb, n)
    BY <1>5
  <2> QED BY <1>1, <1>2, <2>1, PartFields
<1>10. ASSUME NEW x \in h.ib_underlays
       PROVE  /\ x.name \in Carriers(nb) \cap IbNames /\ x = IbOf(nb, x.name)
              /\ nb.ips[x.name] = {x.address}
  <2>1. PICK n \in Carriers(nb) \cap IbNames : x = IbOf(nb, n)
    BY <1>5
  <2> QED BY <1>1, <1>2, <2>1, PartFields
<1>11. \A x \in Addressed(h) : x.name \in Carriers(nb) /\ nb.ips[x.name] = {x.address}
  BY <1>8, <1>9, <1>10 DEF Addressed
<1>12. ASSUME NEW x \in Addressed(h), NEW y \in Addressed(h), x.name = y.name
       PROVE  x = y
  <2>1. CASE x \in h.vlans
    <3>1. y \in h.vlans
      BY <1>8, <1>9, <1>10, <1>12, <2>1, ConstantsAssumption DEF Addressed
    <3> QED BY <1>8, <1>12, <2>1, <3>1
  <2>2. CASE x \in h.roce_underlays
    <3>1. y \in h.roce_underlays
      BY <1>8, <1>9, <1>10, <1>12, <2>2, ConstantsAssumption DEF Addressed
    <3> QED BY <1>9, <1>12, <2>2, <3>1
  <2>3. CASE x \in h.ib_underlays
    <3>1. y \in h.ib_underlays
      BY <1>8, <1>9, <1>10, <1>12, <2>3, ConstantsAssumption DEF Addressed
    <3> QED BY <1>10, <1>12, <2>3, <3>1
  <2> QED BY <2>1, <2>2, <2>3 DEF Addressed
<1>13. ASSUME NEW n \in Carriers(nb) PROVE \E x \in Addressed(h) : x.name = n
  <2>1. CASE n \in VlanNames
    <3>1. VlanOf(nb, n) \in h.vlans /\ VlanOf(nb, n).name = n
      BY <1>1, <1>2, <1>5, <2>1, PartFields
    <3> QED BY <3>1 DEF Addressed
  <2>2. CASE n \in RoceNames
    <3>1. RoceOf(nb, n) \in h.roce_underlays /\ RoceOf(nb, n).name = n
      BY <1>1, <1>2, <1>5, <2>2, PartFields
    <3> QED BY <3>1 DEF Addressed
  <2>3. CASE n \in IbNames
    <3>1. IbOf(nb, n) \in h.ib_underlays /\ IbOf(nb, n).name = n
      BY <1>1, <1>2, <1>5, <2>3, PartFields
    <3> QED BY <3>1 DEF Addressed
  <2> QED BY <1>7, <2>1, <2>2, <2>3
<1>14. Mirrors(h, nb)
  BY <1>4, <1>6, <1>8, <1>9, <1>10, <1>11, <1>12, <1>13 DEF Mirrors
<1> QED BY <1>2, <1>3, <1>14 DEF h

\* What a handler that returns answers.
LEMMA ReturnAnswers ==
  ASSUME IInv, NEW r \in Requests, NEW s, NEW lab, NEW h, Return(r, s, lab, h)
  PROVE  status'[r] = s /\ label'[r] = lab /\ body'[r] = h
BY DEF Return, IInv, TypeOK

\* The last step of a load: a clean one accepts what is renderable, nothing else.
LEMMA RenderExact ==
  ASSUME IInv, QuietInv, ~load.dirty, NEW r \in Requests, ValidateAndRender(r)
  PROVE  /\ status'[r] = 200 => /\ IntentAddresses(body'[r]) = NetboxAddresses(nb)
                                /\ body'[r].role = nb.slug
                                /\ Renderable(nb)
         /\ Renderable(nb) => \/ status'[r] \in {200, 502}
                              \/ label'[r] = <<nb.slug, "template_error">>
<1> DEFINE h == LoadedIntent(load)
<1>1. /\ load.phase = "addresses" /\ load.todo = {} /\ nb \in Netbox /\ load \in Load /\ LoadInv
  BY DEF ValidateAndRender, IInv, TypeOK
<1>2. h \in Intent
  BY <1>1, LoadedTyped
<1>3. IsFiniteSet(h.vlans) /\ IsFiniteSet(h.roce_underlays) /\ IsFiniteSet(h.ib_underlays)
  BY <1>1 DEF LoadInv, LoadedIntent
<1>4. Wired(nb) /\ (\A n \in Carriers(nb) : Configured(nb, n)) /\ Mirrors(h, nb)
  BY <1>1, LoadedMirrors
<1>5. \/ ~check_invariants(h) /\ Return(r, StatusOf("Invariant"), LabelOf("Invariant"), None)
      \/ check_invariants(h) /\ Return(r, 500, <<h.role, "template_error">>, None)
      \/ check_invariants(h) /\ Return(r, 200, <<h.role, "success">>, h)
  BY DEF ValidateAndRender, Raise
<1> HIDE DEF h
<1>6. check_invariants(h) <=> Consistent(nb)
  BY <1>1, <1>2, <1>3, <1>4, ValidatorsExact
<1>7. Renderable(nb) <=> check_invariants(h)
  BY <1>4, <1>6 DEF Renderable
<1>8. h.role = nb.slug /\ IntentAddresses(h) = NetboxAddresses(nb)
  BY <1>1, <1>2, <1>4, MirroredAddresses DEF Mirrors
<1>9. CASE ~check_invariants(h) /\ Return(r, StatusOf("Invariant"), LabelOf("Invariant"), None)
  <2>1. status'[r] = 422
    BY <1>9, ReturnAnswers DEF StatusOf
  <2> QED BY <1>7, <1>9, <2>1
<1>10. CASE check_invariants(h) /\ Return(r, 500, <<h.role, "template_error">>, None)
  <2>1. status'[r] = 500 /\ label'[r] = <<h.role, "template_error">>
    BY <1>10, ReturnAnswers
  <2> QED BY <1>8, <2>1
<1>11. CASE check_invariants(h) /\ Return(r, 200, <<h.role, "success">>, h)
  <2>1. status'[r] = 200 /\ body'[r] = h
    BY <1>11, ReturnAnswers
  <2> QED BY <1>7, <1>8, <1>11, <2>1
<1> QED BY <1>5, <1>9, <1>10, <1>11

\* A load that raised: a clean one raises only where the host is not renderable or
\* a query failed.
LEMMA RaiseExact ==
  ASSUME IInv, QuietInv, ~load.dirty, NEW r \in Requests, pc'[r] = "returned",
         loop = r, pc[r] = "handling", FetchDevice(r) \/ FetchInterfaces(r) \/ FetchAddress(r)
  PROVE  /\ status'[r] # 200
         /\ Renderable(nb) => status'[r] = 502
<1>1. nb \in Netbox /\ load \in Load
  BY DEF IInv, TypeOK
<1>2. ASSUME NEW l, Continue(l) PROVE FALSE
  BY <1>2 DEF Continue, reqVars
<1>3. ASSUME NEW err \in Errors, Raise(r, err) PROVE status'[r] # 200
  <2>1. status'[r] = StatusOf(err)
    BY <1>3, ReturnAnswers DEF Raise
  <2> QED BY <2>1 DEF StatusOf, Errors
<1>4. CASE FetchDevice(r)
  <2>1. ~nb.device /\ Raise(r, "HostNotFound")
    BY <1>2, <1>4 DEF FetchDevice
  <2> QED BY <1>3, <2>1 DEF Errors, Renderable, Wired
<1>5. CASE FetchInterfaces(r)
  <2> DEFINE err == structure_error(load.slug, nb.ifaces)
  <2>1. nb.device /\ err # "ok" /\ Raise(r, err) /\ load.phase = "interfaces"
    BY <1>2, <1>5 DEF FetchInterfaces
  <2>2. err \in Errors
    <3>1. parse_role_error(load.slug) \in Errors \cup {"ok"}
      BY DEF parse_role_error, Errors
    <3>2. build_ns_nics_error(nb.ifaces) \in Errors \cup {"ok"}
      <4>1. ASSUME NEW n PROVE ns_nic_error(nb.ifaces, n) \in Errors \cup {"ok"}
        BY DEF ns_nic_error, Errors
      <4> QED BY <4>1 DEF build_ns_nics_error
    <3>3. build_bond_error(nb.ifaces) \in Errors \cup {"ok"}
      BY DEF build_bond_error, Errors
    <3> QED BY <2>1, <3>1, <3>2, <3>3 DEF structure_error
  <2>3. load.slug = nb.slug
    BY <2>1 DEF QuietInv, QuietRead
  <2>4. ~Wired(nb)
    BY <1>1, <2>1, <2>3, StructureExact
  <2> HIDE DEF err
  <2> QED BY <1>3, <2>1, <2>2, <2>4 DEF Renderable
<1>6. CASE FetchAddress(r)
  <2> DEFINE err(n) == build_error(n, load.ifaces[n], nb.ips[n])
  <2>1. PICK n \in NextInLine(load.todo) : err(n) # "ok" /\ Raise(r, err(n))
    BY <1>2, <1>6 DEF FetchAddress
  <2>2. err(n) \in Errors
    BY <2>1 DEF build_error, pre_ip_error, single_ip_error, model_error, Errors
  <2>3. load.phase = "addresses" /\ n \in load.todo
    BY <1>6, <2>1 DEF FetchAddress, NextInLine
  <2>4. n \in Carriers(nb) /\ load.ifaces = nb.ifaces
    BY <2>3 DEF QuietInv, QuietRead
  <2>5. ~Configured(nb, n)
    BY <1>1, <2>1, <2>4, BuildExact
  <2> HIDE DEF err
  <2> QED BY <1>3, <2>1, <2>2, <2>4, <2>5 DEF Renderable
<1> QED BY <1>4, <1>5, <1>6

\* A load that Netbox did not change under tells exactly what Netbox holds: what it
\* serves has Netbox's role and addresses, and a host that Netbox describes
\* completely is refused only when a query failed or its template is broken.
THEOREM QuietLoadsAreExact == Spec => QuietLoadExact
<1> DEFINE Exact ==
      \A r \in Requests :
        /\ loop = r /\ pc'[r] = "returned" /\ kind[r] \in RenderKinds /\ ~load.dirty
        => /\ status'[r] = 200 =>
                /\ IntentAddresses(body'[r]) = NetboxAddresses(nb)
                /\ body'[r].role = nb.slug
                /\ Renderable(nb)
           /\ Renderable(nb) =>
                \/ status'[r] \in {200, 502}
                \/ label'[r] = <<nb.slug, "template_error">>
<1>1. Init => QuietInv
  <2> SUFFICES ASSUME Init PROVE QuietInv
    OBVIOUS
  <2>1. /\ loop = None /\ load.phase = "none"
        /\ load.vlans = {} /\ load.roce = {} /\ load.ib = {}
    BY DEF Init, NoLoad
  <2> QED BY <2>1, ServiceAssumption DEF QuietInv, QuietRead
<1>2. IInv /\ QuietInv /\ [Next]_vars => QuietInv'
  BY NextQuiet
<1>3. IInv /\ QuietInv /\ [Next]_vars => [Exact]_vars
  <2> SUFFICES ASSUME IInv, QuietInv, Next, NEW r \in Requests, loop = r, pc'[r] = "returned",
                      kind[r] \in RenderKinds, ~load.dirty
               PROVE  /\ status'[r] = 200 =>
                           /\ IntentAddresses(body'[r]) = NetboxAddresses(nb)
                           /\ body'[r].role = nb.slug
                           /\ Renderable(nb)
                      /\ Renderable(nb) =>
                           \/ status'[r] \in {200, 502}
                           \/ label'[r] = <<nb.slug, "template_error">>
    OBVIOUS
  <2>1. loop # None /\ pc[r] = "handling" /\ load.phase # "status"
    BY ServiceAssumption DEF IInv, OneHandler, QuietInv
  <2>2. ~NetboxEdit
    BY <2>1 DEF NetboxEdit, EditIface, EditIps, EditRole, DeleteDevice, Edit, reqVars
  <2>3. ~Restart
    BY <2>1 DEF Restart
  <2>4. \A q \in Requests : /\ \A k \in Kinds : ~Dispatch(q, k)
                            /\ ~StartHandler(q) /\ ~AnswerLocally(q) /\ ~Finish(q)
                            /\ ~QueryStatus(q)
    BY <2>1 DEF Dispatch, StartHandler, AnswerLocally, Finish, QueryStatus
  <2>5. PICK q \in Requests : \/ QueryFails(q) \/ ValidateAndRender(q)
                              \/ FetchDevice(q) \/ FetchInterfaces(q) \/ FetchAddress(q)
    BY <2>2, <2>3, <2>4 DEF Next
  <2>6. q = r
    BY <2>5 DEF QueryFails, ValidateAndRender, FetchDevice, FetchInterfaces, FetchAddress
  <2>7. CASE QueryFails(r)
    <3>1. status'[r] = StatusOf("NetboxQuery")
      BY <2>7, ReturnAnswers DEF QueryFails, Raise
    <3> QED BY <3>1 DEF StatusOf
  <2>8. CASE ValidateAndRender(r)
    BY <2>8, RenderExact
  <2>9. CASE FetchDevice(r) \/ FetchInterfaces(r) \/ FetchAddress(r)
    BY <2>1, <2>9, RaiseExact
  <2> QED BY <2>5, <2>6, <2>7, <2>8, <2>9
<1> QED BY <1>1, <1>2, <1>3, Inductive, PTL DEF Spec, QuietLoadExact
=============================================================================
