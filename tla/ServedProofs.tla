----------------------------- MODULE ServedProofs -----------------------------
(***************************************************************************)
(* What becomes of a served intent: the bytes it renders to, a host that   *)
(* boots with it, and the verdict of validate_h200_host.py on that host.   *)
(***************************************************************************)
EXTENDS Served, LoaderProofs, EmitterProofs

\* What the loader builds and the validators let through.
Accepted(h) ==
  /\ h \in Intent /\ check_invariants(h) /\ h.bond.members = NS_NIC_NAMES
  /\ IsFiniteSet(h.ns_nics) /\ IsFiniteSet(h.vlans)
  /\ IsFiniteSet(h.roce_underlays) /\ IsFiniteSet(h.ib_underlays)

\* The links of a stanza: it has come to effect, or it has not.
OwnLink(x)      == [name |-> x.name, up |-> TRUE, mtu |-> x.mtu, addr |-> {x.address}]
BondLink(h)     == [name |-> h.bond.name, up |-> TRUE, mtu |-> h.bond.mtu, addr |-> {}]
OtherLink(n, x) == [name |-> x.name, up |-> n.rest = "bare", mtu |-> 2044, addr |-> {}]

\* What the script finds that a gating check reads, but for the links.
LEMMA FoundFields ==
  ASSUME NEW h, NEW n, NEW around \in Surroundings, NEW s, s = Found(h, n, around)
  PROVE  /\ s.status = around.status
         /\ s.netplan = n.written
         /\ "cloud-init" \in s.tools
         /\ "ip" \in s.tools <=> around.ip
         /\ "lsmod" \in s.tools <=> around.lsmod
         /\ {"mlx5_ib", "ib_ipoib"} \subseteq s.modules <=> around.stack
         /\ \A v \in h.vlans : v.name \in n.up /\ v.gateway # None => v.name \in s.routes
<1>1. /\ s.status = around.status
      /\ s.netplan = n.written
      /\ s.tools = {"cloud-init"}
                     \cup (IF around.ip THEN {"ip"} ELSE {})
                     \cup (IF around.lsmod THEN {"lsmod"} ELSE {})
                     \cup (IF around.stack THEN {"ibstat", "ibv_devinfo"} ELSE {})
      /\ s.modules = IF around.stack THEN {"mlx5_ib", "ib_ipoib"} ELSE {}
      /\ s.routes = (IF around.oob THEN {"oob"} ELSE {})
                     \cup {v.name : v \in {v \in h.vlans : v.name \in n.up /\ v.gateway # None}}
  BY DEF Found
<1>2. around.ip \in BOOLEAN /\ around.lsmod \in BOOLEAN /\ around.stack \in BOOLEAN
  BY DEF Surroundings
<1>3. "ip" \in s.tools <=> around.ip
  BY <1>1, <1>2
<1>4. "lsmod" \in s.tools <=> around.lsmod
  BY <1>1, <1>2
<1>5. {"mlx5_ib", "ib_ipoib"} \subseteq s.modules <=> around.stack
  BY <1>1, <1>2
<1>6. \A v \in h.vlans : v.name \in n.up /\ v.gateway # None => v.name \in s.routes
  BY <1>1
<1> QED BY <1>1, <1>3, <1>4, <1>5, <1>6

\* The links the script finds.
LEMMA FoundLinks ==
  ASSUME NEW h, NEW n, NEW around \in Surroundings, NEW s, s = Found(h, n, around)
  PROVE  \A l : l \in s.links <=>
           \/ h.bond.name \in n.up /\ l = BondLink(h)
           \/ \E x \in Addressed(h) : x.name \in n.up /\ l = OwnLink(x)
           \/ \E x \in Stanzas(h) :
                x.name \notin n.up /\ n.rest # "absent" /\ l = OtherLink(n, x)
<1>1. s.links = (IF h.bond.name \in n.up THEN {BondLink(h)} ELSE {})
                  \cup {OwnLink(x) : x \in {x \in Addressed(h) : x.name \in n.up}}
                  \cup {OtherLink(n, x) :
                          x \in {x \in Stanzas(h) : x.name \notin n.up /\ n.rest # "absent"}}
  BY DEF Found, OwnLink, BondLink, OtherLink
<1> QED BY <1>1

\* A link with an address is that of a stanza that has come to effect.
LEMMA AddressedLinks ==
  ASSUME NEW h, NEW n, NEW around \in Surroundings, NEW s, s = Found(h, n, around)
  PROVE  /\ \A l \in s.links : l.addr # {} =>
              \E x \in Addressed(h) : x.name \in n.up /\ l = OwnLink(x)
         /\ \A x \in Addressed(h) : x.name \in n.up => OwnLink(x) \in s.links
         /\ \A x : /\ OwnLink(x).name = x.name /\ OwnLink(x).up
                   /\ OwnLink(x).mtu = x.mtu /\ OwnLink(x).addr = {x.address}
<1>1. /\ \A x : /\ OwnLink(x).name = x.name /\ OwnLink(x).up
                /\ OwnLink(x).mtu = x.mtu /\ OwnLink(x).addr = {x.address}
      /\ BondLink(h).addr = {}
  BY DEF OwnLink, BondLink
<1>2. \A x : OtherLink(n, x).addr = {}
  BY DEF OtherLink
<1>3. ASSUME NEW l \in s.links, l.addr # {}
      PROVE  \E x \in Addressed(h) : x.name \in n.up /\ l = OwnLink(x)
  <2>1. l # BondLink(h)
    BY <1>1, <1>3
  <2>2. \A x : l # OtherLink(n, x)
    BY <1>2, <1>3
  <2> QED BY <2>1, <2>2, FoundLinks
<1>4. \A x \in Addressed(h) : x.name \in n.up => OwnLink(x) \in s.links
  BY FoundLinks
<1> QED BY <1>1, <1>3, <1>4

\* A verdict is OK unless one of the eight checks that can fail does (summarize, main).
LEMMA OnlyFailuresGate ==
  ASSUME NEW s, NEW cfg
  PROVE  exit_code(run_all(s, cfg)) = 0 <=>
           /\ check_cloud_init(s, cfg) # "FAIL"
           /\ check_netplan_config(s, cfg) # "FAIL"
           /\ check_bond_up(s, cfg) # "FAIL"
           /\ check_bond_lacp(s, cfg) # "FAIL"
           /\ check_vlans(s, cfg) # "FAIL"
           /\ check_default_route(s, cfg) # "FAIL"
           /\ check_ipoib_rails(s, cfg) # "FAIL"
           /\ check_ib_modules(s, cfg) # "FAIL"
<1> DEFINE R == run_all(s, cfg)
<1>1. /\ check_no_soft_roce(s, cfg) # "FAIL" /\ check_ib_ports(s, cfg) # "FAIL"
      /\ check_verbs_devices(s, cfg) # "FAIL" /\ check_memlock(s, cfg) # "FAIL"
  BY DEF check_no_soft_roce, check_ib_ports, check_verbs_devices, check_memlock
<1>2. /\ DOMAIN R = 1 .. 12
      /\ R[1] = check_cloud_init(s, cfg) /\ R[2] = check_netplan_config(s, cfg)
      /\ R[3] = check_bond_up(s, cfg) /\ R[4] = check_bond_lacp(s, cfg)
      /\ R[5] = check_vlans(s, cfg) /\ R[6] = check_default_route(s, cfg)
      /\ R[7] = check_ipoib_rails(s, cfg) /\ R[8] = check_ib_modules(s, cfg)
      /\ R[9] = check_no_soft_roce(s, cfg) /\ R[10] = check_ib_ports(s, cfg)
      /\ R[11] = check_verbs_devices(s, cfg) /\ R[12] = check_memlock(s, cfg)
  BY DEF run_all
<1> HIDE DEF R
<1>3. exit_code(R) = 0 <=> \A i \in 1 .. 12 : R[i] # "FAIL"
  BY <1>2 DEF exit_code
<1> QED BY <1>1, <1>2, <1>3 DEF R

\* The three VLANs of an accepted intent, and what their names are not.
LEMMA AcceptedParts ==
  ASSUME NEW h, Accepted(h), h.role = "gpu-h200"
  PROVE  /\ Cardinality(h.vlans) = 3 /\ h.roce_underlays = {}
         /\ Cardinality(h.ib_underlays) = UnderlayCount
         /\ \A v, w \in h.vlans : v.name = w.name => v = w
         /\ \A v \in h.vlans : v.name \in VlanNames
         /\ \A x \in h.ib_underlays : x.name \in IbNames
         /\ \E v \in h.vlans : v.role = "mgmt" /\ v.gateway # None
         /\ h.bond.members # {} /\ h.bond.name = BOND_NAME
<1>1. h \in Intent /\ check_invariants(h) /\ IsFiniteSet(h.vlans)
  BY DEF Accepted
<1>0. /\ check_ns_nic_count(h) /\ check_vlan_roles_complete(h) /\ check_unique_names(h)
      /\ check_roce_count_for_role(h) /\ check_ib_count_for_role(h)
  BY <1>1 DEF check_invariants
<1>2. Cardinality(h.vlans) = 3
  <2>1. \A v \in h.vlans : v.role \in VlanRoles
    BY <1>1 DEF Intent, VlanChild
  <2>2. \A r \in VlanRoles : Cardinality({v \in h.vlans : v.role = r}) = 1
    BY <1>0 DEF check_vlan_roles_complete
  <2> QED BY <1>1, <2>1, <2>2, RolesExact
<1>3. h.roce_underlays = {} /\ Cardinality(h.ib_underlays) = UnderlayCount
  <2>1. "gpu-h200" \in Roles
    BY DEF Roles
  <2>2. Cardinality(h.roce_underlays) = 0 /\ Cardinality(h.ib_underlays) = UnderlayCount
    BY <1>0, <1>1, <2>1 DEF check_roce_count_for_role, check_ib_count_for_role,
                            ROCE_COUNT_BY_ROLE, IB_COUNT_BY_ROLE
  <2> QED BY <2>2, FS_EmptySet DEF Accepted
<1>4. \A v, w \in h.vlans : v.name = w.name => v = w
  BY <1>0 DEF check_unique_names, Addressed
<1>5. /\ \A v \in h.vlans : v.name \in VlanNames
      /\ \A x \in h.ib_underlays : x.name \in IbNames
      /\ h.bond.name = BOND_NAME
  BY <1>1 DEF Intent, VlanChild, InfinibandUnderlay, Bond
<1>6. \E v \in h.vlans : v.role = "mgmt" /\ v.gateway # None
  <2>1. Bootable(h)
    BY <1>1, ValidatorsSuffice DEF Accepted
  <2> QED BY <2>1 DEF Bootable
<1>7. h.bond.members # {}
  BY DEF Accepted, NS_NIC_NAMES
<1> QED BY <1>2, <1>3, <1>4, <1>5, <1>6, <1>7

\* check_vlans passes exactly when every VLAN of the intent has come to effect.
LEMMA VlansChecked ==
  ASSUME NEW h, Accepted(h), h.role = "gpu-h200", NEW n, NEW around \in Surroundings,
         NEW s, s = Found(h, n, around)
  PROVE  check_vlans(s, DefaultConfig) # "FAIL" <=>
           around.ip /\ \A v \in h.vlans : v.name \in n.up
<1> DEFINE M == {v \in h.vlans : v.name \in n.up}
           W == {l \in ip_addr(s) : l.name \in VlanNames /\ l.up /\ l.addr # {}}
           f == [v \in M |-> OwnLink(v)]
<1>1. check_vlans(s, DefaultConfig) # "FAIL" <=> Cardinality(W) = 3
  BY DEF check_vlans, DefaultConfig
<1>2. /\ \A v \in h.vlans : v.name \in VlanNames
      /\ \A x \in Addressed(h) : x.name \in VlanNames => x \in h.vlans
      /\ h.vlans \subseteq Addressed(h)
  <2>1. Addressed(h) = h.vlans \cup h.ib_underlays
    BY AcceptedParts DEF Addressed
  <2> QED BY <2>1, AcceptedParts, ConstantsAssumption
<1>3. \A l : l \in ip_addr(s) <=> around.ip /\ l \in s.links
  BY FoundFields DEF ip_addr
<1>4. \A l : l \in W <=> around.ip /\ \E v \in M : l = OwnLink(v)
  <2>0. \A l \in s.links : l.addr # {} =>
          \E x \in Addressed(h) : x.name \in n.up /\ l = OwnLink(x)
    BY AddressedLinks
  <2>1. ASSUME NEW l \in W PROVE around.ip /\ \E v \in M : l = OwnLink(v)
    <3>1. around.ip /\ l \in s.links /\ l.name \in VlanNames /\ l.addr # {}
      BY <1>3, <2>1
    <3>2. PICK x \in Addressed(h) : x.name \in n.up /\ l = OwnLink(x)
      BY <2>0, <3>1
    <3>3. x.name \in VlanNames
      BY <3>1, <3>2, AddressedLinks
    <3> QED BY <1>2, <3>1, <3>2, <3>3
  <2>2. ASSUME around.ip, NEW v \in M PROVE OwnLink(v) \in W
    <3> DEFINE l == OwnLink(v)
    <3>1. l \in s.links
      BY <1>2, AddressedLinks
    <3>2. l.name = v.name /\ l.up /\ l.addr = {v.address}
      BY AddressedLinks
    <3> HIDE DEF l
    <3>3. l \in W
      BY <1>2, <1>3, <2>2, <3>1, <3>2
    <3> QED BY <3>3 DEF l
  <2> QED BY <2>1, <2>2
<1>5. around.ip \in BOOLEAN
  BY DEF Surroundings
<1> HIDE DEF W
<1>6. CASE ~around.ip
  <2>1. W = {}
    BY <1>4, <1>6
  <2> QED BY <1>1, <1>6, <2>1, FS_EmptySet
<1>7. CASE around.ip
  <2>1. f \in [M -> W] /\ \A v \in M : f[v] = OwnLink(v)
    BY <1>4, <1>7
  <2>2. \A v \in M : OwnLink(v).name = v.name
    BY AddressedLinks
  <2>3. IsFiniteSet(h.vlans) /\ M \in SUBSET h.vlans /\ Cardinality(h.vlans) = 3
    BY AcceptedParts DEF Accepted
  <2>4. /\ IsFiniteSet(M)
        /\ Cardinality(M) = 3 <=> M = h.vlans
    BY <2>3, FS_Subset
  <2>5. \A v, w \in M : v.name = w.name => v = w
    BY AcceptedParts
  <2>6. M = h.vlans <=> \A v \in h.vlans : v.name \in n.up
    OBVIOUS
  <2> HIDE DEF f, M
  <2>7. f \in Bijection(M, W)
    <3>1. ASSUME NEW v \in M, NEW w \in M, f[v] = f[w] PROVE v = w
      <4>1. OwnLink(v) = OwnLink(w)
        BY <2>1, <3>1
      <4>2. v.name = w.name
        BY <2>2, <4>1
      <4> QED BY <2>5, <4>2
    <3>2. \A l \in W : \E v \in M : f[v] = l
      BY <1>4, <2>1
    <3> QED BY <2>1, <3>1, <3>2 DEF Bijection, Injection, Surjection, IsInjective
  <2>8. Cardinality(W) = Cardinality(M)
    <3>1. ExistsBijection(M, W)
      BY <2>7 DEF ExistsBijection
    <3> QED BY <2>4, <3>1, FS_Bijection
  <2> QED BY <1>1, <1>7, <2>4, <2>6, <2>8
<1> QED BY <1>5, <1>6, <1>7

\* The names of the rails the script asks for differ, and are neither VLANs nor the bond.
LEMMA RailsDiffer ==
  /\ \A i, j \in 1 .. UnderlayCount : RailNames[i] = RailNames[j] => i = j
  /\ \A i \in 1 .. UnderlayCount : RailNames[i] \notin VlanNames /\ RailNames[i] # BOND_NAME
<1>1. \A i, j \in 1 .. 8 : RailNames[i] = RailNames[j] => i = j
  BY DEF RailNames
<1>2. \A i \in 1 .. 8 : RailNames[i] # BOND_NAME
  BY DEF RailNames, BOND_NAME
<1>3. \A i \in 1 .. UnderlayCount : i \in 1 .. 8
  BY RailsAssumption
<1> QED BY <1>1, <1>2, <1>3, RailsAssumption

\* Every rail the script asks for is one of the intent, with its MTU, exactly when the
\* intent has those rails and no other: there are as many of the one as of the other.
LEMMA RailsCounted ==
  ASSUME NEW h, Accepted(h), h.role = "gpu-h200"
  PROVE  (\A i \in 1 .. UnderlayCount :
            \E x \in h.ib_underlays : x.name = RailNames[i] /\ x.mtu = 2044)
           <=> AsConfigured(h, DefaultConfig)
<1> DEFINE I == 1 .. UnderlayCount
           X == h.ib_underlays
           EachRail == \A i \in I : \E x \in X : x.name = RailNames[i] /\ x.mtu = 2044
<1>1. AsConfigured(h, DefaultConfig) <=>
        /\ {x.name : x \in X} = {RailNames[i] : i \in I}
        /\ \A x \in X : x.mtu = 2044
  BY DEF AsConfigured, DefaultConfig
<1>2. ASSUME {x.name : x \in X} = {RailNames[i] : i \in I}, \A x \in X : x.mtu = 2044
      PROVE  EachRail
  <2>1. ASSUME NEW i \in I PROVE \E x \in X : x.name = RailNames[i]
    <3>1. RailNames[i] \in {x.name : x \in X}
      BY <1>2
    <3> QED BY <3>1
  <2> QED BY <1>2, <2>1
<1>3. ASSUME EachRail
      PROVE  {x.name : x \in X} = {RailNames[i] : i \in I} /\ \A x \in X : x.mtu = 2044
  <2> DEFINE g == [i \in I |-> CHOOSE x \in X : x.name = RailNames[i] /\ x.mtu = 2044]
  <2>1. \A i \in I : g[i] \in X /\ g[i].name = RailNames[i] /\ g[i].mtu = 2044
    BY <1>3
  <2>2. g \in [I -> X]
    BY <2>1
  <2> HIDE DEF g, I, X
  <2>3. \A i, j \in I : g[i] = g[j] => i = j
    BY <2>1, RailsDiffer DEF I
  <2>4. g \in Injection(I, X)
    BY <2>2, <2>3 DEF Injection, IsInjective
  <2>5. IsFiniteSet(X) /\ Cardinality(X) = UnderlayCount
    BY AcceptedParts DEF X, Accepted
  <2>6. Cardinality(I) = UnderlayCount
    <3>1. 1 \in Int /\ UnderlayCount \in Int /\ ~(1 > UnderlayCount)
      BY RailsAssumption
    <3>2. UnderlayCount - 1 + 1 = UnderlayCount
      BY <3>1
    <3> QED BY <3>1, <3>2, FS_Interval DEF I
  <2>7. g \in Surjection(I, X)
    BY <2>4, <2>5, <2>6, FS_Injection
  <2>8. \A x \in X : \E i \in I : g[i] = x
    BY <2>7 DEF Surjection
  <2>9. {x.name : x \in X} \subseteq {RailNames[i] : i \in I}
    BY <2>1, <2>8
  <2>10. {RailNames[i] : i \in I} \subseteq {x.name : x \in X}
    BY <2>1
  <2> QED BY <2>1, <2>8, <2>9, <2>10
<1> QED BY <1>1, <1>2, <1>3

\* check_ipoib_rails passes exactly when the intent has the rails it asks for and all of
\* them have come to effect.
LEMMA RailsChecked ==
  ASSUME NEW h, Accepted(h), h.role = "gpu-h200", NEW n, NEW around \in Surroundings,
         NEW s, s = Found(h, n, around)
  PROVE  check_ipoib_rails(s, DefaultConfig) # "FAIL" <=>
           /\ around.ip /\ AsConfigured(h, DefaultConfig)
           /\ \A x \in h.ib_underlays : x.name \in n.up
<1> DEFINE I == 1 .. UnderlayCount
           Good(l) == l.up /\ l.addr # {} /\ l.mtu = 2044
           Has(i) == \E x \in h.ib_underlays : x.name = RailNames[i] /\ x.mtu = 2044
           On(i) == RailNames[i] \in n.up
<1>1. check_ipoib_rails(s, DefaultConfig) # "FAIL" <=>
        \A i \in I : \E l \in ip_addr(s) : l.name = RailNames[i] /\ Good(l)
  BY DEF check_ipoib_rails, DefaultConfig, iface
<1>2. \A l : l \in ip_addr(s) <=> around.ip /\ l \in s.links
  BY FoundFields DEF ip_addr
<1>3. Addressed(h) = h.vlans \cup h.ib_underlays
  BY AcceptedParts DEF Addressed
<1>0. \A l \in s.links : l.addr # {} =>
        \E x \in Addressed(h) : x.name \in n.up /\ l = OwnLink(x)
  BY AddressedLinks
<1>4. ASSUME NEW i \in I, NEW l \in ip_addr(s), l.name = RailNames[i], Good(l)
      PROVE  around.ip /\ Has(i) /\ On(i)
  <2>1. l \in s.links /\ around.ip /\ l.addr # {} /\ l.mtu = 2044
    BY <1>2, <1>4
  <2>2. PICK x \in Addressed(h) : x.name \in n.up /\ l = OwnLink(x)
    BY <1>0, <2>1
  <2>3. l.name = x.name /\ l.mtu = x.mtu
    BY <2>2, AddressedLinks
  <2>4. x \in h.ib_underlays
    <3>1. RailNames[i] \notin VlanNames
      BY RailsDiffer
    <3> HIDE DEF Good
    <3>2. x.name \notin VlanNames
      BY <1>4, <2>3, <3>1
    <3> QED BY <1>3, <3>2, AcceptedParts
  <2> QED BY <1>4, <2>1, <2>2, <2>3, <2>4
<1>5. ASSUME NEW i \in I, around.ip, Has(i), On(i)
      PROVE  \E l \in ip_addr(s) : l.name = RailNames[i] /\ Good(l)
  <2>1. PICK x \in h.ib_underlays : x.name = RailNames[i] /\ x.mtu = 2044
    BY <1>5
  <2> DEFINE l == OwnLink(x)
  <2>2. l \in s.links
    BY <1>3, <1>5, <2>1, AddressedLinks
  <2>3. l.name = x.name /\ l.up /\ l.mtu = x.mtu /\ l.addr = {x.address}
    BY AddressedLinks
  <2> HIDE DEF l
  <2> QED BY <1>2, <1>5, <2>1, <2>2, <2>3
<1>6. 1 \in I
  BY RailsAssumption
<1>7. AsConfigured(h, DefaultConfig) <=> \A i \in I : Has(i)
  BY RailsCounted
<1>8. AsConfigured(h, DefaultConfig) =>
        ((\A i \in I : On(i)) <=> \A x \in h.ib_underlays : x.name \in n.up)
  <2> SUFFICES ASSUME {x.name : x \in h.ib_underlays} = {RailNames[i] : i \in I}
               PROVE  (\A i \in I : On(i)) <=> \A x \in h.ib_underlays : x.name \in n.up
    BY DEF AsConfigured, DefaultConfig
  <2>1. (\A i \in I : On(i)) <=> {RailNames[i] : i \in I} \subseteq n.up
    OBVIOUS
  <2>2. (\A x \in h.ib_underlays : x.name \in n.up)
          <=> {x.name : x \in h.ib_underlays} \subseteq n.up
    OBVIOUS
  <2> QED BY <2>1, <2>2
<1> HIDE DEF Has, I, Good, On
<1>9. check_ipoib_rails(s, DefaultConfig) # "FAIL" <=>
        around.ip /\ (\A i \in I : Has(i)) /\ \A i \in I : On(i)
  BY <1>1, <1>4, <1>5, <1>6
<1> QED BY <1>7, <1>8, <1>9

\* A host has the network of its intent exactly when every VLAN and every rail has come to
\* effect.
LEMMA NetworkedExact ==
  ASSUME NEW h, Accepted(h), h.role = "gpu-h200", NEW n, NEW around \in Surroundings,
         NEW s, s = Found(h, n, around)
  PROVE  Networked(h, s) <=>
           /\ \A v \in h.vlans : v.name \in n.up
           /\ \A x \in h.ib_underlays : x.name \in n.up
<1> DEFINE On(x) == \E l \in s.links : l.name = x.name /\ l.up /\ x.address \in l.addr
<1>0. \A l \in s.links : l.addr # {} =>
        \E y \in Addressed(h) : y.name \in n.up /\ l = OwnLink(y)
  BY AddressedLinks
<1>1. ASSUME NEW x \in Addressed(h) PROVE On(x) <=> x.name \in n.up
  <2>1. ASSUME On(x) PROVE x.name \in n.up
    <3>1. PICK l \in s.links : l.name = x.name /\ x.address \in l.addr
      BY <2>1
    <3>2. l.addr # {}
      BY <3>1
    <3>3. PICK y \in Addressed(h) : y.name \in n.up /\ l = OwnLink(y)
      BY <1>0, <3>1, <3>2
    <3>4. l.name = y.name
      BY <3>3, AddressedLinks
    <3> QED BY <3>1, <3>3, <3>4
  <2>2. ASSUME x.name \in n.up PROVE On(x)
    <3> DEFINE l == OwnLink(x)
    <3>1. l \in s.links /\ l.name = x.name /\ l.up /\ l.addr = {x.address}
      BY <2>2, AddressedLinks
    <3> HIDE DEF l
    <3> QED BY <3>1
  <2> QED BY <2>1, <2>2
<1>2. Addressed(h) = h.vlans \cup h.ib_underlays
  BY AcceptedParts DEF Addressed
<1>3. PICK m \in h.vlans : m.role = "mgmt" /\ m.gateway # None
  BY AcceptedParts
<1>4. m.name \in n.up => m.name \in s.routes
  BY <1>3, FoundFields
<1>5. Networked(h, s) <=>
         /\ \A x \in Addressed(h) : On(x)
         /\ \E v \in h.vlans : v.role = "mgmt" /\ v.name \in s.routes
  BY DEF Networked
<1> HIDE DEF On
<1> QED BY <1>1, <1>2, <1>3, <1>4, <1>5

\* The script says OK of a host exactly when the host has the network of the intent.
LEMMA VerdictIsExact ==
  ASSUME NEW h, Accepted(h), h.role = "gpu-h200"
  PROVE  VerdictExact(h)
<1> SUFFICES ASSUME NEW n \in Networks(h), NEW around \in Surroundings
             PROVE  exit_code(run_all(Found(h, n, around), DefaultConfig)) = 0 <=>
                      /\ Networked(h, Found(h, n, around)) /\ AsConfigured(h, DefaultConfig)
                      /\ around.ip /\ around.status # "error"
                      /\ around.lsmod => around.stack
  BY DEF VerdictExact
<1> DEFINE s == Found(h, n, around)
           c == DefaultConfig
           Vlans == \A v \in h.vlans : v.name \in n.up
           Rails == \A x \in h.ib_underlays : x.name \in n.up
<1>1. Networked(h, s) <=> Vlans /\ Rails
  BY NetworkedExact
<1>2. check_vlans(s, c) # "FAIL" <=> around.ip /\ Vlans
  BY VlansChecked
<1>3. check_ipoib_rails(s, c) # "FAIL" <=> around.ip /\ AsConfigured(h, c) /\ Rails
  BY RailsChecked
<1>4. check_cloud_init(s, c) # "FAIL" <=> around.status # "error"
  <2>1. s.status = around.status /\ "cloud-init" \in s.tools
    BY FoundFields
  <2> QED BY <2>1 DEF check_cloud_init
<1>5. PICK m \in h.vlans : m.gateway # None
  BY AcceptedParts
<1>6. Vlans => m.name \in n.up /\ n.written /\ h.bond.name \in n.up
  BY DEF Networks
<1>7. Vlans => check_netplan_config(s, c) # "FAIL"
  <2>1. s.netplan = n.written
    BY FoundFields
  <2> QED BY <1>6, <2>1 DEF check_netplan_config
<1>8. Vlans => \E l \in s.links : l.name = c.bond_name /\ l.up
  <2> DEFINE l == BondLink(h)
  <2>1. l.name = h.bond.name /\ l.up
    BY DEF BondLink
  <2>2. h.bond.name = c.bond_name
    BY AcceptedParts DEF DefaultConfig
  <2>3. Vlans => l \in s.links
    BY <1>6, FoundLinks
  <2> HIDE DEF l
  <2> QED BY <2>1, <2>2, <2>3
<1>9. Vlans => check_bond_lacp(s, c) # "FAIL"
  BY <1>8 DEF check_bond_lacp
<1>10. \A l : l \in ip_addr(s) <=> around.ip /\ l \in s.links
  BY FoundFields DEF ip_addr
<1>11. around.ip /\ Vlans => check_bond_up(s, c) # "FAIL"
  BY <1>8, <1>10 DEF check_bond_up, iface
<1>12. around.ip /\ Vlans => check_default_route(s, c) # "FAIL"
  <2>1. "ip" \in s.tools <=> around.ip
    BY FoundFields
  <2>2. Vlans => s.routes # {}
    BY <1>5, <1>6, FoundFields
  <2> QED BY <2>1, <2>2 DEF check_default_route
<1>13. check_ib_modules(s, c) # "FAIL" <=> (around.lsmod => around.stack)
  <2>1. /\ "lsmod" \in s.tools <=> around.lsmod
        /\ {"mlx5_ib", "ib_ipoib"} \subseteq s.modules <=> around.stack
    BY FoundFields
  <2> QED BY <2>1 DEF check_ib_modules
<1> HIDE DEF s, c, Vlans, Rails
<1> QED BY <1>1, <1>2, <1>3, <1>4, <1>7, <1>9, <1>11, <1>12, <1>13, OnlyFailuresGate DEF s, c

\* A body is what the loader built and the validators let through.
BodiesAccepted == \A r \in Requests : body[r] # None => Accepted(body[r])

\* It stays so, however Netbox is edited.
LEMMA ServedAccepted == Spec => []BodiesAccepted
<1>1. Init => BodiesAccepted
  BY DEF Init, BodiesAccepted
<1>2. IInv /\ BodiesAccepted /\ [Next]_vars => BodiesAccepted'
  <2> SUFFICES ASSUME IInv, BodiesAccepted, [Next]_vars, NEW q \in Requests, body'[q] # None
               PROVE  Accepted(body'[q])
    BY DEF BodiesAccepted
  <2>1. CASE body'[q] = body[q]
    BY <2>1 DEF BodiesAccepted
  <2>2. CASE body'[q] # body[q]
    <3>1. Next
      BY <2>2 DEF vars, reqVars
    <3> DEFINE h == LoadedIntent(load)
    <3>2. body'[q] = h /\ load.phase = "addresses" /\ check_invariants(h)
      BY <2>2, <3>1, BodySource
    <3>3. h \in Intent
      BY <3>2, LoadedTyped DEF IInv, TypeOK
    <3>4. /\ IsFiniteSet(h.vlans) /\ IsFiniteSet(h.roce_underlays)
          /\ IsFiniteSet(h.ib_underlays)
      BY DEF IInv, LoadInv, LoadedIntent
    <3>5. h.ns_nics = build_ns_nics(load.ifaces) /\ h.bond = build_bond(load.ifaces, h.ns_nics)
      BY DEF LoadedIntent
    <3>6. h.bond.members = NS_NIC_NAMES
      <4>1. h.bond.members = {m.name : m \in h.ns_nics}
        BY <3>5 DEF build_bond
      <4> DEFINE nic(n) == [name |-> n, mtu |-> read_mtu(load.ifaces[n], 9000)]
      <4>2. h.ns_nics = {nic(n) : n \in NS_NIC_NAMES}
        BY <3>5 DEF build_ns_nics
      <4>3. \A n \in NS_NIC_NAMES : nic(n).name = n
        OBVIOUS
      <4> HIDE DEF nic
      <4>4. /\ \A m \in h.ns_nics : m.name \in NS_NIC_NAMES
            /\ \A n \in NS_NIC_NAMES : \E m \in h.ns_nics : m.name = n
        BY <4>2, <4>3
      <4> HIDE DEF h
      <4> QED BY <4>1, <4>4
    <3>7. IsFiniteSet(h.ns_nics)
      <4> DEFINE nic(n) == [name |-> n, mtu |-> read_mtu(load.ifaces[n], 9000)]
      <4>1. h.ns_nics = {nic("nsa")} \cup {nic("nsb")}
        BY <3>5 DEF build_ns_nics, NS_NIC_NAMES
      <4> HIDE DEF nic
      <4>2. IsFiniteSet({nic("nsa")})
        BY FS_Singleton
      <4>3. IsFiniteSet({nic("nsa")} \cup {nic("nsb")})
        BY <4>2, FS_AddElement
      <4> QED BY <4>1, <4>3
    <3> HIDE DEF h
    <3> QED BY <3>2, <3>3, <3>4, <3>6, <3>7 DEF Accepted
  <2> QED BY <2>1, <2>2
<1> QED BY <1>1, <1>2, Inductive, PTL DEF Spec

\* However Netbox is edited between the queries of a load, validate_h200_host.py says OK of
\* a host that boots with what was served exactly when the host has the network Netbox meant,
\* whatever came of its stanzas: up, without a carrier, not there or not matched.
THEOREM VerdictsAreExact == Spec => []ServedHostValidates
<1>1. BodiesAccepted => ServedHostValidates
  BY VerdictIsExact DEF BodiesAccepted, ServedHostValidates
<1> QED BY <1>1, ServedAccepted, PTL

\* An accepted intent is one the emitter can put into order.
LEMMA AcceptedRenders ==
  ASSUME NEW h, Accepted(h)
  PROVE  Renders(h)
<1>1. h \in Intent /\ check_unique_names(h) /\ h.bond.members = NS_NIC_NAMES
  BY DEF Accepted, check_invariants
<1>2. /\ \A x \in h.ns_nics \cup h.roce_underlays \cup h.ib_underlays : x.name \in Names
      /\ \A v \in h.vlans : v.vlan_id \in Nat
  <2>1. /\ h.ns_nics \subseteq BondMember /\ h.roce_underlays \subseteq RoceUnderlay
        /\ h.ib_underlays \subseteq InfinibandUnderlay /\ h.vlans \subseteq VlanChild
    BY <1>1 DEF Intent
  <2>2. \A x \in BondMember : x.name \in Names
    BY DEF BondMember, Names
  <2>3. \A x \in RoceUnderlay : x.name \in Names
    BY DEF RoceUnderlay, Names
  <2>4. \A x \in InfinibandUnderlay : x.name \in Names
    BY DEF InfinibandUnderlay, Names
  <2>5. \A v \in VlanChild : v.vlan_id \in Nat
    <3>1. MIN_VLAN_ID .. MAX_VLAN_ID \subseteq Nat
      BY DEF MIN_VLAN_ID, MAX_VLAN_ID
    <3>2. \A v \in VlanChild : v.vlan_id \in MIN_VLAN_ID .. MAX_VLAN_ID
      BY DEF VlanChild
    <3> QED BY <3>1, <3>2
  <2> QED BY <2>1, <2>2, <2>3, <2>4, <2>5
<1>3. \A x, y \in h.ns_nics \cup h.roce_underlays \cup h.ib_underlays : x.name = y.name => x = y
  BY <1>1 DEF check_unique_names, Addressed
<1>4. IsFiniteSet(h.bond.members) /\ h.bond.members \subseteq Names
  <2>1. NS_NIC_NAMES = {"nsa"} \cup {"nsb"}
    BY DEF NS_NIC_NAMES
  <2>2. IsFiniteSet({"nsa"})
    BY FS_Singleton
  <2>3. IsFiniteSet({"nsa"} \cup {"nsb"})
    BY <2>2, FS_AddElement
  <2> QED BY <1>1, <2>1, <2>3 DEF Names
<1> QED BY <1>2, <1>3, <1>4 DEF Renders, Accepted

\* However Netbox is edited between the queries of a load and in whatever order it lists the
\* interfaces, the same intent renders to the same bytes, if its VLAN ids differ.
THEOREM RendersAreDeterministic == Spec => []RenderDeterministic
<1>1. BodiesAccepted => RenderDeterministic
  BY AcceptedRenders, BytesAreDetermined DEF BodiesAccepted, RenderDeterministic
<1> QED BY <1>1, ServedAccepted, PTL
=============================================================================
