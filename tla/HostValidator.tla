---------------------------- MODULE HostValidator ----------------------------
(***************************************************************************)
(* validate_h200_host.py, on a host that boots with a rendered user-data.  *)
(*                                                                         *)
(* The script only reads: it is a function of what its commands report.    *)
(* What they report is left as open as the host is: every stanza of the    *)
(* Netplan file may or may not have come to effect, whatever the cables,   *)
(* the fabric, the package mirror and the driver stack made of it, and     *)
(* nothing keeps an operator from running the script while cloud-init is   *)
(* still at work.                                                          *)
(***************************************************************************)
EXTENDS HostIntent

(***************************************************************************)
(* The host (external, from the gpu-h200 template).                        *)
(***************************************************************************)
Stanzas(h) == {h.bond} \cup Addressed(h)

\* What may have become of the Netplan file.  written: write_files is done.  up: the
\* stanzas whose link is up and has its address.  rest: what there is for the
\* others, no link, one without a carrier (for a rail, without a subnet manager),
\* or one that is up and was not configured: an IPoIB port has a 20-byte address,
\* which the template's match by MAC does not meet.  A VLAN that is up is on a bond
\* that is, and of VLANs with one id the kernel makes one.
Networks(h) ==
  {n \in [written : BOOLEAN, up : SUBSET {x.name : x \in Stanzas(h)},
          rest : {"absent", "down", "bare"}] :
     /\ ~n.written => n.up = {}
     /\ \A v, w \in h.vlans :
          v.name \in n.up /\ w.name \in n.up =>
            h.bond.name \in n.up /\ (v.vlan_id = w.vlan_id => v = w)}

\* stack: the InfiniBand modules and tools are there, from apt or from DOCA-OFED,
\* and lsmod lists them.  oob: the provisioning network's default route is still
\* there.  ip, lsmod: the commands work.  status: cloud-init's.
Surroundings ==
  [stack : BOOLEAN, oob : BOOLEAN, ip : BOOLEAN, lsmod : BOOLEAN,
   status : {"running", "done", "degraded", "error"}]

\* What the script's commands and files then say.
Found(h, n, around) ==
  LET On(x)        == x.name \in n.up
      Rest(x)      == ~On(x) /\ n.rest # "absent"
      Up(x, addr)  == [name |-> x.name, up |-> TRUE, mtu |-> x.mtu, addr |-> addr]
      Other(x)     == [name |-> x.name, up |-> n.rest = "bare", mtu |-> 2044, addr |-> {}]
      railsOn      == \A x \in h.ib_underlays : On(x)
  IN  [status  |-> around.status,
       netplan |-> n.written, limits |-> n.written,
       tools   |-> {"cloud-init"}
                     \cup (IF around.ip THEN {"ip"} ELSE {})
                     \cup (IF around.lsmod THEN {"lsmod"} ELSE {})
                     \cup (IF around.stack THEN {"ibstat", "ibv_devinfo"} ELSE {}),
       modules |-> IF around.stack THEN {"mlx5_ib", "ib_ipoib"} ELSE {},
       ports   |-> IF ~around.stack THEN "none" ELSE IF railsOn THEN "active" ELSE "initializing",
       members |-> IF On(h.bond) THEN h.bond.members ELSE {},
       links   |-> {Up(x, {}) : x \in {x \in {h.bond} : On(x)}}
                     \cup {Up(x, {x.address}) : x \in {x \in Addressed(h) : On(x)}}
                     \cup {Other(x) : x \in {x \in Stanzas(h) : Rest(x)}},
       routes  |-> (IF around.oob THEN {"oob"} ELSE {})
                     \cup {v.name : v \in {v \in h.vlans : On(v) /\ v.gateway # None}}]

-----------------------------------------------------------------------------
(***************************************************************************)
(* The checks.  s is the host, cfg the script's Config.                    *)
(***************************************************************************)
RailNames == <<"ib0", "ib1", "ib2", "ib3", "ib4", "ib5", "ib6", "ib7">>

\* A GPU host has rails, at most the eight the script knows, and none is named like a VLAN.
ASSUME RailsAssumption ==
  /\ UnderlayCount \in 1 .. 8
  /\ \A i \in 1 .. UnderlayCount : RailNames[i] \notin VlanNames

\* `ip -j addr', or nothing if it fails.
ip_addr(s)  == IF "ip" \in s.tools THEN s.links ELSE {}
iface(s, n) == {l \in ip_addr(s) : l.name = n}

check_cloud_init(s, cfg) ==
  IF "cloud-init" \notin s.tools THEN "SKIP"
  ELSE IF s.status = "error"     THEN "FAIL"
  ELSE IF s.status = "done"      THEN "PASS" ELSE "WARN"

check_netplan_config(s, cfg) == IF s.netplan THEN "PASS" ELSE "FAIL"

check_bond_up(s, cfg) ==
  IF \E l \in iface(s, cfg.bond_name) : l.up THEN "PASS" ELSE "FAIL"

\* The mode is the template's; /proc/net/bonding is there with the bond.
check_bond_lacp(s, cfg) ==
  IF \A l \in s.links : l.name # cfg.bond_name THEN "FAIL"
  ELSE IF Cardinality(s.members) = 2 THEN "PASS" ELSE "WARN"

\* Faulty variant: one that is up is enough.
check_vlans_Any(s, cfg) ==
  IF \E l \in ip_addr(s) : l.name \in VlanNames /\ l.up /\ l.addr # {} THEN "PASS" ELSE "FAIL"
check_vlans(s, cfg) ==
  IF Cardinality({l \in ip_addr(s) : l.name \in VlanNames /\ l.up /\ l.addr # {}})
       = cfg.vlan_count
  THEN "PASS" ELSE "FAIL"

check_default_route(s, cfg) == IF "ip" \in s.tools /\ s.routes # {} THEN "PASS" ELSE "FAIL"

check_ipoib_rails(s, cfg) ==
  IF \A i \in 1 .. cfg.rails :
       \E l \in iface(s, RailNames[i]) : l.up /\ l.addr # {} /\ l.mtu = cfg.ipoib_mtu
  THEN "PASS" ELSE "FAIL"

check_ib_modules(s, cfg) ==
  IF "lsmod" \notin s.tools THEN "SKIP"
  ELSE IF {"mlx5_ib", "ib_ipoib"} \subseteq s.modules THEN "PASS" ELSE "FAIL"

check_no_soft_roce(s, cfg) ==
  IF "lsmod" \notin s.tools THEN "SKIP"
  ELSE IF "rdma_rxe" \in s.modules THEN "WARN" ELSE "PASS"

check_ib_ports(s, cfg) ==
  IF "ibstat" \notin s.tools THEN "SKIP"
  ELSE IF s.ports = "active" THEN "PASS" ELSE "WARN"

check_verbs_devices(s, cfg) ==
  IF "ibv_devinfo" \notin s.tools THEN "SKIP"
  ELSE IF s.ports = "none" THEN "WARN" ELSE "PASS"

\* Without the limits file, ulimit -l is the distribution's and not unlimited.
check_memlock(s, cfg) == IF s.limits THEN "PASS" ELSE "WARN"

run_all(s, cfg) ==
  << check_cloud_init(s, cfg), check_netplan_config(s, cfg), check_bond_up(s, cfg),
     check_bond_lacp(s, cfg), check_vlans(s, cfg), check_default_route(s, cfg),
     check_ipoib_rails(s, cfg), check_ib_modules(s, cfg), check_no_soft_roce(s, cfg),
     check_ib_ports(s, cfg), check_verbs_devices(s, cfg), check_memlock(s, cfg) >>

\* summarize, main: WARN and SKIP do not gate.
exit_code(results) == IF \E i \in DOMAIN results : results[i] = "FAIL" THEN 1 ELSE 0

\* The script's Config for a fleet with this many rails.
DefaultConfig == [rails |-> UnderlayCount, ipoib_mtu |-> 2044, vlan_count |-> 3,
                  bond_name |-> BOND_NAME]

-----------------------------------------------------------------------------
(***************************************************************************)
(* Reference definitions.                                                  *)
(***************************************************************************)

\* The host has the network the intent describes: every address on a link that
\* is up, and its way out over management.
Networked(h, s) ==
  /\ \A x \in Addressed(h) : \E l \in s.links : l.name = x.name /\ l.up /\ x.address \in l.addr
  /\ \E v \in h.vlans : v.role = "mgmt" /\ v.name \in s.routes

\* The naming and sizing the script is told to expect.
AsConfigured(h, cfg) ==
  /\ {x.name : x \in h.ib_underlays} = {RailNames[i] : i \in 1 .. cfg.rails}
  /\ \A x \in h.ib_underlays : x.mtu = cfg.ipoib_mtu

\* For a host that boots with this intent, whatever came of its network and whatever
\* surrounds it, the script's verdict is OK exactly when the host has the network of
\* the intent (as the script is told to expect it), the script can see it and the
\* modules behind it, and cloud-init reports no error.
VerdictExact(h) ==
  \A n \in Networks(h), around \in Surroundings :
    LET s == Found(h, n, around) IN
    exit_code(run_all(s, DefaultConfig)) = 0
      <=> /\ Networked(h, s) /\ AsConfigured(h, DefaultConfig)
          /\ around.ip /\ around.status # "error"
          /\ around.lsmod => around.stack
=============================================================================
