------------------------------- MODULE MCServed -------------------------------
(***************************************************************************)
(* A small instance of Served: the hosts of three roles, with two NICs per *)
(* fabric in place of eight, and a third gpu interface that Netbox may     *)
(* gain.  The edits are the ones that make a different check of the        *)
(* loader, of the validators or of the host's script decide, and the ones  *)
(* that move addresses around while they are being read.                   *)
(***************************************************************************)
EXTENDS MCRenderService, Served

srvAddrs == mcAddrs \cup {268}

srvInitialHosts ==
  {Host("cpu", {}), Host("gpu-b300", {"gpu0", "gpu1"}), Host("gpu-h200", {"ib0", "ib1"}),
   Host("gpu-h200", {"ib1", "ib2"})}

srvNewIfaces ==
  { <<"nsa", [Nic EXCEPT !.mac = FALSE]>>, <<"nsb", Absent(Nic)>>,
    <<"bond0", [Nic EXCEPT !.mtu = 1500]>>, <<"bond0", [Nic EXCEPT !.mtu = 9217]>>,
    <<"bond0.101", Child(101, "mgmt", 9000)>>, <<"bond0.101", Absent(Nic)>>,
    <<"bond0.101", [Nic EXCEPT !.vlan = None]>>,
    <<"bond0.102", Child(102, "mgmt", None)>>, <<"bond0.103", Child(103, "backup", None)>>,
    <<"bond0.103", Child(103, "ingress", 1400)>>,
    <<"gpu0", [Nic EXCEPT !.vfs = 129]>>, <<"gpu0", [Nic EXCEPT !.mac = FALSE]>>,
    <<"gpu2", Nic>>,
    <<"bond0.102", Child(101, "storage", 9000)>>, <<"ib1", [Nic EXCEPT !.mtu = 4092]>>,
    <<"ib2", Absent(Nic)>> }

srvNewIps ==
  { <<"bond0.101", {11}>>, <<"bond0.102", {10}>>, <<"bond0.102", {}>>,
    <<"bond0.103", {10, 266}>>, <<"gpu2", {10}>>, <<"gpu0", {V6}>>, <<"ib0", {11}>> }

srvNewSlugs == {"cpu", "router"}

srvNameRank ==
  LET order == <<"bond0", "bond0.101", "bond0.102", "bond0.103", "gpu0", "gpu1", "gpu2",
                 "ib0", "ib1", "ib2", "nsa", "nsb">>
  IN  [n \in Names |-> CHOOSE k \in DOMAIN order : order[k] = n]
=============================================================================
