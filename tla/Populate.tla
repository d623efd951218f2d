------------------------------- MODULE Populate -------------------------------
(***************************************************************************)
(* populate: a host fixture is brought into Netbox, one object at a time,  *)
(* while the renderer may already be asked for the host.                   *)
(*                                                                         *)
(* A run may die at any request, with or without the request having taken  *)
(* effect, or stop at an object that somebody else keeps under the same    *)
(* key; the operator puts that right and runs it again.  Nobody else       *)
(* writes the host.  The renderer is RenderService, whose nb is what this  *)
(* module writes.                                                          *)
(*                                                                         *)
(* What populate ensures is a set of things <<kind, key>>.  Objects that   *)
(* the host shares with others (a site, a VLAN) are things like the rest.  *)
(***************************************************************************)
EXTENDS RenderService, Sequences

CONSTANTS
  Fixture,        \* the host as the fixture describes it, in Netbox's terms
  interfaces,     \* the names of its interfaces, in the fixture's order
  InitialForeign, \* sets of things whose keys somebody else's objects have
  MaxCrashes      \* bound on the runs that die

Keyless == "-"  \* the key of a thing a host has one of

\* The kinds whose existing object is compared with the fixture.
CheckedKinds == {"device_type", "vlan", "device", "mac_address", "ip_address"}

Each(k, names) == [i \in 1 .. Len(names) |-> <<k, names[i]>>]

\* The record and, next, the pointer to it, of an interface.
MacSteps(names) ==
  [i \in 1 .. 2 * Len(names) |->
     IF i % 2 = 1 THEN <<"mac_address", names[(i + 1) \div 2]>>
                  ELSE <<"primary_mac_assignment", names[i \div 2]>>]

\* _apply_one: what its loops come to, in order, passes 1 to 4 last ...
Plan ==
  <<<<"site", Keyless>>, <<"manufacturer", Keyless>>, <<"device_type", Keyless>>,
    <<"device_role", Keyless>>>>
  \o Each("vlan", interfaces)
  \o <<<<"device", Keyless>>>>
  \o Each("interface", interfaces)
  \o Each("lag_membership", <<"nsa", "nsb">>)
  \o Each("interface_parent", interfaces)
  \o MacSteps(interfaces)
  \o Each("ip_address", interfaces)

HasMac(n)     == Fixture.ifaces[n].mac
HasAddress(n) == Fixture.ips[n] # {}

\* ... and their conditions: spec.parent, iface_spec.mac, iface_spec.ip.
Applies(t) ==
  /\ t[1] \in {"vlan", "interface_parent"} => t[2] \in VlanNames
  /\ t[1] \in {"mac_address", "primary_mac_assignment"} => HasMac(t[2])
  /\ t[1] = "ip_address" => HasAddress(t[2])

Things == {t \in {Plan[i] : i \in 1 .. Len(Plan)} : Applies(t)}

ASSUME PopulateAssumption ==
  /\ Fixture \in Netbox /\ Fixture.device
  /\ interfaces \in Seq(Names)
  /\ {interfaces[i] : i \in 1 .. Len(interfaces)} = Present(Fixture.ifaces, Names)
  /\ \A n \in Names : ~Fixture.ifaces[n].present => ~HasMac(n) /\ ~HasAddress(n)
  /\ InitialForeign \subseteq SUBSET {t \in Things : t[1] \in CheckedKinds}
  /\ MaxCrashes \in Nat

VARIABLES
  have,    \* the things in Netbox as the fixture has them
  foreign, \* the things whose key is somebody else's
  run,     \* the operator's current or last run: where it is in Plan
  crashes  \* number of runs that died

popVars == <<have, foreign, run, crashes>>
allVars == <<vars, popVars>>

\* What the loader can see of the host.  MTU, VLAN and custom fields are in the
\* POST that creates an interface; a device of another hostname has none yet.
\* An untagged VLAN that the fixture's file does not list is left out of that POST
\* without a word: such an interface has no VLAN in Fixture either.
\* Faulty variant: the MTU is patched in after the address.
View_MtuAfterIp(things, others) ==
  [device |-> <<"device", Keyless>> \in things \cup others,
   slug   |-> Fixture.slug,
   ifaces |-> [n \in Names |->
     [Fixture.ifaces[n] EXCEPT !.present = <<"interface", n>> \in things,
                               !.mac = <<"primary_mac_assignment", n>> \in things,
                               !.mtu = IF <<"ip_address", n>> \in things THEN @ ELSE None]],
   ips    |-> [n \in Names |-> IF <<"ip_address", n>> \in things THEN Fixture.ips[n] ELSE {}]]
View(things, others) ==
  [device |-> <<"device", Keyless>> \in things \cup others,
   slug   |-> Fixture.slug,
   ifaces |-> [n \in Names |->
     [Fixture.ifaces[n] EXCEPT !.present = <<"interface", n>> \in things,
                               !.mac = <<"primary_mac_assignment", n>> \in things]],
   ips    |-> [n \in Names |-> IF <<"ip_address", n>> \in things THEN Fixture.ips[n] ELSE {}]]

PopulateInit ==
  /\ have = {} /\ foreign \in InitialForeign
  /\ run = [pc |-> "idle", i |-> 1] /\ crashes = 0
  /\ Init /\ nb = View(have, foreign)

-----------------------------------------------------------------------------
\* Netbox has these things now, and the renderer sees it.
Holds(things, others) ==
  /\ have' = things /\ foreign' = others
  /\ nb' = View(things, others)
  /\ load' = [load EXCEPT !.dirty = @ \/ loop # None]
  /\ UNCHANGED <<edits, reqVars, loop, countVars, restarts>>

Untouched == UNCHANGED <<vars, have, foreign>>

Start ==
  /\ run.pc # "running"
  /\ run' = [pc |-> "running", i |-> 1]
  /\ Untouched /\ UNCHANGED crashes

\* On to the next thing from here on, or the report is returned.
GoOn(from) ==
  LET ahead == {j \in from .. Len(Plan) : Applies(Plan[j])} IN
  \/ ahead = {} /\ run' = [run EXCEPT !.pc = "returned"]
  \/ \E j \in ahead : (\A k \in ahead : j <= k) /\ run' = [run EXCEPT !.i = j]

\* Faulty variants: a loop without its condition; past the primary pointer of a
\* MAC record that was there already.
Advance_Unconditional(i, created) ==
  run' = IF i = Len(Plan) THEN [run EXCEPT !.pc = "returned"] ELSE [run EXCEPT !.i = i + 1]
Advance_SkipsPrimary(i, created) ==
  GoOn(IF Plan[i][1] = "mac_address" /\ ~created THEN i + 2 ELSE i + 1)
Advance(i, created) == GoOn(i + 1)

\* The _ensure_ helpers and _wire_relationships.  Each looks its thing up by key
\* and skips it if it is there, ...  Faulty variant: it is created without looking,
\* which Netbox refuses.
Skip_Refused ==
  /\ run.pc = "running" /\ Plan[run.i] \in have
  /\ run' = [run EXCEPT !.pc = "died"]
  /\ Untouched /\ UNCHANGED crashes
Skip ==
  /\ run.pc = "running" /\ Plan[run.i] \in have
  /\ Advance(run.i, FALSE)
  /\ Untouched /\ UNCHANGED crashes

\* ... raises FixtureConflictError if the object found is somebody else's, which
\* ends the run, ...
Conflict ==
  /\ run.pc = "running" /\ Plan[run.i] \in foreign
  /\ run' = [run EXCEPT !.pc = "conflict"]
  /\ Untouched /\ UNCHANGED crashes

\* ... and creates it otherwise.
Absent(t) == t \notin have \cup foreign

Create ==
  /\ run.pc = "running" /\ Absent(Plan[run.i])
  /\ Advance(run.i, TRUE)
  /\ Holds(have \cup {Plan[run.i]}, foreign)
  /\ UNCHANGED crashes

\* A request fails, or the process is killed: before Netbox has executed the
\* request ...
Dies ==
  /\ run.pc = "running" /\ crashes < MaxCrashes
  /\ run' = [run EXCEPT !.pc = "died"] /\ crashes' = crashes + 1
  /\ Untouched

\* ... or after.
DiesAfterCreate ==
  /\ run.pc = "running" /\ crashes < MaxCrashes /\ Absent(Plan[run.i])
  /\ run' = [run EXCEPT !.pc = "died"] /\ crashes' = crashes + 1
  /\ Holds(have \cup {Plan[run.i]}, foreign)

\* The operator removes the object that was in the way.
Resolve ==
  /\ run.pc = "conflict" /\ Plan[run.i] \in foreign
  /\ Holds(have, foreign \ {Plan[run.i]})
  /\ UNCHANGED <<run, crashes>>

-----------------------------------------------------------------------------
\* A render of the host, as RenderService has it.
Render(r) ==
  /\ \/ \E k \in Kinds : Dispatch(r, k)
     \/ StartHandler(r) \/ QueryFails(r) \/ FetchDevice(r) \/ FetchInterfaces(r)
     \/ FetchAddress(r) \/ ValidateAndRender(r) \/ Finish(r)
  /\ UNCHANGED popVars

PopulateNext ==
  \/ Start
  \/ Skip
  \/ Conflict
  \/ Create
  \/ Dies
  \/ DiesAfterCreate
  \/ Resolve
  \/ \E r \in Requests : Render(r)

\* The operator reruns what died, and in the end clears what was in the way instead
\* of meeting the same conflict again; a run that does not die goes on.
PopulateFairness ==
  WF_allVars(Start) /\ WF_allVars(Skip \/ Conflict \/ Create) /\ SF_allVars(Resolve)

PopulateSpec == PopulateInit /\ [][PopulateNext]_allVars /\ PopulateFairness

-----------------------------------------------------------------------------
\* Population and service are well typed, and nothing is both the fixture's and
\* somebody else's (_apply_one).
PopulateTypeOK ==
  /\ TypeOK
  /\ have \subseteq Things /\ foreign \subseteq Things \ have
  /\ run \in [pc : {"idle", "running", "conflict", "died", "returned"}, i : 1 .. Len(Plan)]
  /\ crashes \in 0 .. MaxCrashes

\* The renderer never serves a host that is only partly populated, even to a
\* request whose queries fall into different passes or different runs: a body it
\* renders has the fixture's role, and every address and MTU of it.
NoPartialIntent ==
  \A r \in Requests : body[r] # None =>
    /\ body[r].role = Fixture.slug
    /\ IntentAddresses(body[r]) = NetboxAddresses(Fixture)
    /\ \A x \in Addressed(body[r]) :
         x.mtu = read_mtu(Fixture.ifaces[x.name], DefaultMtu(x.name))

\* A run that returns leaves the whole host in Netbox, whatever the runs that
\* died before it left there and whoever had objects in the way (_apply_one).
PopulateCompletes ==
  run.pc = "returned" => nb = Fixture /\ have = Things

\* Runs repeated after crashes and conflicts get the host into Netbox.
PopulateConverges == <>(nb = Fixture /\ run.pc = "returned")
=============================================================================
