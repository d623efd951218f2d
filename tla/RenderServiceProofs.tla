------------------------- MODULE RenderServiceProofs -------------------------
(***************************************************************************)
(* Theorems about RenderService, for every set of requests, every host     *)
(* Netbox may start with and every edit it may see.                        *)
(***************************************************************************)
EXTENDS RenderService, FiniteSetTheorems, TLAPS

(***************************************************************************)
(* What the builders return is within the bounds of the models.            *)
(***************************************************************************)

\* One address is left when _fetch_single_ip does not raise, and it is IPv4.
LEMMA SingleIpTyped ==
  ASSUME NEW ips \in SUBSET (Addrs \cup {V6}), single_ip_error(ips) = "ok"
  PROVE  single_ip(ips) \in Addrs
<1>1. Cardinality(ips) = 1 /\ ips # {V6}
  BY DEF single_ip_error
<1>2. IsFiniteSet(ips)
  <2>1. IsFiniteSet(Addrs \cup {V6})
    BY ConstantsAssumption, FS_AddElement
  <2> QED BY <2>1, FS_Subset
<1>3. PICK a : ips = {a}
  BY <1>1, <1>2, FS_Singleton
<1> QED BY <1>1, <1>3 DEF single_ip

\* The value of a record's mtu field, or the default of its kind.
LEMMA ReadMtuTyped ==
  ASSUME NEW i \in Iface, NEW d \in Nat
  PROVE  read_mtu(i, d) \in Nat
BY DEF read_mtu, Iface

\* An interface of one of the three kinds has one record type.
LEMMA BuiltTyped ==
  ASSUME NEW n \in VlanNames \cup RoceNames \cup IbNames, NEW i \in Iface,
         NEW ips \in SUBSET (Addrs \cup {V6}),
         pre_ip_error(n, i) = "ok", single_ip_error(ips) = "ok", model_error(n, i) = "ok"
  PROVE  /\ n \in VlanNames => build_vlan(n, i, ips) \in VlanChild
         /\ n \in RoceNames => build_roce(n, i, ips) \in RoceUnderlay
         /\ n \in IbNames   => build_ib(n, i, ips) \in InfinibandUnderlay
<1>1. single_ip(ips) \in Addrs /\ single_ip(ips) \in Nat
  BY SingleIpTyped, ConstantsAssumption
<1>2. derive_gateway(single_ip(ips)) \in Nat
  BY <1>1 DEF derive_gateway
<1>3. CASE n \in VlanNames
  <2>1. i.vlan \in Vlan /\ i.vlan.name \in VlanRoles
    BY <1>3 DEF pre_ip_error, Iface
  <2>2. n \notin RoceNames /\ n \notin IbNames
    BY <1>3, ConstantsAssumption
  <2>3. /\ read_mtu(i, 1500) \in Mtus
        /\ i.vlan.vid \in MIN_VLAN_ID .. MAX_VLAN_ID
    BY <1>3, <2>2 DEF model_error, DefaultMtu
  <2> QED BY <1>1, <1>2, <1>3, <2>1, <2>2, <2>3 DEF build_vlan, VlanChild
<1>4. CASE n \in RoceNames
  <2>1. n \notin VlanNames /\ n \notin IbNames
    BY <1>4, ConstantsAssumption
  <2>2. read_mtu(i, 9000) \in Mtus /\ read_sriov_vfs(i) \in 0 .. MAX_VFS
    BY <1>4, <2>1 DEF model_error, DefaultMtu
  <2> QED BY <1>1, <1>4, <2>1, <2>2 DEF build_roce, RoceUnderlay
<1>5. CASE n \in IbNames
  <2>1. n \notin VlanNames /\ n \notin RoceNames
    BY <1>5, ConstantsAssumption
  <2>2. read_mtu(i, 2044) \in Mtus
    BY <1>5, <2>1 DEF model_error, DefaultMtu
  <2> QED BY <1>1, <1>5, <2>1, <2>2 DEF build_ib, InfinibandUnderlay
<1> QED BY <1>3, <1>4, <1>5

-----------------------------------------------------------------------------
(***************************************************************************)
(* The inductive invariant.  ACTIVE_REQUESTS stays a natural number only   *)
(* because it counts the requests in flight, so TypeOK and CountersExact   *)
(* have to be proved together; a request is counted once only because a    *)
(* handler that returns was handling, which is OneHandler; and the intent  *)
(* a 200 is rendered from is well typed because of what FetchInterfaces    *)
(* found out before the first address query, which is LoadInv.             *)
(***************************************************************************)
LoadInv ==
  /\ load.phase = "addresses" =>
       /\ load.slug \in Roles
       /\ load.ifaces \in [Names -> Iface]
       /\ build_ns_nics_error(load.ifaces) = "ok"
       /\ build_bond_error(load.ifaces) = "ok"
       /\ load.todo \subseteq VlanNames \cup RoceNames \cup IbNames
  /\ IsFiniteSet(load.vlans) /\ IsFiniteSet(load.roce) /\ IsFiniteSet(load.ib)

IInv == TypeOK /\ OneHandler /\ LoadInv /\ CountersExact

\* A record with these fields is one of the local states of a load.
LEMMA LoadRecord ==
  ASSUME NEW p \in Phases, NEW s \in Slugs \cup {None}, NEW f \in [Names -> Iface \cup {None}],
         NEW t \in SUBSET Names, NEW v \in SUBSET VlanChild,
         NEW r \in SUBSET RoceUnderlay, NEW i \in SUBSET InfinibandUnderlay,
         NEW d \in BOOLEAN
  PROVE  [phase |-> p, slug |-> s, ifaces |-> f, todo |-> t, vlans |-> v,
          roce |-> r, ib |-> i, dirty |-> d] \in Load
BY DEF Load

\* The local variables a handler starts from.
LEMMA NoLoadTyped ==
  /\ NoLoad \in Load
  /\ [NoLoad EXCEPT !.phase = "status"] \in Load
  /\ [NoLoad EXCEPT !.phase = "device"] \in Load
<1> DEFINE f == [n \in Names |-> None]
<1>1. f \in [Names -> Iface \cup {None}]
  OBVIOUS
<1>2. {} \in SUBSET Names /\ {} \in SUBSET VlanChild
      /\ {} \in SUBSET RoceUnderlay /\ {} \in SUBSET InfinibandUnderlay
  OBVIOUS
<1>3. NoLoad \in Load
  <2> HIDE DEF f
  <2>1. "none" \in Phases 
    BY DEF Phases
  <2>2. [phase |-> "none", slug |-> None, ifaces |-> f, todo |-> {}, vlans |-> {},
         roce |-> {}, ib |-> {}, dirty |-> FALSE] \in Load
    BY <1>1, <1>2, <2>1, LoadRecord
  <2> QED BY <2>2 DEF NoLoad, f
<1> QED BY <1>3 DEF Load, Phases

\* The intent built from the local variables of a load that got that far.
LEMMA LoadedTyped ==
  ASSUME load \in Load, LoadInv, load.phase = "addresses"
  PROVE  LoadedIntent(load) \in Intent
<1>1. load.ifaces \in [Names -> Iface] /\ load.slug \in Roles
  BY DEF LoadInv
<1>2. \A n \in NS_NIC_NAMES : read_mtu(load.ifaces[n], 9000) \in Mtus
  BY DEF LoadInv, build_ns_nics_error, ns_nic_error, NS_NIC_NAMES
<1>3. read_mtu(load.ifaces[BOND_NAME], 9000) \in Mtus
  BY DEF LoadInv, build_bond_error
<1>4. build_ns_nics(load.ifaces) \in SUBSET BondMember
  BY <1>2 DEF build_ns_nics, BondMember
<1>5. build_bond(load.ifaces, build_ns_nics(load.ifaces)) \in Bond
  <2>1. {m.name : m \in build_ns_nics(load.ifaces)} \subseteq NS_NIC_NAMES
    BY <1>4 DEF BondMember
  <2> QED BY <1>3, <2>1 DEF build_bond, Bond
<1>6. /\ load.vlans \in SUBSET VlanChild /\ load.roce \in SUBSET RoceUnderlay
      /\ load.ib \in SUBSET InfinibandUnderlay
  BY DEF Load
<1> QED BY <1>1, <1>4, <1>5, <1>6 DEF LoadedIntent, Intent

\* One more request satisfies a condition: its counter goes up by one.
LEMMA CountUp ==
  ASSUME NEW S \in SUBSET Requests, NEW r \in Requests, r \notin S
  PROVE  Cardinality(S \cup {r}) = Cardinality(S) + 1
BY ServiceAssumption, FS_Subset, FS_AddElement

\* One request fewer does: down by one.
LEMMA CountDown ==
  ASSUME NEW S \in SUBSET Requests, NEW r \in S
  PROVE  /\ Cardinality(S \ {r}) = Cardinality(S) - 1
         /\ Cardinality(S) - 1 \in Nat
<1>1. IsFiniteSet(S) /\ IsFiniteSet(S \ {r})
  BY ServiceAssumption, FS_Subset
<1>2. Cardinality(S) \in Nat /\ Cardinality(S \ {r}) \in Nat
  BY <1>1, FS_CardinalityType
<1>3. Cardinality(S \ {r}) = Cardinality(S) - 1
  BY <1>1, FS_RemoveElement
<1> QED BY <1>2, <1>3

\* Three different things are three.
LEMMA ThreeDiffer ==
  ASSUME NEW a, NEW b, NEW c, a # b, a # c, b # c
  PROVE  Cardinality({a, b, c}) = 3
<1>1. IsFiniteSet({a}) /\ Cardinality({a}) = 1
  BY FS_Singleton
<1>2. IsFiniteSet({a} \cup {b}) /\ Cardinality({a} \cup {b}) = 1 + 1
  BY <1>1, FS_AddElement
<1>3. Cardinality({a} \cup {b} \cup {c}) = 2 + 1
  BY <1>2, FS_AddElement
<1>4. {a} \cup {b} \cup {c} = {a, b, c}
  OBVIOUS
<1> QED BY <1>3, <1>4

-----------------------------------------------------------------------------
(***************************************************************************)
(* The two ways a step of a handler ends.                                  *)
(***************************************************************************)

\* The handler returns: it was running, so it is counted for the first time.
LEMMA ReturnPreserves ==
  ASSUME IInv, NEW r \in Requests,
         \/ loop = r
         \/ loop = None /\ pc[r] = "dispatched",
         NEW s \in Statuses, NEW lab \in Labels \cup {None}, NEW h \in Intent \cup {None},
         Return(r, s, lab, h)
  PROVE  IInv'
<1> USE DEF Return, nbVars
<1>1. pc[r] \in {"handling", "dispatched"} /\ r # None /\ None \notin Requests
  BY ServiceAssumption DEF IInv, OneHandler
<1>2. TypeOK'
  <2>1. load' \in Load /\ loop' \in Requests \cup {None}
    BY NoLoadTyped
  <2>2. /\ pc' \in [Requests -> {"new", "gone", "done"} \cup InFlight]
        /\ status' \in [Requests -> Statuses]
        /\ label' \in [Requests -> Labels \cup {None}]
        /\ body' \in [Requests -> Intent \cup {None}]
    BY DEF IInv, TypeOK, InFlight
  <2>3. renders_total' \in [Labels -> Nat]
    BY DEF IInv, TypeOK
  <2> QED BY <2>1, <2>2, <2>3 DEF IInv, TypeOK
<1>3. OneHandler'
  BY <1>1 DEF IInv, TypeOK, OneHandler
<1>4. LoadInv'
  BY FS_EmptySet DEF LoadInv, NoLoad
<1>5. CountersExact'
  <2>1. active' = Cardinality({q \in Requests : pc'[q] \in InFlight})
    <3>1. {q \in Requests : pc'[q] \in InFlight} = {q \in Requests : pc[q] \in InFlight}
      BY <1>1 DEF IInv, TypeOK, InFlight
    <3> QED BY <3>1 DEF IInv, CountersExact
  <2>2. ASSUME NEW t \in Statuses
        PROVE  requests_total'[t]
                 = Cardinality({q \in Requests : pc'[q] = "done" /\ status'[q] = t})
    <3>1. {q \in Requests : pc'[q] = "done" /\ status'[q] = t}
            = {q \in Requests : pc[q] = "done" /\ status[q] = t}
      BY <1>1 DEF IInv, TypeOK, InFlight
    <3> QED BY <3>1 DEF IInv, CountersExact
  <2>3. ASSUME NEW l \in Labels
        PROVE  renders_total'[l]
                 = Cardinality({q \in Requests : pc'[q] \in {"returned", "done"}
                                                  /\ label'[q] = l})
    <3> DEFINE S == {q \in Requests : pc[q] \in {"returned", "done"} /\ label[q] = l}
               T == {q \in Requests : pc'[q] \in {"returned", "done"} /\ label'[q] = l}
    <3>1. renders_total[l] = Cardinality(S) /\ r \notin S /\ S \in SUBSET Requests
      BY <1>1 DEF IInv, CountersExact
    <3>2. CASE lab = l
      <4>1. T = S \cup {r}
        BY <1>1, <3>2 DEF IInv, TypeOK
      <4>2. renders_total'[l] = renders_total[l] + 1
        BY <3>2, NoneIsNoLabel DEF IInv, TypeOK
      <4>3. Cardinality(S \cup {r}) = Cardinality(S) + 1
        BY <3>1, CountUp
      <4> QED BY <3>1, <4>1, <4>2, <4>3
    <3>3. CASE lab # l
      <4>1. T = S
        BY <1>1, <3>3 DEF IInv, TypeOK
      <4>2. renders_total'[l] = renders_total[l]
        BY <3>3 DEF IInv, TypeOK
      <4> QED BY <3>1, <4>1, <4>2
    <3> QED BY <3>2, <3>3
  <2> QED BY <2>1, <2>2, <2>3 DEF CountersExact
<1> QED BY <1>2, <1>3, <1>4, <1>5 DEF IInv

\* The handler goes on: only its local variables change.
LEMMA ContinuePreserves ==
  ASSUME IInv, NEW l \in Load, LoadInv', Continue(l)
  PROVE  IInv'
<1> USE DEF Continue, nbVars, reqVars, countVars
<1>1. TypeOK'
  BY DEF IInv, TypeOK
<1>2. OneHandler' /\ CountersExact'
  BY DEF IInv, OneHandler, CountersExact
<1> QED BY <1>1, <1>2 DEF IInv

\* load_host_intent raised: a typed or an untyped exception, one status.
LEMMA RaisePreserves ==
  ASSUME IInv, NEW r \in Requests, loop = r, NEW err \in Errors, Raise(r, err)
  PROVE  IInv'
<1>1. StatusOf(err) \in Statuses
  BY DEF StatusOf, Statuses, Errors
<1>2. LabelOf(err) \in Labels \cup {None}
  BY DEF LabelOf, Labels, Outcomes, Errors
<1>3. Return(r, StatusOf(err), LabelOf(err), None)
  BY DEF Raise
<1> QED BY <1>1, <1>2, <1>3, ReturnPreserves

-----------------------------------------------------------------------------
(***************************************************************************)
(* Every step keeps the invariant, action by action.                       *)
(***************************************************************************)
\* When the process has just started nothing is in flight and nothing counted.
LEMMA InitIInv == Init => IInv
<1> SUFFICES ASSUME Init PROVE IInv
  OBVIOUS
<1> USE DEF Init
<1>1. TypeOK
  BY NoLoadTyped, ServiceAssumption DEF TypeOK, Statuses
<1>2. OneHandler
  BY ServiceAssumption DEF OneHandler
<1>3. LoadInv
  BY FS_EmptySet DEF LoadInv, NoLoad
<1>4. CountersExact
  <2>1. {r \in Requests : pc[r] \in InFlight} = {}
    BY DEF InFlight
  <2>2. \A t \in Statuses : {r \in Requests : pc[r] = "done" /\ status[r] = t} = {}
    OBVIOUS
  <2>3. \A l \in Labels :
          {r \in Requests : pc[r] \in {"returned", "done"} /\ label[r] = l} = {}
    OBVIOUS
  <2> QED BY <2>1, <2>2, <2>3, FS_EmptySet DEF CountersExact
<1> QED BY <1>1, <1>2, <1>3, <1>4 DEF IInv

\* The middleware up to call_next: one more request in flight, and the gauge says so.
LEMMA DispatchIInv ==
  ASSUME IInv, NEW r \in Requests, NEW k \in Kinds, Dispatch(r, k)
  PROVE  IInv'
<1> USE DEF Dispatch, nbVars
<1>1. TypeOK'
  BY DEF IInv, TypeOK, InFlight
<1>2. OneHandler' /\ LoadInv'
  BY ServiceAssumption DEF IInv, OneHandler, LoadInv, TypeOK
<1>3. CountersExact'
  <2>1. active' = Cardinality({q \in Requests : pc'[q] \in InFlight})
    <3> DEFINE S == {q \in Requests : pc[q] \in InFlight}
    <3>1. {q \in Requests : pc'[q] \in InFlight} = S \cup {r}
      BY DEF IInv, TypeOK, InFlight
    <3>2. r \notin S /\ S \in SUBSET Requests
      BY DEF InFlight
    <3> QED BY <3>1, <3>2, CountUp DEF IInv, CountersExact
  <2>2. \A t \in Statuses : {q \in Requests : pc'[q] = "done" /\ status'[q] = t}
                              = {q \in Requests : pc[q] = "done" /\ status[q] = t}
    BY DEF IInv, TypeOK
  <2>3. \A l \in Labels :
          {q \in Requests : pc'[q] \in {"returned", "done"} /\ label'[q] = l}
            = {q \in Requests : pc[q] \in {"returned", "done"} /\ label[q] = l}
    BY DEF IInv, TypeOK
  <2> QED BY <2>1, <2>2, <2>3 DEF IInv, CountersExact
<1> QED BY <1>1, <1>2, <1>3 DEF IInv

\* The middleware after it: the request leaves the gauge and is counted under its
\* status, whatever the handler returned or raised.
LEMMA FinishIInv ==
  ASSUME IInv, NEW r \in Requests, Finish(r)
  PROVE  IInv'
<1> USE DEF Finish, DecActive, nbVars
<1> DEFINE S == {q \in Requests : pc[q] \in InFlight}
<1>1. r \in S /\ S \in SUBSET Requests
  BY DEF InFlight
<1>2. active' = Cardinality(S \ {r}) /\ active' \in Nat
  BY <1>1, CountDown DEF IInv, CountersExact
<1>3. TypeOK'
  BY <1>2 DEF IInv, TypeOK, InFlight
<1>4. OneHandler' /\ LoadInv'
  BY ServiceAssumption DEF IInv, OneHandler, LoadInv, TypeOK
<1>5. CountersExact'
  <2>1. active' = Cardinality({q \in Requests : pc'[q] \in InFlight})
    <3>1. {q \in Requests : pc'[q] \in InFlight} = S \ {r}
      BY DEF IInv, TypeOK, InFlight
    <3> QED BY <1>2, <3>1
  <2>2. ASSUME NEW t \in Statuses
        PROVE  requests_total'[t]
                 = Cardinality({q \in Requests : pc'[q] = "done" /\ status'[q] = t})
    <3> DEFINE A == {q \in Requests : pc[q] = "done" /\ status[q] = t}
               B == {q \in Requests : pc'[q] = "done" /\ status'[q] = t}
    <3>1. requests_total[t] = Cardinality(A) /\ r \notin A /\ A \in SUBSET Requests
      BY DEF IInv, CountersExact
    <3>2. CASE status[r] = t
      <4>1. B = A \cup {r} /\ requests_total'[t] = requests_total[t] + 1
        BY <3>2 DEF IInv, TypeOK
      <4> QED BY <3>1, <4>1, CountUp
    <3>3. CASE status[r] # t
      <4>1. B = A /\ requests_total'[t] = requests_total[t]
        BY <3>3 DEF IInv, TypeOK
      <4> QED BY <3>1, <4>1
    <3> QED BY <3>2, <3>3
  <2>3. \A l \in Labels :
          {q \in Requests : pc'[q] \in {"returned", "done"} /\ label'[q] = l}
            = {q \in Requests : pc[q] \in {"returned", "done"} /\ label[q] = l}
    BY DEF IInv, TypeOK
  <2> QED BY <2>1, <2>2, <2>3 DEF IInv, CountersExact
<1> QED BY <1>3, <1>4, <1>5 DEF IInv

\* A handler takes a free loop, with fresh local variables.
LEMMA StartHandlerIInv ==
  ASSUME IInv, NEW r \in Requests, StartHandler(r)
  PROVE  IInv'
<1> USE DEF StartHandler, nbVars, countVars
<1>1. load' \in Load /\ load'.phase # "addresses"
      /\ load'.vlans = {} /\ load'.roce = {} /\ load'.ib = {}
  BY NoLoadTyped DEF NoLoad
<1>2. TypeOK'
  BY <1>1 DEF IInv, TypeOK, InFlight
<1>3. LoadInv'
  BY <1>1, FS_EmptySet DEF LoadInv
<1>4. OneHandler'
  BY ServiceAssumption DEF IInv, OneHandler, TypeOK
<1>5. CountersExact'
  <2>1. {q \in Requests : pc'[q] \in InFlight} = {q \in Requests : pc[q] \in InFlight}
    BY DEF IInv, TypeOK, InFlight
  <2>2. \A t \in Statuses : {q \in Requests : pc'[q] = "done" /\ status'[q] = t}
                              = {q \in Requests : pc[q] = "done" /\ status[q] = t}
    BY DEF IInv, TypeOK
  <2>3. \A l \in Labels :
          {q \in Requests : pc'[q] \in {"returned", "done"} /\ label'[q] = l}
            = {q \in Requests : pc[q] \in {"returned", "done"} /\ label[q] = l}
    BY DEF IInv, TypeOK
  <2> QED BY <2>1, <2>2, <2>3 DEF IInv, CountersExact
<1> QED BY <1>2, <1>3, <1>4, <1>5 DEF IInv

\* What the loader found out before the first address query.
LEMMA FetchInterfacesIInv ==
  ASSUME IInv, NEW r \in Requests, FetchInterfaces(r)
  PROVE  IInv'
<1> DEFINE err == structure_error(load.slug, nb.ifaces)
           l == [load EXCEPT !.phase = "addresses", !.ifaces = nb.ifaces,
                             !.todo = WithAddress(nb.ifaces)]
<1>1. /\ loop = r
      /\ \/ err # "ok" /\ Raise(r, err)
         \/ err = "ok" /\ Continue(l)
  BY DEF FetchInterfaces
<1>2. CASE err # "ok" /\ Raise(r, err)
  <2>1. err \in Errors
    BY <1>2 DEF structure_error, parse_role_error, build_ns_nics_error, ns_nic_error,
                build_bond_error, Errors
  <2> HIDE DEF err
  <2> QED BY <1>1, <1>2, <2>1, RaisePreserves
<1>3. CASE err = "ok" /\ Continue(l)
  <2>1. /\ parse_role_error(load.slug) = "ok" /\ build_ns_nics_error(nb.ifaces) = "ok"
        /\ build_bond_error(nb.ifaces) = "ok"
    BY <1>3 DEF structure_error
  <2>2. load.slug \in Roles
    BY <2>1 DEF parse_role_error
  <2>3. nb.ifaces \in [Names -> Iface] /\ WithAddress(nb.ifaces) \subseteq Names
        /\ WithAddress(nb.ifaces) \subseteq VlanNames \cup RoceNames \cup IbNames
    BY DEF IInv, TypeOK, Netbox, WithAddress, Present, Names
  <2>4. l \in Load
    BY <2>3 DEF IInv, TypeOK, Load, Phases
  <2>5. /\ l.slug = load.slug /\ l.ifaces = nb.ifaces /\ l.todo = WithAddress(nb.ifaces)
        /\ l.vlans = load.vlans /\ l.roce = load.roce /\ l.ib = load.ib
    BY DEF IInv, TypeOK, Load
  <2>6. load' = l
    BY <1>3 DEF Continue
  <2> HIDE DEF l, err
  <2>7. LoadInv'
    BY <2>1, <2>2, <2>3, <2>5, <2>6 DEF IInv, LoadInv
  <2> QED BY <1>3, <2>4, <2>7, ContinuePreserves
<1> QED BY <1>1, <1>2, <1>3

\* One more interface built, or the load given up.
LEMMA FetchAddressIInv ==
  ASSUME IInv, NEW r \in Requests, FetchAddress(r)
  PROVE  IInv'
<1>1. /\ loop = r /\ load.phase = "addresses" /\ load \in Load
      /\ load.ifaces \in [Names -> Iface]
      /\ load.todo \subseteq VlanNames \cup RoceNames \cup IbNames
  BY DEF FetchAddress, IInv, TypeOK, LoadInv
<1> DEFINE err(n) == build_error(n, load.ifaces[n], nb.ips[n])
           l(n) == [load EXCEPT !.todo = @ \ {n}]
           v(n) == build_vlan(n, load.ifaces[n], nb.ips[n])
           g(n) == build_roce(n, load.ifaces[n], nb.ips[n])
           b(n) == build_ib(n, load.ifaces[n], nb.ips[n])
<1>2. PICK n \in NextInLine(load.todo) :
        \/ err(n) # "ok" /\ Raise(r, err(n))
        \/ err(n) = "ok" /\ n \in VlanNames /\ Continue([l(n) EXCEPT !.vlans = @ \cup {v(n)}])
        \/ err(n) = "ok" /\ n \in RoceNames /\ Continue([l(n) EXCEPT !.roce = @ \cup {g(n)}])
        \/ err(n) = "ok" /\ n \in IbNames /\ Continue([l(n) EXCEPT !.ib = @ \cup {b(n)}])
  BY DEF FetchAddress
<1>3. n \in VlanNames \cup RoceNames \cup IbNames /\ n \in Names
  BY <1>1, <1>2 DEF NextInLine, Names
<1>4. load.ifaces[n] \in Iface /\ nb.ips[n] \in SUBSET (Addrs \cup {V6})
  BY <1>1, <1>3 DEF IInv, TypeOK, Netbox
<1>5. /\ load.todo \in SUBSET Names /\ load.vlans \in SUBSET VlanChild
      /\ load.roce \in SUBSET RoceUnderlay /\ load.ib \in SUBSET InfinibandUnderlay
  BY <1>1 DEF Load
<1>6. CASE err(n) # "ok"
  <2>1. err(n) \in Errors
    BY <1>6 DEF build_error, pre_ip_error, single_ip_error, model_error, Errors
  <2> HIDE DEF err
  <2> QED BY <1>1, <1>2, <1>6, <2>1, RaisePreserves
<1>7. CASE err(n) = "ok"
  <2>1. /\ n \in VlanNames => v(n) \in VlanChild
        /\ n \in RoceNames => g(n) \in RoceUnderlay
        /\ n \in IbNames => b(n) \in InfinibandUnderlay
    <3>1. /\ pre_ip_error(n, load.ifaces[n]) = "ok" /\ single_ip_error(nb.ips[n]) = "ok"
          /\ model_error(n, load.ifaces[n]) = "ok"
      BY <1>7 DEF build_error
    <3> QED BY <1>3, <1>4, <3>1, BuiltTyped
  <2>2. IsFiniteSet(load.vlans) /\ IsFiniteSet(load.roce) /\ IsFiniteSet(load.ib)
    BY DEF IInv, LoadInv
  <2> HIDE DEF err, v, g, b
  <2>3. CASE n \in VlanNames /\ Continue([l(n) EXCEPT !.vlans = @ \cup {v(n)}])
    <3> DEFINE m == [l(n) EXCEPT !.vlans = @ \cup {v(n)}]
    <3>1. load.vlans \cup {v(n)} \in SUBSET VlanChild
      BY <1>5, <2>1, <2>3
    <3>2. m \in Load
      BY <1>1, <3>1 DEF Load
    <3>3. /\ m.slug = load.slug /\ m.ifaces = load.ifaces /\ m.todo = load.todo \ {n}
          /\ m.vlans = load.vlans \cup {v(n)} /\ m.roce = load.roce /\ m.ib = load.ib
      BY <1>1 DEF Load
    <3>4. load' = m
      BY <2>3 DEF Continue
    <3>5. IsFiniteSet(load.vlans \cup {v(n)})
      BY <2>2, FS_AddElement
    <3> HIDE DEF m
    <3>6. LoadInv'
      BY <1>1, <2>2, <3>3, <3>4, <3>5 DEF IInv, LoadInv
    <3> QED BY <2>3, <3>2, <3>6, ContinuePreserves DEF m
  <2>4. CASE n \in RoceNames /\ Continue([l(n) EXCEPT !.roce = @ \cup {g(n)}])
    <3> DEFINE m == [l(n) EXCEPT !.roce = @ \cup {g(n)}]
    <3>1. load.roce \cup {g(n)} \in SUBSET RoceUnderlay
      BY <1>5, <2>1, <2>4
    <3>2. m \in Load
      BY <1>1, <3>1 DEF Load
    <3>3. /\ m.slug = load.slug /\ m.ifaces = load.ifaces /\ m.todo = load.todo \ {n}
          /\ m.vlans = load.vlans /\ m.roce = load.roce \cup {g(n)} /\ m.ib = load.ib
      BY <1>1 DEF Load
    <3>4. load' = m
      BY <2>4 DEF Continue
    <3>5. IsFiniteSet(load.roce \cup {g(n)})
      BY <2>2, FS_AddElement
    <3> HIDE DEF m
    <3>6. LoadInv'
      BY <1>1, <2>2, <3>3, <3>4, <3>5 DEF IInv, LoadInv
    <3> QED BY <2>4, <3>2, <3>6, ContinuePreserves DEF m
  <2>5. CASE n \in IbNames /\ Continue([l(n) EXCEPT !.ib = @ \cup {b(n)}])
    <3> DEFINE m == [l(n) EXCEPT !.ib = @ \cup {b(n)}]
    <3>1. load.ib \cup {b(n)} \in SUBSET InfinibandUnderlay
      BY <1>5, <2>1, <2>5
    <3>2. m \in Load
      BY <1>1, <3>1 DEF Load
    <3>3. /\ m.slug = load.slug /\ m.ifaces = load.ifaces /\ m.todo = load.todo \ {n}
          /\ m.vlans = load.vlans /\ m.roce = load.roce /\ m.ib = load.ib \cup {b(n)}
      BY <1>1 DEF Load
    <3>4. load' = m
      BY <2>5 DEF Continue
    <3>5. IsFiniteSet(load.ib \cup {b(n)})
      BY <2>2, FS_AddElement
    <3> HIDE DEF m
    <3>6. LoadInv'
      BY <1>1, <2>2, <3>3, <3>4, <3>5 DEF IInv, LoadInv
    <3> QED BY <2>5, <3>2, <3>6, ContinuePreserves DEF m
  <2> QED BY <1>2, <1>7, <2>3, <2>4, <2>5
<1> QED BY <1>6, <1>7

\* The steps of a handler that need no more than the two lemmas above.
LEMMA HandlerIInv ==
  ASSUME IInv, NEW r \in Requests,
         AnswerLocally(r) \/ QueryStatus(r) \/ QueryFails(r) \/ FetchDevice(r)
           \/ ValidateAndRender(r)
  PROVE  IInv'
<1>1. CASE AnswerLocally(r)
  <2>1. 200 \in Statuses
    BY DEF Statuses
  <2> QED BY <1>1, <2>1, ReturnPreserves DEF AnswerLocally
<1>2. CASE QueryStatus(r)
  <2>1. 200 \in Statuses /\ 503 \in Statuses
    BY DEF Statuses
  <2> QED BY <1>2, <2>1, ReturnPreserves DEF QueryStatus
<1>3. CASE QueryFails(r)
  <2>1. "NetboxQuery" \in Errors
    BY DEF Errors
  <2> QED BY <1>3, <2>1, RaisePreserves DEF QueryFails
<1>4. CASE FetchDevice(r)
  <2>1. CASE Raise(r, "HostNotFound")
    <3>1. "HostNotFound" \in Errors
      BY DEF Errors
    <3> QED BY <1>4, <2>1, <3>1, RaisePreserves DEF FetchDevice
  <2>2. CASE Continue([load EXCEPT !.phase = "interfaces", !.slug = nb.slug])
    <3> DEFINE l == [load EXCEPT !.phase = "interfaces", !.slug = nb.slug]
    <3>1. load \in Load /\ nb.slug \in Slugs
      BY DEF IInv, TypeOK, Netbox
    <3>2. l \in Load
      BY <3>1 DEF Load, Phases
    <3>3. l.phase = "interfaces" /\ l.vlans = load.vlans /\ l.roce = load.roce
          /\ l.ib = load.ib
      BY <3>1 DEF Load
    <3>4. load' = l
      BY <2>2 DEF Continue
    <3> HIDE DEF l
    <3>5. LoadInv'
      BY <3>3, <3>4 DEF IInv, LoadInv
    <3> QED BY <2>2, <3>2, <3>5, ContinuePreserves DEF l
  <2> QED BY <1>4, <2>1, <2>2 DEF FetchDevice
<1>5. CASE ValidateAndRender(r)
  <2> DEFINE h == LoadedIntent(load)
  <2>1. loop = r /\ h \in Intent /\ h.role \in Roles
    <3>1. load.phase = "addresses" /\ loop = r /\ load \in Load /\ LoadInv
      BY <1>5 DEF ValidateAndRender, IInv, TypeOK
    <3>2. h \in Intent
      BY <3>1, LoadedTyped
    <3> HIDE DEF h
    <3> QED BY <3>1, <3>2 DEF Intent
  <2>2. \/ Raise(r, "Invariant")
        \/ Return(r, 500, <<h.role, "template_error">>, None)
        \/ Return(r, 200, <<h.role, "success">>, h)
    BY <1>5 DEF ValidateAndRender
  <2> HIDE DEF h
  <2>3. /\ 200 \in Statuses /\ 500 \in Statuses /\ "Invariant" \in Errors
        /\ <<h.role, "template_error">> \in Labels
        /\ <<h.role, "success">> \in Labels
    BY <2>1 DEF Statuses, Errors, Labels, Outcomes
  <2> QED BY <2>1, <2>2, <2>3, ReturnPreserves, RaisePreserves
<1> QED BY <1>1, <1>2, <1>3, <1>4, <1>5

\* An edit of Netbox changes nothing the service remembers.
LEMMA NetboxEditIInv ==
  ASSUME IInv, NetboxEdit
  PROVE  IInv'
<1> DEFINE Ips == SUBSET (Addrs \cup {V6})
<1>1. ASSUME NEW new \in Netbox, Edit(new)
      PROVE  IInv'
  <2> USE <1>1 DEF Edit, reqVars, countVars
  <2>1. load \in Load /\ edits' \in 0 .. MaxEdits
    BY ServiceAssumption DEF IInv, TypeOK
  <2>2. load' \in Load
    BY <2>1 DEF Load
  <2>3. /\ load'.phase = load.phase /\ load'.slug = load.slug /\ load'.todo = load.todo
        /\ load'.ifaces = load.ifaces /\ load'.vlans = load.vlans
        /\ load'.roce = load.roce /\ load'.ib = load.ib
    BY <2>1 DEF Load
  <2>4. TypeOK'
    BY <2>1, <2>2 DEF IInv, TypeOK
  <2>5. LoadInv'
    BY <2>3 DEF IInv, LoadInv
  <2>6. OneHandler' /\ CountersExact'
    BY DEF IInv, OneHandler, CountersExact
  <2> QED BY <2>4, <2>5, <2>6 DEF IInv
<1>2. nb \in Netbox /\ nb.ifaces \in [Names -> Iface] /\ nb.ips \in [Names -> Ips]
  BY DEF IInv, TypeOK, Netbox
<1>3. CASE \E e \in NewIfaces : EditIface(e[1], e[2])
  <2>1. PICK e \in NewIfaces : EditIface(e[1], e[2])
    BY <1>3
  <2>2. e[1] \in Names /\ e[2] \in Iface
    BY ServiceAssumption
  <2> DEFINE new == [nb EXCEPT !.ifaces[e[1]] = e[2],
                               !.ips[e[1]] = IF e[2].present THEN @ ELSE {}]
  <2>3. new \in Netbox
    BY <1>2, <2>2 DEF Netbox
  <2> QED BY <1>1, <2>1, <2>3 DEF EditIface
<1>4. CASE \E e \in NewIps : EditIps(e[1], e[2])
  <2>1. PICK e \in NewIps : EditIps(e[1], e[2])
    BY <1>4
  <2>2. e[1] \in Names /\ e[2] \in Ips
    BY ServiceAssumption
  <2>3. [nb EXCEPT !.ips[e[1]] = e[2]] \in Netbox
    BY <1>2, <2>2 DEF Netbox
  <2> QED BY <1>1, <2>1, <2>3 DEF EditIps
<1>5. CASE \E s \in NewSlugs : EditRole(s)
  <2>1. PICK s \in NewSlugs : EditRole(s)
    BY <1>5
  <2>2. [nb EXCEPT !.slug = s] \in Netbox
    BY <1>2, ServiceAssumption DEF Netbox
  <2> QED BY <1>1, <2>1, <2>2 DEF EditRole
<1>6. CASE DeleteDevice
  <2> DEFINE f == [n \in Names |-> [nb.ifaces[n] EXCEPT !.present = FALSE]]
             p == [n \in Names |-> {}]
  <2>1. f \in [Names -> Iface]
    BY <1>2 DEF Iface
  <2>2. p \in [Names -> Ips]
    OBVIOUS
  <2>3. [nb EXCEPT !.device = FALSE, !.ifaces = f, !.ips = p] \in Netbox
    <3> HIDE DEF f, p
    <3> QED BY <1>2, <2>1, <2>2 DEF Netbox
  <2> QED BY <1>1, <1>6, <2>3 DEF DeleteDevice
<1> QED BY <1>3, <1>4, <1>5, <1>6 DEF NetboxEdit

\* A restart forgets the requests and their counts together.
LEMMA RestartIInv ==
  ASSUME IInv, Restart
  PROVE  IInv'
<1> USE DEF Restart, nbVars
<1>1. TypeOK'
  BY NoLoadTyped, ServiceAssumption DEF IInv, TypeOK
<1>2. OneHandler'
  BY ServiceAssumption DEF OneHandler
<1>3. LoadInv'
  BY FS_EmptySet DEF LoadInv, NoLoad
<1>4. CountersExact'
  <2>1. {r \in Requests : pc'[r] \in InFlight} = {}
    BY DEF InFlight
  <2>2. \A t \in Statuses : {r \in Requests : pc'[r] = "done" /\ status'[r] = t} = {}
    OBVIOUS
  <2>3. \A l \in Labels :
          {r \in Requests : pc'[r] \in {"returned", "done"} /\ label'[r] = l} = {}
    OBVIOUS
  <2> QED BY <2>1, <2>2, <2>3, FS_EmptySet DEF CountersExact
<1> QED BY <1>1, <1>2, <1>3, <1>4 DEF IInv

\* The invariant is inductive: every step of the service, of Netbox and of systemd
\* keeps it.
LEMMA NextIInv == IInv /\ [Next]_vars => IInv'
<1> SUFFICES ASSUME IInv, [Next]_vars PROVE IInv'
  OBVIOUS
<1>1. CASE UNCHANGED vars
  BY <1>1 DEF vars, nbVars, reqVars, countVars, IInv, TypeOK, OneHandler, LoadInv,
              CountersExact
<1>2. CASE Next
  BY <1>2, DispatchIInv, FinishIInv, StartHandlerIInv, FetchInterfacesIInv,
     FetchAddressIInv, HandlerIInv, NetboxEditIInv, RestartIInv DEF Next
<1> QED BY <1>1, <1>2

-----------------------------------------------------------------------------
(***************************************************************************)
(* The theorems.                                                           *)
(***************************************************************************)

\* The inductive invariant holds of every behaviour of the service, with or
\* without a Netbox that answers.
THEOREM Inductive == Init /\ [][Next]_vars => []IInv
<1>1. Init => IInv
  BY InitIInv
<1>2. IInv /\ [Next]_vars => IInv'
  BY NextIInv
<1> QED BY <1>1, <1>2, PTL

\* Type correctness: in particular the ACTIVE_REQUESTS gauge, which Finish
\* decrements whatever happened to the request, never goes below zero.
THEOREM TypeCorrect == Spec => []TypeOK
<1>1. IInv => TypeOK
  BY DEF IInv
<1> QED BY <1>1, Inductive, PTL DEF Spec

\* The service's metrics are exact for any number of concurrent requests, any
\* failure of the loader or a template, and any number of restarts.
THEOREM MetricsExact == Spec => []CountersExact
<1>1. IInv => CountersExact
  BY DEF IInv
<1> QED BY <1>1, Inductive, PTL DEF Spec

\* The eleven validators together are strong enough: an intent they accept is
\* one a host can boot with.
LEMMA ValidatorsSuffice ==
  ASSUME NEW h \in Intent, check_invariants(h), IsFiniteSet(h.vlans),
         IsFiniteSet(h.roce_underlays), IsFiniteSet(h.ib_underlays)
  PROVE  Bootable(h)
<1> USE DEF check_invariants
<1>1. \E m \in h.vlans : /\ m.role = "mgmt" /\ m.gateway # None
                         /\ \A v \in h.vlans : v.gateway # None => v = m
  <2> DEFINE G == {v \in h.vlans : v.gateway # None}
  <2>1. IsFiniteSet(G) /\ Cardinality(G) = 1
    BY FS_Subset DEF check_exactly_one_default_gateway
  <2>2. PICK m : G = {m}
    BY <2>1, FS_Singleton
  <2>3. m \in h.vlans /\ m.gateway # None
    BY <2>2
  <2>4. m.role = "mgmt"
    BY <2>3 DEF check_default_gateway_on_mgmt
  <2>5. \A v \in h.vlans : v.gateway # None => v = m
    BY <2>2
  <2> QED BY <2>3, <2>4, <2>5
<1>2. \A r \in VlanRoles : \E v : {w \in h.vlans : w.role = r} = {v}
  <2> SUFFICES ASSUME NEW r \in VlanRoles
               PROVE  \E v : {w \in h.vlans : w.role = r} = {v}
    OBVIOUS
  <2> DEFINE R == {w \in h.vlans : w.role = r}
  <2>1. IsFiniteSet(R) /\ Cardinality(R) = 1
    BY FS_Subset DEF check_vlan_roles_complete
  <2> QED BY <2>1, FS_Singleton
<1>3. \A r \in VlanRoles : \E v \in h.vlans : v.role = r
  <2> SUFFICES ASSUME NEW r \in VlanRoles PROVE \E v \in h.vlans : v.role = r
    OBVIOUS
  <2>1. PICK v : {w \in h.vlans : w.role = r} = {v}
    BY <1>2
  <2> QED BY <2>1
<1>4. \A v, w \in h.vlans : v.role = w.role => v = w
  <2> SUFFICES ASSUME NEW v \in h.vlans, NEW w \in h.vlans, v.role = w.role
               PROVE  v = w
    OBVIOUS
  <2>1. v.role \in VlanRoles
    BY DEF Intent, VlanChild
  <2>2. PICK u : {x \in h.vlans : x.role = v.role} = {u}
    BY <1>2, <2>1
  <2>3. v \in {x \in h.vlans : x.role = v.role} /\ w \in {x \in h.vlans : x.role = v.role}
    OBVIOUS
  <2> QED BY <2>2, <2>3
<1>5. \A v \in h.vlans : v.parent = h.bond.name /\ v.mtu <= h.bond.mtu
  BY DEF check_vlan_parents, check_mtu_monotone
<1>6. \A x, y \in Addressed(h) : x # y => x.address # y.address
  BY DEF check_unique_ips
<1>7. /\ Cardinality(h.roce_underlays) = ROCE_COUNT_BY_ROLE[h.role]
      /\ Cardinality(h.ib_underlays) = IB_COUNT_BY_ROLE[h.role]
  BY DEF check_roce_count_for_role, check_ib_count_for_role
<1>8. /\ Cardinality(h.roce_underlays) = 0 => h.roce_underlays = {}
      /\ Cardinality(h.ib_underlays) = 0 => h.ib_underlays = {}
  BY FS_EmptySet
<1>9. h.role \in Roles
  BY DEF Intent
<1>10. h.role = "cpu" => h.roce_underlays = {} /\ h.ib_underlays = {}
  BY <1>7, <1>8, <1>9 DEF ROCE_COUNT_BY_ROLE, IB_COUNT_BY_ROLE, Roles
<1>11. h.role \in {"gpu-b300", "gpu-b200"} =>
         Cardinality(h.roce_underlays) = UnderlayCount /\ h.ib_underlays = {}
  BY <1>7, <1>8, <1>9 DEF ROCE_COUNT_BY_ROLE, IB_COUNT_BY_ROLE, Roles
<1>12. h.role = "gpu-h200" =>
         Cardinality(h.ib_underlays) = UnderlayCount /\ h.roce_underlays = {}
  BY <1>7, <1>8, <1>9 DEF ROCE_COUNT_BY_ROLE, IB_COUNT_BY_ROLE, Roles
<1> QED BY <1>1, <1>3, <1>4, <1>5, <1>6, <1>10, <1>11, <1>12 DEF Bootable

\* A body appears only where ValidateAndRender accepts the intent.
LEMMA BodySource ==
  ASSUME IInv, Next, NEW q \in Requests, body'[q] # body[q], body'[q] # None
  PROVE  /\ body'[q] = LoadedIntent(load) /\ load.phase = "addresses"
         /\ check_invariants(LoadedIntent(load))
<1> USE DEF reqVars
<1>1. body \in [Requests -> Intent \cup {None}]
  BY DEF IInv, TypeOK
<1>2. ASSUME NEW r \in Requests, NEW s, NEW lab, Return(r, s, lab, None)
      PROVE  FALSE
  BY <1>1, <1>2 DEF Return
<1>3. ASSUME NEW r \in Requests, NEW err, Raise(r, err)
      PROVE  FALSE
  BY <1>2, <1>3 DEF Raise
<1>4. ASSUME NEW l, Continue(l)
      PROVE  FALSE
  BY <1>4 DEF Continue
<1>5. ASSUME NEW r \in Requests, NEW k \in Kinds, Dispatch(r, k)
      PROVE  FALSE
  BY <1>5 DEF Dispatch
<1>6. ASSUME NEW r \in Requests, StartHandler(r)
      PROVE  FALSE
  BY <1>6 DEF StartHandler
<1>7. ASSUME NEW r \in Requests, Finish(r)
      PROVE  FALSE
  BY <1>7 DEF Finish
<1>8. ASSUME NEW r \in Requests, AnswerLocally(r) \/ QueryStatus(r) \/ QueryFails(r)
                                    \/ FetchDevice(r)
      PROVE  FALSE
  BY <1>2, <1>3, <1>4, <1>8 DEF AnswerLocally, QueryStatus, QueryFails, FetchDevice
<1>9. ASSUME NEW r \in Requests, FetchInterfaces(r)
      PROVE  FALSE
  BY <1>3, <1>4, <1>9 DEF FetchInterfaces
<1>10. ASSUME NEW r \in Requests, FetchAddress(r)
       PROVE  FALSE
  BY <1>3, <1>4, <1>10 DEF FetchAddress
<1>11. ASSUME NetboxEdit \/ Restart
       PROVE  FALSE
  BY <1>11 DEF NetboxEdit, EditIface, EditIps, EditRole, DeleteDevice, Edit, Restart
<1>12. ASSUME NEW r \in Requests, ValidateAndRender(r)
       PROVE  /\ body'[q] = LoadedIntent(load) /\ load.phase = "addresses"
              /\ check_invariants(LoadedIntent(load))
  <2>1. /\ load.phase = "addresses" /\ check_invariants(LoadedIntent(load))
        /\ \E s, lab : Return(r, s, lab, LoadedIntent(load))
    BY <1>2, <1>3, <1>12 DEF ValidateAndRender
  <2>2. body' = [body EXCEPT ![r] = LoadedIntent(load)]
    BY <2>1 DEF Return
  <2> QED BY <1>1, <2>1, <2>2
<1> QED BY <1>5, <1>6, <1>7, <1>8, <1>9, <1>10, <1>11, <1>12 DEF Next

\* However Netbox is edited between the queries of a load, what the renderer
\* serves is an intent a host can boot with.
THEOREM ServedIsBootable == Spec => []RenderedIsBootable
<1>1. Init => RenderedIsBootable
  BY DEF Init, RenderedIsBootable
<1>2. IInv /\ RenderedIsBootable /\ [Next]_vars => RenderedIsBootable'
  <2> SUFFICES ASSUME IInv, RenderedIsBootable, [Next]_vars,
                      NEW q \in Requests, body'[q] # None
               PROVE  Bootable(body'[q])
    BY DEF RenderedIsBootable
  <2>1. CASE body'[q] = body[q]
    BY <2>1 DEF RenderedIsBootable
  <2>2. CASE body'[q] # body[q]
    <3>1. Next
      BY <2>2 DEF vars, reqVars
    <3> DEFINE h == LoadedIntent(load)
    <3>2. body'[q] = h /\ load.phase = "addresses" /\ check_invariants(h)
      BY <2>2, <3>1, BodySource
    <3>3. h \in Intent
      BY <3>2, LoadedTyped DEF IInv, TypeOK
    <3>4. /\ IsFiniteSet(h.vlans) /\ IsFiniteSet(h.roce_underlays)
          /\ IsFiniteSet(h.ib_underlays)
      BY DEF IInv, LoadInv, LoadedIntent
    <3> HIDE DEF h
    <3> QED BY <3>2, <3>3, <3>4, ValidatorsSuffice
  <2> QED BY <2>1, <2>2
<1> QED BY <1>1, <1>2, Inductive, PTL DEF Spec
=============================================================================
