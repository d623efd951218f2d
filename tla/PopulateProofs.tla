---------------------------- MODULE PopulateProofs ----------------------------
(***************************************************************************)
(* Theorems about Populate: for every fixture, any number of runs that     *)
(* die, any objects of others in the way, and any requests meanwhile.      *)
(***************************************************************************)
EXTENDS Populate, RenderServiceProofs

(***************************************************************************)
(* What there is to do.                                                    *)
(***************************************************************************)
Elements(s) == {s[i] : i \in 1 .. Len(s)}

PlanKinds == {"site", "manufacturer", "device_type", "device_role", "vlan", "device", "interface",
              "lag_membership", "interface_parent", "mac_address", "primary_mac_assignment",
              "ip_address"}
PlanSteps == PlanKinds \X (Names \cup {Keyless})

\* Of two lists, one after the other.
LEMMA ConcatElements ==
  ASSUME NEW s \in Seq(PlanSteps), NEW t \in Seq(PlanSteps)
  PROVE  /\ s \o t \in Seq(PlanSteps) /\ Len(s \o t) = Len(s) + Len(t)
         /\ Elements(s \o t) = Elements(s) \cup Elements(t)
         /\ Len(s) # 0 => (s \o t)[1] = s[1]
<1>1. /\ s \o t \in Seq(PlanSteps) /\ Len(s \o t) = Len(s) + Len(t)
      /\ Len(s) \in Nat /\ Len(t) \in Nat
  OBVIOUS
<1>2. \A i \in 1 .. Len(s) + Len(t) : (s \o t)[i] = IF i <= Len(s) THEN s[i] ELSE t[i - Len(s)]
  OBVIOUS
<1>3. ASSUME NEW i \in 1 .. Len(s \o t) PROVE (s \o t)[i] \in Elements(s) \cup Elements(t)
  <2>1. CASE i <= Len(s)
    <3>1. i \in 1 .. Len(s) /\ (s \o t)[i] = s[i]
      BY <1>1, <1>2, <2>1
    <3> QED BY <3>1 DEF Elements
  <2>2. CASE ~(i <= Len(s))
    <3>1. i - Len(s) \in 1 .. Len(t) /\ (s \o t)[i] = t[i - Len(s)]
      BY <1>1, <1>2, <2>2
    <3> QED BY <3>1 DEF Elements
  <2> QED BY <2>1, <2>2
<1>4. ASSUME NEW i \in 1 .. Len(s) PROVE s[i] \in Elements(s \o t)
  <2>1. i \in 1 .. Len(s \o t) /\ (s \o t)[i] = s[i]
    BY <1>1, <1>2
  <2> QED BY <2>1 DEF Elements
<1>5. ASSUME NEW i \in 1 .. Len(t) PROVE t[i] \in Elements(s \o t)
  <2>1. i + Len(s) \in 1 .. Len(s \o t) /\ (s \o t)[i + Len(s)] = t[i]
    BY <1>1, <1>2
  <2> QED BY <2>1 DEF Elements
<1>6. Elements(s \o t) = Elements(s) \cup Elements(t)
  BY <1>3, <1>4, <1>5 DEF Elements
<1>7. Len(s) # 0 => (s \o t)[1] = s[1]
  BY <1>1, <1>2
<1> QED BY <1>1, <1>6, <1>7

\* One loop over a list of interfaces.
LEMMA EachElements ==
  ASSUME NEW k \in PlanKinds, NEW names \in Seq(Names)
  PROVE  /\ Each(k, names) \in Seq(PlanSteps)
         /\ Elements(Each(k, names)) = {<<k, n>> : n \in Elements(names)}
<1>1. \A i \in 1 .. Len(names) : <<k, names[i]>> \in PlanSteps
  BY DEF PlanSteps
<1>2. /\ Each(k, names) \in Seq(PlanSteps) /\ Len(Each(k, names)) = Len(names)
      /\ \A i \in 1 .. Len(names) : Each(k, names)[i] = <<k, names[i]>>
  BY <1>1 DEF Each
<1> QED BY <1>2 DEF Elements

\* The loop of pass 3.
LEMMA MacElements ==
  ASSUME NEW names \in Seq(Names)
  PROVE  /\ MacSteps(names) \in Seq(PlanSteps)
         /\ Elements(MacSteps(names))
              = {<<"mac_address", n>> : n \in Elements(names)}
                  \cup {<<"primary_mac_assignment", n>> : n \in Elements(names)}
<1> DEFINE L == Len(names)
           M == MacSteps(names)
           E == {<<"mac_address", n>> : n \in Elements(names)}
                  \cup {<<"primary_mac_assignment", n>> : n \in Elements(names)}
<1>1. L \in Nat /\ 2 * L \in Nat
  OBVIOUS
<1>2. ASSUME NEW i \in 1 .. 2 * L
      PROVE  /\ i % 2 = 1 => (i + 1) \div 2 \in 1 .. L
             /\ i % 2 # 1 => i \div 2 \in 1 .. L
  BY <1>1
<1>3. \A i \in 1 .. 2 * L : M[i] = IF i % 2 = 1 THEN <<"mac_address", names[(i + 1) \div 2]>>
                                   ELSE <<"primary_mac_assignment", names[i \div 2]>>
  BY DEF MacSteps
<1>4. ASSUME NEW i \in 1 .. 2 * L PROVE M[i] \in E /\ M[i] \in PlanSteps
  <2>1. CASE i % 2 = 1
    <3>1. PICK j \in 1 .. L : j = (i + 1) \div 2
      BY <1>2, <2>1
    <3>2. names[j] \in Elements(names) /\ names[j] \in Names
      BY DEF Elements
    <3>3. M[i] = <<"mac_address", names[j]>>
      BY <1>3, <2>1, <3>1
    <3> QED BY <3>2, <3>3 DEF PlanSteps, PlanKinds
  <2>2. CASE i % 2 # 1
    <3>1. PICK j \in 1 .. L : j = i \div 2
      BY <1>2, <2>2
    <3>2. names[j] \in Elements(names) /\ names[j] \in Names
      BY DEF Elements
    <3>3. M[i] = <<"primary_mac_assignment", names[j]>>
      BY <1>3, <2>2, <3>1
    <3> QED BY <3>2, <3>3 DEF PlanSteps, PlanKinds
  <2> QED BY <2>1, <2>2
<1>5. M \in Seq(PlanSteps) /\ Len(M) = 2 * L
  BY <1>1, <1>4 DEF MacSteps
<1>6. ASSUME NEW j \in 1 .. L
      PROVE  /\ <<"mac_address", names[j]>> \in Elements(M)
             /\ <<"primary_mac_assignment", names[j]>> \in Elements(M)
  <2>1. PICK a \in 1 .. 2 * L : a = 2 * j - 1
    BY <1>1
  <2>2. PICK b \in 1 .. 2 * L : b = 2 * j
    BY <1>1
  <2>3. a % 2 = 1 /\ (a + 1) \div 2 = j /\ b % 2 # 1 /\ b \div 2 = j
    BY <2>1, <2>2
  <2>4. M[a] = <<"mac_address", names[j]>>
    BY <1>3, <2>3
  <2>5. M[b] = <<"primary_mac_assignment", names[j]>>
    BY <1>3, <2>3
  <2> HIDE DEF M
  <2> QED BY <1>5, <2>4, <2>5 DEF Elements
<1> HIDE DEF M
<1>7. Elements(M) = E
  <2>1. Elements(M) \subseteq E
    <3> HIDE DEF E
    <3> QED BY <1>4, <1>5 DEF Elements
  <2>2. ASSUME NEW n \in Elements(names)
        PROVE  /\ <<"mac_address", n>> \in Elements(M)
               /\ <<"primary_mac_assignment", n>> \in Elements(M)
    <3>1. PICK j \in 1 .. L : n = names[j]
      BY DEF Elements
    <3> QED BY <1>6, <3>1
  <2> QED BY <2>1, <2>2
<1> QED BY <1>5, <1>7 DEF M

\* Everything that may be ensured, in passes.
AllSteps ==
  {<<k, Keyless>> : k \in {"site", "manufacturer", "device_type", "device_role", "device"}}
    \cup {<<"lag_membership", n>> : n \in {"nsa", "nsb"}}
    \cup UNION {{<<k, n>> : n \in Elements(interfaces)} :
                  k \in {"vlan", "interface", "interface_parent", "mac_address",
                         "primary_mac_assignment", "ip_address"}}

\* What the plan consists of; the site is the first.
LEMMA PlanElements ==
  /\ Plan \in Seq(PlanSteps) /\ Len(Plan) \in Nat \ {0} /\ Plan[1] = <<"site", Keyless>>
  /\ Elements(Plan) = AllSteps
<1> DEFINE A == <<<<"site", Keyless>>, <<"manufacturer", Keyless>>, <<"device_type", Keyless>>,
                  <<"device_role", Keyless>>>>
           D == <<<<"device", Keyless>>>>
           V == Each("vlan", interfaces)
           I == Each("interface", interfaces)
           G == Each("lag_membership", <<"nsa", "nsb">>)
           P == Each("interface_parent", interfaces)
           M == MacSteps(interfaces)
           Q == Each("ip_address", interfaces)
<1>1. interfaces \in Seq(Names) /\ <<"nsa", "nsb">> \in Seq(Names)
  BY PopulateAssumption DEF Names, NS_NIC_NAMES
<1>2. /\ A \in Seq(PlanSteps) /\ Len(A) = 4 /\ A[1] = <<"site", Keyless>>
      /\ Elements(A)
           = {<<k, Keyless>> : k \in {"site", "manufacturer", "device_type", "device_role"}}
  <2>1. /\ <<"site", Keyless>> \in PlanSteps /\ <<"manufacturer", Keyless>> \in PlanSteps
        /\ <<"device_type", Keyless>> \in PlanSteps /\ <<"device_role", Keyless>> \in PlanSteps
    BY DEF PlanSteps, PlanKinds
  <2>2. A \in Seq(PlanSteps) /\ Len(A) = 4
    BY <2>1
  <2>3. 1 .. 4 = {1, 2, 3, 4}
    OBVIOUS
  <2>4. Elements(A) = {A[1], A[2], A[3], A[4]}
    <3> HIDE DEF A
    <3> QED BY <2>2, <2>3 DEF Elements
  <2> QED BY <2>2, <2>4
<1>3. D \in Seq(PlanSteps) /\ Elements(D) = {<<"device", Keyless>>}
  <2>1. <<"device", Keyless>> \in PlanSteps
    BY DEF PlanSteps, PlanKinds
  <2>2. D \in Seq(PlanSteps) /\ Len(D) = 1 /\ 1 .. 1 = {1} /\ D[1] = <<"device", Keyless>>
    BY <2>1
  <2> HIDE DEF D
  <2>3. Elements(D) = {D[i] : i \in {1}}
    BY <2>2 DEF Elements
  <2> QED BY <2>2, <2>3
<1>4. Elements(<<"nsa", "nsb">>) = {"nsa", "nsb"}
  <2>1. Len(<<"nsa", "nsb">>) = 2 /\ 1 .. 2 = {1, 2}
    OBVIOUS
  <2> QED BY <2>1 DEF Elements
<1>5. {"vlan", "interface", "lag_membership", "interface_parent", "ip_address"} \subseteq PlanKinds
  BY DEF PlanKinds
<1>6. /\ V \in Seq(PlanSteps) /\ Elements(V) = {<<"vlan", n>> : n \in Elements(interfaces)}
      /\ I \in Seq(PlanSteps) /\ Elements(I) = {<<"interface", n>> : n \in Elements(interfaces)}
      /\ G \in Seq(PlanSteps) /\ Elements(G) = {<<"lag_membership", n>> : n \in {"nsa", "nsb"}}
      /\ P \in Seq(PlanSteps)
      /\ Elements(P) = {<<"interface_parent", n>> : n \in Elements(interfaces)}
      /\ Q \in Seq(PlanSteps) /\ Elements(Q) = {<<"ip_address", n>> : n \in Elements(interfaces)}
  BY <1>1, <1>4, <1>5, EachElements
<1>7. /\ M \in Seq(PlanSteps)
      /\ Elements(M) = {<<"mac_address", n>> : n \in Elements(interfaces)}
                         \cup {<<"primary_mac_assignment", n>> : n \in Elements(interfaces)}
  BY <1>1, MacElements
<1> DEFINE S1 == A \o V
           S2 == S1 \o D
           S3 == S2 \o I
           S4 == S3 \o G
           S5 == S4 \o P
           S6 == S5 \o M
<1>8. Plan = S6 \o Q
  BY DEF Plan
<1> HIDE DEF A, D, V, I, G, P, M, Q
<1>9. /\ S1 \in Seq(PlanSteps) /\ Elements(S1) = Elements(A) \cup Elements(V)
      /\ Len(S1) = Len(A) + Len(V) /\ (Len(A) # 0 => S1[1] = A[1])
  BY <1>2, <1>6, ConcatElements
<1> HIDE DEF S1
<1>10. /\ S2 \in Seq(PlanSteps) /\ Elements(S2) = Elements(S1) \cup Elements(D)
       /\ Len(S2) = Len(S1) + Len(D) /\ (Len(S1) # 0 => S2[1] = S1[1])
  BY <1>3, <1>9, ConcatElements
<1> HIDE DEF S2
<1>11. /\ S3 \in Seq(PlanSteps) /\ Elements(S3) = Elements(S2) \cup Elements(I)
       /\ Len(S3) = Len(S2) + Len(I) /\ (Len(S2) # 0 => S3[1] = S2[1])
  BY <1>6, <1>10, ConcatElements
<1> HIDE DEF S3
<1>12. /\ S4 \in Seq(PlanSteps) /\ Elements(S4) = Elements(S3) \cup Elements(G)
       /\ Len(S4) = Len(S3) + Len(G) /\ (Len(S3) # 0 => S4[1] = S3[1])
  BY <1>6, <1>11, ConcatElements
<1> HIDE DEF S4
<1>13. /\ S5 \in Seq(PlanSteps) /\ Elements(S5) = Elements(S4) \cup Elements(P)
       /\ Len(S5) = Len(S4) + Len(P) /\ (Len(S4) # 0 => S5[1] = S4[1])
  BY <1>6, <1>12, ConcatElements
<1> HIDE DEF S5
<1>14. /\ S6 \in Seq(PlanSteps) /\ Elements(S6) = Elements(S5) \cup Elements(M)
       /\ Len(S6) = Len(S5) + Len(M) /\ (Len(S5) # 0 => S6[1] = S5[1])
  BY <1>7, <1>13, ConcatElements
<1> HIDE DEF S6
<1>15. /\ Plan \in Seq(PlanSteps) /\ Elements(Plan) = Elements(S6) \cup Elements(Q)
       /\ Len(Plan) = Len(S6) + Len(Q) /\ (Len(S6) # 0 => Plan[1] = S6[1])
  BY <1>6, <1>8, <1>14, ConcatElements
<1>16. Elements(Plan) = Elements(A) \cup Elements(V) \cup Elements(D) \cup Elements(I)
                          \cup Elements(G) \cup Elements(P) \cup Elements(M) \cup Elements(Q)
  BY <1>9, <1>10, <1>11, <1>12, <1>13, <1>14, <1>15
<1>17. Elements(Plan) = AllSteps
  BY <1>2, <1>3, <1>6, <1>7, <1>16 DEF AllSteps
<1>18. /\ Len(V) \in Nat /\ Len(D) \in Nat /\ Len(I) \in Nat /\ Len(G) \in Nat /\ Len(P) \in Nat
       /\ Len(M) \in Nat /\ Len(Q) \in Nat
  BY <1>3, <1>6, <1>7
<1>19. Len(S1) \in Nat \ {0} /\ Len(S2) \in Nat \ {0} /\ Len(S3) \in Nat \ {0}
  BY <1>2, <1>9, <1>10, <1>11, <1>18
<1>20. Len(S4) \in Nat \ {0} /\ Len(S5) \in Nat \ {0} /\ Len(S6) \in Nat \ {0}
       /\ Len(Plan) \in Nat \ {0}
  <2>1. Len(S4) \in Nat \ {0}
    BY <1>12, <1>18, <1>19
  <2>2. Len(S5) \in Nat \ {0}
    BY <1>13, <1>18, <2>1
  <2>3. Len(S6) \in Nat \ {0}
    BY <1>14, <1>18, <2>2
  <2>4. Len(Plan) \in Nat \ {0}
    BY <1>15, <1>18, <2>3
  <2> QED BY <2>1, <2>2, <2>3, <2>4
<1>21. Len(A) # 0
  BY <1>2
<1>22. Plan[1] = A[1]
  BY <1>9, <1>10, <1>11, <1>12, <1>13, <1>14, <1>15, <1>19, <1>20, <1>21
<1> QED BY <1>2, <1>15, <1>17, <1>20, <1>22

\* What the fixture's things are, interface by interface.
LEMMA ThingsAre ==
  /\ <<"site", Keyless>> \in Things /\ <<"device", Keyless>> \in Things
  /\ \A n \in Names : /\ <<"interface", n>> \in Things <=> Fixture.ifaces[n].present
                      /\ <<"primary_mac_assignment", n>> \in Things <=> Fixture.ifaces[n].mac
                      /\ <<"ip_address", n>> \in Things <=> Fixture.ips[n] # {}
<1>1. Things = {t \in AllSteps : Applies(t)}
  BY PlanElements DEF Things, Elements
<1>2. <<"site", Keyless>> \in AllSteps /\ <<"device", Keyless>> \in AllSteps
  BY DEF AllSteps
<1>3. Applies(<<"site", Keyless>>) /\ Applies(<<"device", Keyless>>)
  BY DEF Applies
<1>4. ASSUME NEW n \in Names
      PROVE  /\ <<"interface", n>> \in AllSteps <=> n \in Elements(interfaces)
             /\ <<"primary_mac_assignment", n>> \in AllSteps <=> n \in Elements(interfaces)
             /\ <<"ip_address", n>> \in AllSteps <=> n \in Elements(interfaces)
  BY DEF AllSteps
<1>5. ASSUME NEW n \in Names
      PROVE  /\ Applies(<<"interface", n>>)
             /\ Applies(<<"primary_mac_assignment", n>>) <=> Fixture.ifaces[n].mac
             /\ Applies(<<"ip_address", n>>) <=> Fixture.ips[n] # {}
  BY DEF Applies, HasMac, HasAddress
<1>6. /\ Elements(interfaces) = Present(Fixture.ifaces, Names)
      /\ \A n \in Names : ~Fixture.ifaces[n].present =>
                            ~Fixture.ifaces[n].mac /\ Fixture.ips[n] = {}
  BY PopulateAssumption DEF Elements, HasMac, HasAddress
<1>7. \A n \in Names : n \in Elements(interfaces) <=> Fixture.ifaces[n].present
  BY <1>6 DEF Present
<1> QED BY <1>1, <1>2, <1>3, <1>4, <1>5, <1>6, <1>7

\* What the loader sees when Netbox has these.
Sees(v, things, others) ==
  /\ v \in Netbox /\ v.slug = Fixture.slug
  /\ v.device <=> <<"device", Keyless>> \in things \cup others
  /\ \A n \in Names :
       /\ v.ifaces[n] \in Iface
       /\ v.ifaces[n].present <=> <<"interface", n>> \in things
       /\ v.ifaces[n].mac <=> <<"primary_mac_assignment", n>> \in things
       /\ v.ifaces[n].mtu = Fixture.ifaces[n].mtu
       /\ v.ifaces[n].vlan = Fixture.ifaces[n].vlan
       /\ v.ifaces[n].vfs = Fixture.ifaces[n].vfs
       /\ v.ips[n] = IF <<"ip_address", n>> \in things THEN Fixture.ips[n] ELSE {}

\* View is that.
LEMMA ViewFields ==
  ASSUME NEW things, NEW others
  PROVE  Sees(View(things, others), things, others)
<1> DEFINE f == [n \in Names |-> [Fixture.ifaces[n] EXCEPT
                   !.present = <<"interface", n>> \in things,
                   !.mac = <<"primary_mac_assignment", n>> \in things]]
           a == [n \in Names |-> IF <<"ip_address", n>> \in things THEN Fixture.ips[n] ELSE {}]
           d == <<"device", Keyless>> \in things \cup others
<1>1. /\ Fixture.ifaces \in [Names -> Iface] /\ Fixture.slug \in Slugs
      /\ Fixture.ips \in [Names -> SUBSET (Addrs \cup {V6})]
  BY PopulateAssumption DEF Netbox
<1>2. ASSUME NEW n \in Names
      PROVE  /\ f[n] \in Iface
             /\ f[n].present <=> <<"interface", n>> \in things
             /\ f[n].mac <=> <<"primary_mac_assignment", n>> \in things
             /\ f[n].mtu = Fixture.ifaces[n].mtu /\ f[n].vlan = Fixture.ifaces[n].vlan
             /\ f[n].vfs = Fixture.ifaces[n].vfs
  <2>1. PICK p \in BOOLEAN : p <=> <<"interface", n>> \in things
    OBVIOUS
  <2>2. PICK m \in BOOLEAN : m <=> <<"primary_mac_assignment", n>> \in things
    OBVIOUS
  <2>3. f[n] = [Fixture.ifaces[n] EXCEPT !.present = p, !.mac = m] /\ Fixture.ifaces[n] \in Iface
    BY <1>1, <2>1, <2>2
  <2> HIDE DEF f
  <2>4. /\ f[n] \in Iface /\ f[n].present = p /\ f[n].mac = m
        /\ f[n].mtu = Fixture.ifaces[n].mtu /\ f[n].vlan = Fixture.ifaces[n].vlan
        /\ f[n].vfs = Fixture.ifaces[n].vfs
    BY <2>3 DEF Iface
  <2> QED BY <2>1, <2>2, <2>4
<1>3. f \in [Names -> Iface]
  BY <1>2
<1>4. a \in [Names -> SUBSET (Addrs \cup {V6})]
  BY <1>1
<1>5. View(things, others) = [device |-> d, slug |-> Fixture.slug, ifaces |-> f, ips |-> a]
  BY DEF View
<1>6. d \in BOOLEAN
  OBVIOUS
<1> HIDE DEF f, a, d
<1>7. View(things, others) \in Netbox
  BY <1>1, <1>3, <1>4, <1>5, <1>6 DEF Netbox
<1>8. /\ View(things, others).device = d /\ View(things, others).slug = Fixture.slug
      /\ View(things, others).ifaces = f /\ View(things, others).ips = a
  BY <1>5
<1>9. d <=> <<"device", Keyless>> \in things \cup others
  BY DEF d
<1>10. \A n \in Names : a[n] = IF <<"ip_address", n>> \in things THEN Fixture.ips[n] ELSE {}
  BY DEF a
<1> QED BY <1>2, <1>7, <1>8, <1>9, <1>10 DEF Sees

\* All of them together are the fixture.
LEMMA WholeView == View(Things, {}) = Fixture
<1> DEFINE v == View(Things, {})
<1>1. Sees(v, Things, {})
  BY ViewFields
<1> HIDE DEF v
<1>2. v \in Netbox /\ Fixture \in Netbox /\ Fixture.device /\ v.device /\ v.slug = Fixture.slug
  BY <1>1, ThingsAre, PopulateAssumption DEF Sees
<1>3. ASSUME NEW n \in Names
      PROVE  v.ifaces[n] = Fixture.ifaces[n] /\ v.ips[n] = Fixture.ips[n]
  <2>1. /\ v.ifaces[n] \in Iface /\ Fixture.ifaces[n] \in Iface
        /\ v.ifaces[n].present <=> Fixture.ifaces[n].present
        /\ v.ifaces[n].mac <=> Fixture.ifaces[n].mac
        /\ v.ifaces[n].mtu = Fixture.ifaces[n].mtu /\ v.ifaces[n].vlan = Fixture.ifaces[n].vlan
        /\ v.ifaces[n].vfs = Fixture.ifaces[n].vfs
    BY <1>1, <1>2, ThingsAre DEF Netbox, Sees
  <2>2. v.ips[n] = Fixture.ips[n]
    BY <1>1, ThingsAre DEF Sees
  <2>3. v.ifaces[n] = Fixture.ifaces[n]
    BY <2>1 DEF Iface
  <2> QED BY <2>2, <2>3
<1>4. v.ifaces = Fixture.ifaces /\ v.ips = Fixture.ips
  BY <1>2, <1>3 DEF Netbox
<1>5. v = Fixture
  BY <1>2, <1>4 DEF Netbox
<1> QED BY <1>5 DEF v

-----------------------------------------------------------------------------
(***************************************************************************)
(* The inductive invariant: the renderer sees what populate has done, and  *)
(* populate has done what it is past.                                      *)
(***************************************************************************)
RunSet == [pc : {"idle", "running", "conflict", "died", "returned"}, i : 1 .. Len(Plan)]

Past(i, things) == \A j \in 1 .. i - 1 : Applies(Plan[j]) => Plan[j] \in things

PopInv ==
  /\ have \subseteq Things /\ foreign \subseteq Things \ have
  /\ run \in RunSet /\ crashes \in 0 .. MaxCrashes
  /\ nb = View(have, foreign)
  /\ run.pc \in {"running", "conflict"} => Applies(Plan[run.i])
  /\ run.pc = "running" => Past(run.i, have)
  /\ run.pc = "returned" => have = Things

\* A write of populate's changes nothing that the service remembers.
LEMMA HoldsIInv ==
  ASSUME IInv, NEW things, NEW others, Holds(things, others)
  PROVE  IInv'
<1> USE DEF Holds, reqVars, countVars
<1>1. load \in Load /\ nb' \in Netbox
  BY ViewFields DEF IInv, TypeOK, Sees
<1>2. load' \in Load
  BY <1>1 DEF Load
<1>3. /\ load'.phase = load.phase /\ load'.slug = load.slug /\ load'.todo = load.todo
      /\ load'.ifaces = load.ifaces /\ load'.vlans = load.vlans
      /\ load'.roce = load.roce /\ load'.ib = load.ib
  BY <1>1 DEF Load
<1>4. TypeOK'
  BY <1>1, <1>2 DEF IInv, TypeOK
<1>5. LoadInv'
  BY <1>3 DEF IInv, LoadInv
<1>6. OneHandler' /\ CountersExact'
  BY DEF IInv, OneHandler, CountersExact
<1> QED BY <1>4, <1>5, <1>6 DEF IInv

\* What applies is one of the fixture's things.
LEMMA PlannedThing ==
  /\ \A i \in 1 .. Len(Plan) : Applies(Plan[i]) => Plan[i] \in Things
  /\ \A t \in Things : \E i \in 1 .. Len(Plan) : t = Plan[i] /\ Applies(Plan[i])
BY DEF Things

\* On to the next thing: nothing in between applies.
LEMMA GoOnKeeps ==
  ASSUME run \in RunSet, run.pc = "running", NEW things, Past(run.i, things),
         Plan[run.i] \in things, GoOn(run.i + 1)
  PROVE  /\ run' \in RunSet
         /\ \/ run'.pc = "returned" /\ Things \subseteq things
            \/ run'.pc = "running" /\ Applies(Plan[run'.i]) /\ Past(run'.i, things)
<1> DEFINE ahead == {j \in run.i + 1 .. Len(Plan) : Applies(Plan[j])}
<1>1. Len(Plan) \in Nat /\ run.i \in 1 .. Len(Plan)
  BY PlanElements DEF RunSet
<1>2. ASSUME NEW j \in 1 .. Len(Plan), Applies(Plan[j]), Plan[j] \notin things
      PROVE  j \in ahead
  <2>1. ~(j \in 1 .. run.i - 1) /\ j # run.i
    BY <1>2 DEF Past
  <2>2. j \in run.i + 1 .. Len(Plan)
    BY <1>1, <2>1
  <2> QED BY <1>2, <2>2
<1>3. CASE ahead = {} /\ run' = [run EXCEPT !.pc = "returned"]
  <2>1. run' \in RunSet /\ run'.pc = "returned"
    BY <1>3 DEF RunSet
  <2>2. Things \subseteq things
    BY <1>2, <1>3, PlannedThing
  <2> QED BY <2>1, <2>2
<1>4. CASE \E j \in ahead : (\A k \in ahead : j <= k) /\ run' = [run EXCEPT !.i = j]
  <2>1. PICK j \in ahead : (\A k \in ahead : j <= k) /\ run' = [run EXCEPT !.i = j]
    BY <1>4
  <2>2. j \in 1 .. Len(Plan) /\ Applies(Plan[j])
    BY <1>1
  <2>3. run' \in RunSet /\ run'.pc = "running" /\ run'.i = j
    BY <2>1, <2>2 DEF RunSet
  <2>4. ASSUME NEW k \in 1 .. j - 1, Applies(Plan[k]), Plan[k] \notin things
        PROVE  FALSE
    <3>1. k \in 1 .. Len(Plan)
      BY <1>1, <2>2
    <3>2. k \in ahead
      BY <1>2, <2>4, <3>1
    <3>3. j <= k
      BY <2>1, <3>2
    <3> QED BY <1>1, <2>2, <3>1, <3>3
  <2>5. Past(j, things)
    BY <2>4 DEF Past
  <2> QED BY <2>2, <2>3, <2>5
<1> QED BY <1>3, <1>4 DEF GoOn

\* It starts with nothing.
LEMMA PopulateInitInv == PopulateInit => IInv /\ PopInv
<1> SUFFICES ASSUME PopulateInit PROVE IInv /\ PopInv
  OBVIOUS
<1>1. IInv
  BY InitIInv DEF PopulateInit
<1>2. run \in RunSet /\ run.pc = "idle"
  <2>1. 1 \in 1 .. Len(Plan)
    BY PlanElements
  <2> QED BY <2>1 DEF PopulateInit, RunSet
<1>3. /\ have = {} /\ foreign \subseteq Things /\ crashes \in 0 .. MaxCrashes
      /\ nb = View(have, foreign)
  BY PopulateAssumption DEF PopulateInit
<1> QED BY <1>1, <1>2, <1>3 DEF PopInv

\* A run's steps that leave Netbox alone.
LEMMA RunInv ==
  ASSUME IInv, PopInv, Start \/ Skip \/ Conflict \/ Dies
  PROVE  IInv' /\ PopInv'
<1>1. UNCHANGED <<vars, have, foreign>>
  BY DEF Start, Skip, Conflict, Dies, Untouched
<1>2. IInv'
  BY <1>1 DEF vars, nbVars, reqVars, countVars, IInv, TypeOK, OneHandler, LoadInv, CountersExact
<1>3. /\ have' \subseteq Things /\ foreign' \subseteq Things \ have' /\ nb' = View(have', foreign')
      /\ crashes' \in 0 .. MaxCrashes
  <2>1. have' = have /\ foreign' = foreign /\ nb' = nb
    BY <1>1 DEF vars, nbVars
  <2>2. crashes' = crashes \/ (crashes < MaxCrashes /\ crashes' = crashes + 1)
    BY DEF Start, Skip, Conflict, Dies
  <2>3. crashes' \in 0 .. MaxCrashes
    BY <2>2, PopulateAssumption DEF PopInv
  <2> QED BY <2>1, <2>3 DEF PopInv
<1>4. CASE Start
  <2>1. 1 \in 1 .. Len(Plan) /\ Plan[1] \in Things /\ Applies(Plan[1])
    <3>1. 1 \in 1 .. Len(Plan) /\ Plan[1] = <<"site", Keyless>>
      BY PlanElements
    <3> QED BY <3>1, ThingsAre DEF Applies
  <2>2. run' \in RunSet /\ run'.pc = "running" /\ run'.i = 1
    BY <1>4, <2>1 DEF Start, RunSet
  <2>3. Past(1, have')
    BY DEF Past
  <2> QED BY <1>2, <1>3, <2>1, <2>2, <2>3 DEF PopInv
<1>5. CASE Skip
  <2>1. run \in RunSet /\ run.pc = "running" /\ Past(run.i, have') /\ Plan[run.i] \in have'
        /\ GoOn(run.i + 1)
    BY <1>1, <1>5 DEF PopInv, Skip, Advance
  <2>2. /\ run' \in RunSet
        /\ \/ run'.pc = "returned" /\ Things \subseteq have'
           \/ run'.pc = "running" /\ Applies(Plan[run'.i]) /\ Past(run'.i, have')
    BY <2>1, GoOnKeeps
  <2> QED BY <1>2, <1>3, <2>2 DEF PopInv
<1>6. CASE Conflict \/ Dies
  <2>1. /\ run' \in RunSet /\ run'.pc \in {"conflict", "died"} /\ run'.i = run.i
        /\ run.pc = "running"
    BY <1>6 DEF PopInv, Conflict, Dies, RunSet
  <2> QED BY <1>2, <1>3, <2>1 DEF PopInv
<1> QED BY <1>4, <1>5, <1>6

\* Its writes, the operator's among them.
LEMMA WriteInv ==
  ASSUME IInv, PopInv, Create \/ DiesAfterCreate \/ Resolve
  PROVE  IInv' /\ PopInv'
<1>1. CASE Create
  <2> DEFINE things == have \cup {Plan[run.i]}
  <2>1. /\ run \in RunSet /\ run.pc = "running" /\ Plan[run.i] \in Things
        /\ Plan[run.i] \notin foreign /\ Past(run.i, have) /\ GoOn(run.i + 1)
    BY <1>1, PlannedThing DEF PopInv, Create, Absent, Advance, RunSet
  <2>2. Holds(things, foreign) /\ UNCHANGED crashes
    BY <1>1 DEF Create
  <2>3. have' = things /\ foreign' = foreign /\ nb' = View(things, foreign) /\ IInv'
    BY <2>2, HoldsIInv DEF Holds
  <2>4. things \subseteq Things /\ foreign \subseteq Things \ things
    BY <2>1 DEF PopInv
  <2>5. Past(run.i, things) /\ Plan[run.i] \in things
    BY <2>1 DEF Past
  <2> HIDE DEF things
  <2>6. /\ run' \in RunSet
        /\ \/ run'.pc = "returned" /\ Things \subseteq things
           \/ run'.pc = "running" /\ Applies(Plan[run'.i]) /\ Past(run'.i, things)
    BY <2>1, <2>5, GoOnKeeps
  <2> QED BY <2>2, <2>3, <2>4, <2>6 DEF PopInv
<1>2. CASE DiesAfterCreate
  <2> DEFINE things == have \cup {Plan[run.i]}
  <2>1. /\ run \in RunSet /\ Plan[run.i] \in Things /\ Plan[run.i] \notin foreign
    BY <1>2, PlannedThing DEF PopInv, DiesAfterCreate, Absent, RunSet
  <2>2. have' = things /\ foreign' = foreign /\ nb' = View(things, foreign) /\ IInv'
    BY <1>2, HoldsIInv DEF DiesAfterCreate, Holds
  <2>3. things \subseteq Things /\ foreign \subseteq Things \ things
    BY <2>1 DEF PopInv
  <2>4. run' \in RunSet /\ run'.pc = "died"
    BY <1>2, <2>1 DEF DiesAfterCreate, RunSet
  <2>5. crashes' \in 0 .. MaxCrashes
    BY <1>2, PopulateAssumption DEF PopInv, DiesAfterCreate
  <2> HIDE DEF things
  <2> QED BY <2>2, <2>3, <2>4, <2>5 DEF PopInv
<1>3. CASE Resolve
  <2> DEFINE others == foreign \ {Plan[run.i]}
  <2>1. have' = have /\ foreign' = others /\ nb' = View(have, others) /\ IInv'
    BY <1>3, HoldsIInv DEF Resolve, Holds
  <2>2. others \subseteq Things \ have /\ UNCHANGED <<run, crashes>> /\ run.pc = "conflict"
    BY <1>3 DEF PopInv, Resolve
  <2> HIDE DEF others
  <2> QED BY <2>1, <2>2 DEF PopInv
<1> QED BY <1>1, <1>2, <1>3

\* A render reads Netbox and writes nothing there.
LEMMA RenderInv ==
  ASSUME IInv, PopInv, NEW r \in Requests, Render(r)
  PROVE  IInv' /\ PopInv'
<1>1. UNCHANGED popVars /\ Next
  BY DEF Render, Next
<1>2. nb' = nb
  BY DEF Render, Dispatch, StartHandler, QueryFails, FetchDevice, FetchInterfaces, FetchAddress,
         ValidateAndRender, Finish, Raise, Return, Continue, nbVars
<1>3. IInv'
  BY <1>1, NextIInv
<1>4. PopInv'
  BY <1>1, <1>2 DEF PopInv, popVars
<1> QED BY <1>3, <1>4

\* Every step keeps both.
LEMMA PopulateNextInv ==
  ASSUME IInv, PopInv, [PopulateNext]_allVars
  PROVE  IInv' /\ PopInv'
<1>1. CASE UNCHANGED allVars
  <2>1. UNCHANGED vars /\ UNCHANGED <<have, foreign, run, crashes>> /\ UNCHANGED nb
    BY <1>1 DEF allVars, popVars, vars, nbVars
  <2>2. IInv'
    BY <2>1, NextIInv
  <2> QED BY <2>1, <2>2 DEF PopInv
<1> QED BY <1>1, RunInv, WriteInv, RenderInv DEF PopulateNext

\* The invariant, for every fixture.
THEOREM PopulateInvariance == PopulateSpec => [](IInv /\ PopInv)
<1>1. PopulateInit => IInv /\ PopInv
  BY PopulateInitInv
<1>2. IInv /\ PopInv /\ [PopulateNext]_allVars => IInv' /\ PopInv'
  BY PopulateNextInv
<1> QED BY <1>1, <1>2, PTL DEF PopulateSpec

\* Population and service are well typed, and nothing is both the fixture's and
\* somebody else's.
THEOREM PopulateTypeCorrect == PopulateSpec => []PopulateTypeOK
<1>1. IInv /\ PopInv => PopulateTypeOK
  BY DEF IInv, PopInv, PopulateTypeOK, RunSet
<1> QED BY <1>1, PopulateInvariance, PTL

\* A run that returns leaves the whole host in Netbox, whatever the runs that died
\* before it left there and whoever had objects in the way (_apply_one).
THEOREM HostIsComplete == PopulateSpec => []PopulateCompletes
<1>1. ASSUME PopInv, run.pc = "returned" PROVE nb = Fixture /\ have = Things
  <2>1. have = Things /\ foreign = {} /\ nb = View(have, foreign)
    BY <1>1 DEF PopInv
  <2> QED BY <2>1, WholeView
<1>2. IInv /\ PopInv => PopulateCompletes
  BY <1>1 DEF PopulateCompletes
<1> QED BY <1>2, PopulateInvariance, PTL

-----------------------------------------------------------------------------
(***************************************************************************)
(* What a load that meets populate reads.  Netbox has an interface or an   *)
(* address as the fixture has it, or not at all: so an intent that has as  *)
(* many interfaces of each kind as the validators require has all of them. *)
(***************************************************************************)
FromFixture(x) ==
  /\ x.name \in Names /\ Fixture.ifaces[x.name].present
  /\ Fixture.ips[x.name] = {x.address}
  /\ x.mtu = read_mtu(Fixture.ifaces[x.name], DefaultMtu(x.name))

ReadInv ==
  /\ load.phase \in {"interfaces", "addresses"} => load.slug = Fixture.slug
  /\ load.phase = "addresses" =>
       /\ \A n \in Names : /\ load.ifaces[n].mtu = Fixture.ifaces[n].mtu
                           /\ load.ifaces[n].vlan = Fixture.ifaces[n].vlan
       /\ \A n \in load.todo : Fixture.ifaces[n].present
  /\ \A x \in load.vlans : FromFixture(x) /\ x.role = Fixture.ifaces[x.name].vlan.name
  /\ \A x \in load.roce \cup load.ib : FromFixture(x)

\* A fixture lists its interfaces, so it has finitely many of each kind.
LEMMA FixtureIsFinite ==
  /\ IsFiniteSet(Present(Fixture.ifaces, VlanNames))
  /\ IsFiniteSet(Present(Fixture.ifaces, RoceNames))
  /\ IsFiniteSet(Present(Fixture.ifaces, IbNames))
<1> DEFINE P == Present(Fixture.ifaces, Names)
<1>1. Len(interfaces) \in Nat /\ interfaces \in [1 .. Len(interfaces) -> Names]
      /\ P = {interfaces[i] : i \in 1 .. Len(interfaces)}
  BY PopulateAssumption
<1>2. interfaces \in Surjection(1 .. Len(interfaces), P)
  <2> HIDE DEF P
  <2> QED BY <1>1 DEF Surjection
<1>3. IsFiniteSet(1 .. Len(interfaces))
  BY <1>1, FS_Interval
<1>4. IsFiniteSet(P)
  BY <1>2, <1>3, FS_Surjection
<1>5. /\ Present(Fixture.ifaces, VlanNames) \in SUBSET P
      /\ Present(Fixture.ifaces, RoceNames) \in SUBSET P
      /\ Present(Fixture.ifaces, IbNames) \in SUBSET P
  BY DEF Present, Names
<1> HIDE DEF P
<1> QED BY <1>4, <1>5, FS_Subset

\* What a complete fixture has of each kind.
LEMMA FixtureCounts ==
  ASSUME Renderable(Fixture)
  PROVE  /\ Cardinality(Present(Fixture.ifaces, VlanNames)) = 3
         /\ \A n \in Present(Fixture.ifaces, VlanNames) : Fixture.ifaces[n].vlan.name \in VlanRoles
         /\ Cardinality(Present(Fixture.ifaces, RoceNames)) = ROCE_COUNT_BY_ROLE[Fixture.slug]
         /\ Cardinality(Present(Fixture.ifaces, IbNames)) = IB_COUNT_BY_ROLE[Fixture.slug]
<1> DEFINE A == Present(Fixture.ifaces, VlanNames \cup RoceNames \cup IbNames)
<1>1. /\ A \cap VlanNames = Present(Fixture.ifaces, VlanNames)
      /\ A \cap RoceNames = Present(Fixture.ifaces, RoceNames)
      /\ A \cap IbNames = Present(Fixture.ifaces, IbNames)
  BY DEF Present
<1>2. /\ Fixture.slug \in Roles
      /\ Cardinality(A \cap VlanNames) = 3
      /\ \A n \in A \cap VlanNames : Fixture.ifaces[n].vlan.name \in VlanRoles
      /\ Cardinality(A \cap RoceNames)
           = IF Fixture.slug \in {"gpu-b300", "gpu-b200"} THEN UnderlayCount ELSE 0
      /\ Cardinality(A \cap IbNames) = IF Fixture.slug \in {"gpu-h200"} THEN UnderlayCount ELSE 0
  <2>1. /\ Fixture.slug \in Roles
        /\ \A n \in A \cap VlanNames : Fixture.ifaces[n].vlan.name \in VlanRoles
    BY DEF Renderable, Wired, Configured, Carriers
  <2> QED BY <2>1 DEF Renderable, Consistent, Carriers
<1> HIDE DEF A
<1> QED BY <1>1, <1>2 DEF ROCE_COUNT_BY_ROLE, IB_COUNT_BY_ROLE

\* Three VLANs with the three roles are all the VLANs of the fixture.
LEMMA AllVlans ==
  ASSUME Renderable(Fixture), NEW h \in Intent, check_invariants(h), IsFiniteSet(h.vlans),
         \A x \in h.vlans : FromFixture(x) /\ x.role = Fixture.ifaces[x.name].vlan.name,
         NEW n \in VlanNames, Fixture.ifaces[n].present
  PROVE  \E x \in h.vlans : x.name = n
<1> DEFINE V == Present(Fixture.ifaces, VlanNames)
           R(r) == {w \in h.vlans : w.role = r}
<1>1. ASSUME NEW r \in VlanRoles PROVE \E v \in h.vlans : v.role = r
  <2>1. IsFiniteSet(R(r)) /\ Cardinality(R(r)) = 1
    BY FS_Subset DEF check_invariants, check_vlan_roles_complete
  <2>2. PICK v : R(r) = {v}
    BY <2>1, FS_Singleton
  <2> QED BY <2>2
<1>2. PICK a \in h.vlans : a.role = "mgmt"
  BY <1>1 DEF VlanRoles
<1>3. PICK b \in h.vlans : b.role = "storage"
  BY <1>1 DEF VlanRoles
<1>4. PICK c \in h.vlans : c.role = "ingress"
  BY <1>1 DEF VlanRoles
<1>5. \A x \in h.vlans : x.name \in VlanNames
  BY DEF Intent, VlanChild
<1>6. a.name \in V /\ b.name \in V /\ c.name \in V
  BY <1>5 DEF FromFixture, Present
<1>7. a.name # b.name /\ a.name # c.name /\ b.name # c.name
  BY <1>2, <1>3, <1>4
<1> DEFINE na == a.name
           ns == b.name
           nc == c.name
           T == {na, ns, nc}
<1>8. Cardinality(T) = 3
  <2>1. na # ns /\ na # nc /\ ns # nc
    BY <1>7
  <2> HIDE DEF na, ns, nc
  <2> QED BY <2>1, ThreeDiffer
<1>9. IsFiniteSet(V) /\ Cardinality(V) = 3 /\ T \in SUBSET V /\ n \in V
  BY <1>6, FixtureIsFinite, FixtureCounts DEF Present
<1> HIDE DEF V
<1>10. V = T
  <2> HIDE DEF T
  <2> QED BY <1>8, <1>9, FS_Subset
<1> QED BY <1>9, <1>10

\* As many underlays as the role has are all the underlays of the fixture.
LEMMA AllUnderlays ==
  ASSUME Renderable(Fixture), NEW h \in Intent, check_invariants(h), h.role = Fixture.slug,
         \A x \in h.roce_underlays \cup h.ib_underlays : FromFixture(x),
         NEW n \in RoceNames \cup IbNames, Fixture.ifaces[n].present
  PROVE  \E x \in h.roce_underlays \cup h.ib_underlays : x.name = n
<1>1. /\ h.roce_underlays \subseteq RoceUnderlay /\ h.ib_underlays \subseteq InfinibandUnderlay
      /\ \A x, y \in h.roce_underlays \cup h.ib_underlays : x.name = y.name => x = y
  BY DEF Intent, check_invariants, check_unique_names, Addressed
<1>2. CASE n \in RoceNames
  <2> DEFINE S == h.roce_underlays
             T == Present(Fixture.ifaces, RoceNames)
             f == [x \in S |-> x.name]
  <2>1. \A x \in S : x.name \in T
    BY <1>1 DEF RoceUnderlay, FromFixture, Present
  <2>2. IsFiniteSet(T) /\ Cardinality(S) = Cardinality(T) /\ n \in T
    BY <1>2, FixtureIsFinite, FixtureCounts
       DEF check_invariants, check_roce_count_for_role, Present
  <2>3. f \in Injection(S, T)
    <3> HIDE DEF S, T
    <3>1. f \in [S -> T]
      BY <2>1
    <3>2. \A x, y \in S : f[x] = f[y] => x = y
      BY <1>1 DEF S
    <3> QED BY <3>1, <3>2 DEF Injection, IsInjective
  <2> HIDE DEF S, T
  <2>4. f \in Surjection(S, T)
    <3> HIDE DEF f
    <3> QED BY <2>2, <2>3, FS_Injection
  <2>5. PICK x \in S : f[x] = n
    BY <2>2, <2>4 DEF Surjection
  <2> QED BY <2>5 DEF S
<1>3. CASE n \in IbNames
  <2> DEFINE S == h.ib_underlays
             T == Present(Fixture.ifaces, IbNames)
             f == [x \in S |-> x.name]
  <2>1. \A x \in S : x.name \in T
    BY <1>1 DEF InfinibandUnderlay, FromFixture, Present
  <2>2. IsFiniteSet(T) /\ Cardinality(S) = Cardinality(T) /\ n \in T
    BY <1>3, FixtureIsFinite, FixtureCounts
       DEF check_invariants, check_ib_count_for_role, Present
  <2>3. f \in Injection(S, T)
    <3> HIDE DEF S, T
    <3>1. f \in [S -> T]
      BY <2>1
    <3>2. \A x, y \in S : f[x] = f[y] => x = y
      BY <1>1 DEF S
    <3> QED BY <3>1, <3>2 DEF Injection, IsInjective
  <2> HIDE DEF S, T
  <2>4. f \in Surjection(S, T)
    <3> HIDE DEF f
    <3> QED BY <2>2, <2>3, FS_Injection
  <2>5. PICK x \in S : f[x] = n
    BY <2>2, <2>4 DEF Surjection
  <2> QED BY <2>5 DEF S
<1> QED BY <1>2, <1>3

\* An accepted intent that is made of parts of a complete fixture is all of it.
LEMMA WholeHost ==
  ASSUME Renderable(Fixture), NEW h \in Intent, check_invariants(h), IsFiniteSet(h.vlans),
         h.role = Fixture.slug,
         \A x \in h.vlans : FromFixture(x) /\ x.role = Fixture.ifaces[x.name].vlan.name,
         \A x \in h.roce_underlays \cup h.ib_underlays : FromFixture(x)
  PROVE  IntentAddresses(h) = NetboxAddresses(Fixture)
<1> DEFINE A == Present(Fixture.ifaces, VlanNames \cup RoceNames \cup IbNames)
<1>1. \A x \in Addressed(h) :
        x.name \in VlanNames \cup RoceNames \cup IbNames /\ x.address \in Addrs
  BY DEF Addressed, Intent, VlanChild, RoceUnderlay, InfinibandUnderlay
<1>2. \A x \in Addressed(h) : FromFixture(x)
  BY DEF Addressed
<1>3. ASSUME NEW x \in Addressed(h) PROVE <<x.name, x.address>> \in NetboxAddresses(Fixture)
  <2>1. x.name \in A /\ x.name \in Names /\ x.address \in Addrs /\ x.address \in Fixture.ips[x.name]
    BY <1>1, <1>2 DEF FromFixture, Present
  <2> QED BY <2>1 DEF NetboxAddresses, Carriers
<1>4. ASSUME NEW n \in A, NEW a \in Fixture.ips[n]
      PROVE  \E x \in Addressed(h) : n = x.name /\ a = x.address
  <2>1. \E x \in Addressed(h) : x.name = n
    <3>1. Fixture.ifaces[n].present /\ n \in VlanNames \cup RoceNames \cup IbNames
      BY DEF Present
    <3>2. CASE n \in VlanNames
      BY <3>1, <3>2, AllVlans DEF Addressed
    <3>3. CASE n \in RoceNames \cup IbNames
      <4>1. \E x \in h.roce_underlays \cup h.ib_underlays : x.name = n
        BY <3>1, <3>3, AllUnderlays
      <4> QED BY <4>1 DEF Addressed
    <3> QED BY <3>1, <3>2, <3>3
  <2>2. PICK x \in Addressed(h) : x.name = n
    BY <2>1
  <2>3. Fixture.ips[n] = {x.address}
    BY <1>2, <2>2 DEF FromFixture
  <2> QED BY <2>2, <2>3
<1>5. ASSUME NEW p \in NetboxAddresses(Fixture) PROVE p \in IntentAddresses(h)
  <2>1. p \in Names \X Addrs /\ p[1] \in A /\ p[2] \in Fixture.ips[p[1]]
    BY DEF NetboxAddresses, Carriers
  <2>2. p = <<p[1], p[2]>>
    BY <2>1
  <2>3. PICK x \in Addressed(h) : p[1] = x.name /\ p[2] = x.address
    BY <1>4, <2>1
  <2> QED BY <2>2, <2>3 DEF IntentAddresses
<1> QED BY <1>3, <1>5 DEF IntentAddresses

\* What one iteration of a build loop adds is the fixture's.
LEMMA BuiltFromFixture ==
  ASSUME IInv, PopInv, ReadInv, load.phase = "addresses", NEW n \in load.todo,
         build_error(n, load.ifaces[n], nb.ips[n]) = "ok"
  PROVE  /\ n \in VlanNames =>
              /\ FromFixture(build_vlan(n, load.ifaces[n], nb.ips[n]))
              /\ build_vlan(n, load.ifaces[n], nb.ips[n]).name = n
              /\ build_vlan(n, load.ifaces[n], nb.ips[n]).role = Fixture.ifaces[n].vlan.name
         /\ n \in RoceNames => FromFixture(build_roce(n, load.ifaces[n], nb.ips[n]))
         /\ n \in IbNames => FromFixture(build_ib(n, load.ifaces[n], nb.ips[n]))
<1> DEFINE a == single_ip(nb.ips[n])
<1>1. n \in VlanNames \cup RoceNames \cup IbNames /\ n \in Names /\ Fixture.ifaces[n].present
  BY DEF IInv, LoadInv, ReadInv, Names
<1>2. single_ip_error(nb.ips[n]) = "ok" /\ nb.ips[n] \in SUBSET (Addrs \cup {V6})
  BY <1>1 DEF build_error, IInv, TypeOK, Netbox
<1>3. nb.ips[n] = {a}
  <2>1. Cardinality(nb.ips[n]) = 1
    BY <1>2 DEF single_ip_error
  <2>2. IsFiniteSet(Addrs \cup {V6})
    BY ConstantsAssumption, FS_AddElement
  <2>3. IsFiniteSet(nb.ips[n])
    BY <1>2, <2>2, FS_Subset
  <2>4. PICK b : nb.ips[n] = {b}
    BY <2>1, <2>3, FS_Singleton
  <2> QED BY <2>4 DEF single_ip
<1>4. nb.ips[n] = Fixture.ips[n] \/ nb.ips[n] = {}
  <2>1. Sees(nb, have, foreign)
    BY ViewFields DEF PopInv
  <2> QED BY <1>1, <2>1 DEF Sees
<1>5. Fixture.ips[n] = {a}
  BY <1>3, <1>4
<1>6. load.ifaces[n].mtu = Fixture.ifaces[n].mtu /\ load.ifaces[n].vlan = Fixture.ifaces[n].vlan
  BY <1>1 DEF ReadInv
<1>7. \A d \in Nat : read_mtu(load.ifaces[n], d) = read_mtu(Fixture.ifaces[n], d)
  BY <1>6 DEF read_mtu
<1> HIDE DEF a
<1>8. CASE n \in VlanNames
  <2> DEFINE v == build_vlan(n, load.ifaces[n], nb.ips[n])
  <2>1. v.name = n /\ v.address = a /\ v.role = Fixture.ifaces[n].vlan.name
        /\ v.mtu = read_mtu(Fixture.ifaces[n], 1500)
    BY <1>6, <1>7 DEF build_vlan, a
  <2>2. DefaultMtu(n) = 1500 /\ n \notin RoceNames \cup IbNames
    BY <1>8, ConstantsAssumption DEF DefaultMtu
  <2> HIDE DEF v
  <2>3. FromFixture(v)
    BY <1>1, <1>5, <2>1, <2>2 DEF FromFixture
  <2> QED BY <2>1, <2>2, <2>3 DEF v
<1>9. CASE n \in RoceNames
  <2> DEFINE v == build_roce(n, load.ifaces[n], nb.ips[n])
  <2>1. v.name = n /\ v.address = a /\ v.mtu = read_mtu(Fixture.ifaces[n], 9000)
    BY <1>7 DEF build_roce, a
  <2>2. DefaultMtu(n) = 9000 /\ n \notin VlanNames \cup IbNames
    BY <1>9, ConstantsAssumption DEF DefaultMtu
  <2> HIDE DEF v
  <2>3. FromFixture(v)
    BY <1>1, <1>5, <2>1, <2>2 DEF FromFixture
  <2> QED BY <2>2, <2>3 DEF v
<1>10. CASE n \in IbNames
  <2> DEFINE v == build_ib(n, load.ifaces[n], nb.ips[n])
  <2>1. v.name = n /\ v.address = a /\ v.mtu = read_mtu(Fixture.ifaces[n], 2044)
    BY <1>7 DEF build_ib, a
  <2>2. DefaultMtu(n) = 2044 /\ n \notin VlanNames \cup RoceNames
    BY <1>10, ConstantsAssumption DEF DefaultMtu
  <2> HIDE DEF v
  <2>3. FromFixture(v)
    BY <1>1, <1>5, <2>1, <2>2 DEF FromFixture
  <2> QED BY <2>2, <2>3 DEF v
<1> QED BY <1>1, <1>8, <1>9, <1>10

\* A load forgets what it has read when its handler returns.
LEMMA ReturnReads ==
  ASSUME NEW r, NEW s, NEW lab, NEW h, Return(r, s, lab, h)
  PROVE  ReadInv'
<1>1. /\ load'.phase = "none" /\ load'.vlans = {} /\ load'.roce = {} /\ load'.ib = {}
  BY DEF Return, NoLoad
<1> QED BY <1>1 DEF ReadInv

\* One more interface built is one more of the fixture's.
LEMMA FetchAddressReads ==
  ASSUME IInv, PopInv, ReadInv, NEW r \in Requests, FetchAddress(r)
  PROVE  ReadInv'
<1>1. /\ load.phase = "addresses" /\ load \in Load
      /\ load.todo \subseteq VlanNames \cup RoceNames \cup IbNames
  BY DEF FetchAddress, IInv, TypeOK, LoadInv
<1> DEFINE err(n) == build_error(n, load.ifaces[n], nb.ips[n])
           l(n) == [load EXCEPT !.todo = @ \ {n}]
           v(n) == build_vlan(n, load.ifaces[n], nb.ips[n])
           g(n) == build_roce(n, load.ifaces[n], nb.ips[n])
           b(n) == build_ib(n, load.ifaces[n], nb.ips[n])
<1>2. PICK n \in NextInLine(load.todo) :
        \/ err(n) # "ok" /\ Raise(r, err(n))
        \/ err(n) = "ok" /\ n \in VlanNames /\ Continue([l(n) EXCEPT !.vlans = @ \cup {v(n)}])
        \/ err(n) = "ok" /\ n \in RoceNames /\ Continue([l(n) EXCEPT !.roce = @ \cup {g(n)}])
        \/ err(n) = "ok" /\ n \in IbNames /\ Continue([l(n) EXCEPT !.ib = @ \cup {b(n)}])
  BY DEF FetchAddress
<1>3. n \in load.todo
  BY <1>2 DEF NextInLine
<1>4. err(n) = "ok" =>
        /\ n \in VlanNames => /\ FromFixture(v(n)) /\ v(n).name = n
                              /\ v(n).role = Fixture.ifaces[n].vlan.name
        /\ n \in RoceNames => FromFixture(g(n))
        /\ n \in IbNames => FromFixture(b(n))
  BY <1>1, <1>3, BuiltFromFixture
<1> HIDE DEF err, v, g, b
<1>5. CASE Raise(r, err(n))
  BY <1>5, ReturnReads DEF Raise
<1>6. CASE err(n) = "ok" /\ n \in VlanNames /\ Continue([l(n) EXCEPT !.vlans = @ \cup {v(n)}])
  <2>1. /\ load'.phase = load.phase /\ load'.slug = load.slug /\ load'.ifaces = load.ifaces
        /\ load'.todo = load.todo \ {n} /\ load'.vlans = load.vlans \cup {v(n)}
        /\ load'.roce = load.roce /\ load'.ib = load.ib
    BY <1>1, <1>6 DEF Continue, Load
  <2> QED BY <1>4, <1>6, <2>1 DEF ReadInv
<1>7. CASE err(n) = "ok" /\ n \in RoceNames /\ Continue([l(n) EXCEPT !.roce = @ \cup {g(n)}])
  <2>1. /\ load'.phase = load.phase /\ load'.slug = load.slug /\ load'.ifaces = load.ifaces
        /\ load'.todo = load.todo \ {n} /\ load'.vlans = load.vlans
        /\ load'.roce = load.roce \cup {g(n)} /\ load'.ib = load.ib
    BY <1>1, <1>7 DEF Continue, Load
  <2> QED BY <1>4, <1>7, <2>1 DEF ReadInv
<1>8. CASE err(n) = "ok" /\ n \in IbNames /\ Continue([l(n) EXCEPT !.ib = @ \cup {b(n)}])
  <2>1. /\ load'.phase = load.phase /\ load'.slug = load.slug /\ load'.ifaces = load.ifaces
        /\ load'.todo = load.todo \ {n} /\ load'.vlans = load.vlans
        /\ load'.roce = load.roce /\ load'.ib = load.ib \cup {b(n)}
    BY <1>1, <1>8 DEF Continue, Load
  <2> QED BY <1>4, <1>8, <2>1 DEF ReadInv
<1> QED BY <1>2, <1>5, <1>6, <1>7, <1>8

\* The loader's other steps.
LEMMA RenderReads ==
  ASSUME IInv, PopInv, ReadInv, NEW r \in Requests, Render(r)
  PROVE  ReadInv'
<1>1. load \in Load /\ Sees(nb, have, foreign)
  BY ViewFields DEF IInv, TypeOK, PopInv
<1>2. ASSUME NEW err, Raise(r, err) PROVE ReadInv'
  BY <1>2, ReturnReads DEF Raise
<1>3. CASE (\E k \in Kinds : Dispatch(r, k)) \/ Finish(r)
  <2>1. load' = load
    BY <1>3 DEF Dispatch, Finish
  <2> QED BY <2>1 DEF ReadInv
<1>4. CASE StartHandler(r)
  <2>1. /\ load'.phase \in {"status", "device"}
        /\ load'.vlans = {} /\ load'.roce = {} /\ load'.ib = {}
    BY <1>4 DEF StartHandler, NoLoad
  <2> QED BY <2>1 DEF ReadInv
<1>5. CASE QueryFails(r)
  BY <1>2, <1>5 DEF QueryFails
<1>6. CASE FetchDevice(r)
  <2>1. CASE Continue([load EXCEPT !.phase = "interfaces", !.slug = nb.slug])
    <3>1. /\ load'.phase = "interfaces" /\ load'.slug = nb.slug /\ load'.vlans = load.vlans
          /\ load'.roce = load.roce /\ load'.ib = load.ib
      BY <1>1, <2>1 DEF Continue, Load
    <3>2. nb.slug = Fixture.slug
      BY <1>1 DEF Sees
    <3> QED BY <3>1, <3>2 DEF ReadInv
  <2> QED BY <1>2, <1>6, <2>1 DEF FetchDevice
<1>7. CASE FetchInterfaces(r)
  <2> DEFINE l == [load EXCEPT !.phase = "addresses", !.ifaces = nb.ifaces,
                               !.todo = WithAddress(nb.ifaces)]
  <2>1. CASE Continue(l)
    <3>1. /\ load.phase = "interfaces" /\ load'.phase = "addresses" /\ load'.slug = load.slug
          /\ load'.ifaces = nb.ifaces /\ load'.todo = WithAddress(nb.ifaces)
          /\ load'.vlans = load.vlans /\ load'.roce = load.roce /\ load'.ib = load.ib
      BY <1>1, <1>7, <2>1 DEF FetchInterfaces, Continue, Load
    <3>2. \A n \in Names : /\ nb.ifaces[n].mtu = Fixture.ifaces[n].mtu
                           /\ nb.ifaces[n].vlan = Fixture.ifaces[n].vlan
      BY <1>1 DEF Sees
    <3>3. ASSUME NEW n \in WithAddress(nb.ifaces) PROVE Fixture.ifaces[n].present
      <4>1. n \in Names /\ nb.ifaces[n].present
        BY DEF WithAddress, Present, Names
      <4>2. <<"interface", n>> \in Things
        BY <1>1, <4>1 DEF Sees, PopInv
      <4> QED BY <4>1, <4>2, ThingsAre
    <3> QED BY <3>1, <3>2, <3>3 DEF ReadInv
  <2> QED BY <1>2, <1>7, <2>1 DEF FetchInterfaces
<1>8. CASE ValidateAndRender(r)
  BY <1>2, <1>8, ReturnReads DEF ValidateAndRender
<1> QED BY <1>3, <1>4, <1>5, <1>6, <1>7, <1>8, FetchAddressReads DEF Render

\* Populate changes nothing that a load has read.
LEMMA NextReads ==
  ASSUME IInv, PopInv, ReadInv, [PopulateNext]_allVars
  PROVE  ReadInv'
<1>1. CASE UNCHANGED load
  BY <1>1 DEF ReadInv
<1>2. CASE \E things, others : Holds(things, others)
  <2>1. load \in Load /\ load' = [load EXCEPT !.dirty = @ \/ loop # None]
    BY <1>2 DEF IInv, TypeOK, Holds
  <2>2. /\ load'.phase = load.phase /\ load'.slug = load.slug /\ load'.todo = load.todo
        /\ load'.ifaces = load.ifaces /\ load'.vlans = load.vlans
        /\ load'.roce = load.roce /\ load'.ib = load.ib
    BY <2>1 DEF Load
  <2> QED BY <2>2 DEF ReadInv
<1>3. CASE Start \/ Skip \/ Conflict \/ Dies \/ UNCHANGED allVars
  BY <1>1, <1>3 DEF Start, Skip, Conflict, Dies, Untouched, allVars, vars
<1>4. CASE Create \/ DiesAfterCreate \/ Resolve
  BY <1>2, <1>4 DEF Create, DiesAfterCreate, Resolve
<1> QED BY <1>3, <1>4, RenderReads DEF PopulateNext

\* The renderer never serves a host that is only partly populated: of a fixture that
\* describes a host completely, a body has the role, every address and every MTU,
\* whichever passes and runs the load's queries fell between.
THEOREM OnlyWholeHosts == PopulateSpec => [](Renderable(Fixture) => NoPartialIntent)
<1> DEFINE Whole == Renderable(Fixture) => NoPartialIntent
<1>1. PopulateInit => ReadInv /\ Whole
  <2> SUFFICES ASSUME PopulateInit PROVE ReadInv /\ Whole
    OBVIOUS
  <2>1. load.phase = "none" /\ load.vlans = {} /\ load.roce = {} /\ load.ib = {}
    BY DEF PopulateInit, Init, NoLoad
  <2>2. \A r \in Requests : body[r] = None
    BY DEF PopulateInit, Init
  <2> QED BY <2>1, <2>2 DEF ReadInv, NoPartialIntent
<1>2. ASSUME IInv, PopInv, ReadInv, Whole, [PopulateNext]_allVars
      PROVE  Whole'
  <2> SUFFICES ASSUME Renderable(Fixture), NoPartialIntent, NEW q \in Requests, body'[q] # None
               PROVE  /\ body'[q].role = Fixture.slug
                      /\ IntentAddresses(body'[q]) = NetboxAddresses(Fixture)
                      /\ \A x \in Addressed(body'[q]) :
                           x.mtu = read_mtu(Fixture.ifaces[x.name], DefaultMtu(x.name))
    BY <1>2 DEF NoPartialIntent
  <2>1. CASE body'[q] = body[q]
    BY <2>1 DEF NoPartialIntent
  <2>2. CASE body'[q] # body[q]
    <3> DEFINE h == LoadedIntent(load)
    <3>1. Next
      <4>1. ~UNCHANGED body
        BY <2>2
      <4>2. PICK r \in Requests : Render(r)
        BY <1>2, <4>1 DEF PopulateNext, Start, Skip, Conflict, Create, Dies, DiesAfterCreate,
                          Resolve, Untouched, Holds, allVars, vars, reqVars
      <4> QED BY <4>2 DEF Render, Next
    <3>2. body'[q] = h /\ load.phase = "addresses" /\ check_invariants(h)
      BY <1>2, <2>2, <3>1, BodySource
    <3>3. h \in Intent
      BY <1>2, <3>2, LoadedTyped DEF IInv, TypeOK
    <3>4. /\ h.role = load.slug /\ h.vlans = load.vlans /\ h.roce_underlays = load.roce
          /\ h.ib_underlays = load.ib
      BY DEF LoadedIntent
    <3>5. IsFiniteSet(load.vlans)
      BY <1>2 DEF IInv, LoadInv
    <3> HIDE DEF h
    <3>6. /\ h.role = Fixture.slug
          /\ \A x \in h.vlans : FromFixture(x) /\ x.role = Fixture.ifaces[x.name].vlan.name
          /\ \A x \in h.roce_underlays \cup h.ib_underlays : FromFixture(x)
      BY <1>2, <3>2, <3>4 DEF ReadInv
    <3>7. IntentAddresses(h) = NetboxAddresses(Fixture)
      BY <3>2, <3>3, <3>4, <3>5, <3>6, WholeHost
    <3>8. \A x \in Addressed(h) : x.mtu = read_mtu(Fixture.ifaces[x.name], DefaultMtu(x.name))
      BY <3>6 DEF Addressed, FromFixture
    <3> QED BY <3>2, <3>6, <3>7, <3>8
  <2> QED BY <2>1, <2>2
<1>3. IInv /\ PopInv /\ ReadInv /\ Whole /\ [PopulateNext]_allVars => ReadInv' /\ Whole'
  BY <1>2, NextReads
<1> QED BY <1>1, <1>3, PopulateInvariance, PTL DEF PopulateSpec
=============================================================================
