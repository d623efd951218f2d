----------------------------- MODULE EmitterProofs -----------------------------
(***************************************************************************)
(* The canonical order is one: whatever order Netbox lists the interfaces  *)
(* in, _canonicalize returns the same lists, unless two elements of a list *)
(* have the same key; then the order they were listed in remains.          *)
(*                                                                         *)
(* The proofs are about sorting with a key that is a function; the sorts   *)
(* of _canonicalize are shown to be of this kind.                          *)
(***************************************************************************)
EXTENDS Emitter, FiniteSetTheorems, TLAPS

\* The order a stable sort by key puts the positions of s in, and the place a
\* position ends up at.
Before(s, key, i, j) == key[s[i]] < key[s[j]] \/ (key[s[i]] = key[s[j]] /\ i <= j)
Upto(s, key, j)      == {i \in DOMAIN s : Before(s, key, i, j)}
Place(s, key, j)     == Cardinality(Upto(s, key, j))

\* out is s, sorted.
SortsTo(s, key, out) ==
  /\ out = [k \in DOMAIN s |-> out[k]]
  /\ \A j \in DOMAIN s : out[Place(s, key, j)] = s[j]

\* The keys of _canonicalize.
NameKey(S) == [x \in S |-> NameRank[x.name]]
VlanKey(S) == [v \in S |-> v.vlan_id]
TextKey(S) == [n \in S |-> NameRank[n]]

\* The listings of a set are its bijections with an initial segment of the naturals.
LEMMA ListingOf ==
  ASSUME NEW S, IsFiniteSet(S), NEW s \in SetToSeqs(S)
  PROVE  /\ Cardinality(S) \in Nat /\ DOMAIN s = 1 .. Cardinality(S)
         /\ \A i \in DOMAIN s : s[i] \in S
         /\ \A i, j \in DOMAIN s : s[i] = s[j] => i = j
         /\ \A x \in S : \E i \in DOMAIN s : s[i] = x
<1> DEFINE n == Cardinality(S)
           D == 1 .. n
<1>1. n \in Nat
  BY FS_CardinalityType
<1>2. s \in [D -> S] /\ \A i, j \in D : s[i] = s[j] => i = j
  BY DEF SetToSeqs
<1>3. IsFiniteSet(D) /\ Cardinality(D) = n
  <2>1. 1 \in Int /\ n \in Int /\ (1 > n => n = 0) /\ n - 1 + 1 = n
    BY <1>1
  <2> HIDE DEF n
  <2>2. IsFiniteSet(1 .. n) /\ Cardinality(1 .. n) = IF 1 > n THEN 0 ELSE n - 1 + 1
    BY <2>1, FS_Interval
  <2> QED BY <2>1, <2>2
<1> HIDE DEF D
<1>4. s \in Injection(D, S)
  BY <1>2 DEF Injection, IsInjective
<1>5. s \in Surjection(D, S)
  BY <1>3, <1>4, FS_Injection
<1>6. \A x \in S : \E i \in D : s[i] = x
  BY <1>5 DEF Surjection
<1>7. DOMAIN s = D
  BY <1>2
<1> QED BY <1>1, <1>2, <1>6, <1>7 DEF D

\* A stable sort moves the elements of a listing each to a place of its own.
LEMMA PlaceExact ==
  ASSUME NEW S, IsFiniteSet(S), NEW s \in SetToSeqs(S), NEW key \in [S -> Nat]
  PROVE  /\ \A j \in DOMAIN s : Place(s, key, j) \in DOMAIN s
         /\ \A i, j \in DOMAIN s : i # j /\ Before(s, key, i, j) =>
              Place(s, key, i) < Place(s, key, j)
         /\ \A i, j \in DOMAIN s : Place(s, key, i) = Place(s, key, j) => i = j
         /\ \A k \in DOMAIN s : \E j \in DOMAIN s : Place(s, key, j) = k
<1> DEFINE D == DOMAIN s
           n == Cardinality(S)
<1>1. n \in Nat /\ D = 1 .. n
  BY ListingOf
<1>2. \A i \in D : key[s[i]] \in Nat
  BY ListingOf
<1>3. IsFiniteSet(D) /\ Cardinality(D) = n
  <2>1. 1 \in Int /\ n \in Int /\ (1 > n => n = 0) /\ n - 1 + 1 = n
    BY <1>1
  <2> HIDE DEF n, D
  <2>2. IsFiniteSet(1 .. n) /\ Cardinality(1 .. n) = IF 1 > n THEN 0 ELSE n - 1 + 1
    BY <2>1, FS_Interval
  <2> QED BY <1>1, <2>1, <2>2
<1> HIDE DEF D, n
<1>4. \A j \in D : Upto(s, key, j) \in SUBSET D /\ j \in Upto(s, key, j)
  BY <1>1, <1>2 DEF Upto, Before, D
<1>5. ASSUME NEW j \in D
      PROVE  IsFiniteSet(Upto(s, key, j)) /\ Place(s, key, j) \in 1 .. n
  <2> DEFINE U == Upto(s, key, j)
  <2>1. U \in SUBSET D /\ U # {}
    BY <1>4
  <2> HIDE DEF U
  <2>2. IsFiniteSet(U) /\ Cardinality(U) <= n
    BY <1>3, <2>1, FS_Subset
  <2>3. Cardinality(U) \in Nat /\ Cardinality(U) # 0
    BY <2>1, <2>2, FS_CardinalityType, FS_EmptySet
  <2> QED BY <1>1, <2>2, <2>3 DEF Place, U
<1>6. ASSUME NEW i \in D, NEW j \in D, i # j, Before(s, key, i, j)
      PROVE  Place(s, key, i) < Place(s, key, j)
  <2> DEFINE U == Upto(s, key, i)
             V == Upto(s, key, j)
  <2>1. i \in Nat /\ j \in Nat
    BY <1>1
  <2>2. U \in SUBSET V
    <3>1. ASSUME NEW m \in D, Before(s, key, m, i) PROVE Before(s, key, m, j)
      <4>1. m \in Nat
        BY <1>1
      <4> QED BY <1>2, <1>6, <2>1, <3>1, <4>1 DEF Before
    <3> QED BY <3>1 DEF Upto, D
  <2>3. j \in V /\ j \notin U
    <3>1. ~Before(s, key, j, i)
      BY <1>2, <1>6, <2>1 DEF Before
    <3> QED BY <1>4, <3>1 DEF Upto
  <2>4. IsFiniteSet(V) /\ Cardinality(U) \in Nat /\ Cardinality(V) \in Nat
    BY <1>1, <1>5 DEF Place
  <2> HIDE DEF U, V
  <2>5. Cardinality(U) <= Cardinality(V) /\ Cardinality(U) # Cardinality(V)
    BY <2>2, <2>3, <2>4, FS_Subset
  <2> QED BY <2>4, <2>5 DEF Place, U, V
<1>7. ASSUME NEW i \in D, NEW j \in D, Place(s, key, i) = Place(s, key, j) PROVE i = j
  <2> SUFFICES ASSUME i # j PROVE FALSE
    OBVIOUS
  <2>1. Before(s, key, i, j) \/ Before(s, key, j, i)
    BY <1>1, <1>2 DEF Before
  <2>2. Place(s, key, i) < Place(s, key, j) \/ Place(s, key, j) < Place(s, key, i)
    BY <1>6, <2>1
  <2> QED BY <1>5, <1>7, <2>2
<1>8. \A k \in D : \E j \in D : Place(s, key, j) = k
  <2> DEFINE p == [j \in D |-> Place(s, key, j)]
  <2>1. p \in [D -> D] /\ \A j \in D : p[j] = Place(s, key, j)
    BY <1>1, <1>5
  <2> HIDE DEF p
  <2>2. p \in Injection(D, D)
    BY <1>7, <2>1 DEF Injection, IsInjective
  <2>3. p \in Surjection(D, D)
    BY <1>3, <2>2, FS_Injection
  <2> QED BY <2>1, <2>3 DEF Surjection
<1> QED BY <1>1, <1>5, <1>6, <1>7, <1>8 DEF D
\* With keys that differ, an element's place is the number of elements up to its key.
LEMMA PlaceIsRank ==
  ASSUME NEW S, IsFiniteSet(S), NEW s \in SetToSeqs(S), NEW key \in [S -> Nat],
         \A x, y \in S : key[x] = key[y] => x = y, NEW j \in DOMAIN s
  PROVE  Place(s, key, j) = Cardinality({y \in S : key[y] <= key[s[j]]})
<1> DEFINE U == Upto(s, key, j)
           R == {y \in S : key[y] <= key[s[j]]}
           f == [i \in U |-> s[i]]
<1>1. /\ \A i \in DOMAIN s : i \in Nat /\ s[i] \in S /\ key[s[i]] \in Nat
      /\ \A i, m \in DOMAIN s : s[i] = s[m] => i = m
      /\ \A x \in S : \E i \in DOMAIN s : s[i] = x
  BY ListingOf
<1>2. \A i \in DOMAIN s : i \in U <=> s[i] \in R
  BY <1>1 DEF Upto, Before
<1>3. U \subseteq DOMAIN s /\ R \subseteq S
  BY DEF Upto
<1>4. f \in [U -> R] /\ \A i \in U : f[i] = s[i]
  BY <1>2, <1>3
<1> HIDE DEF U, R, f
<1>5. \A i, m \in U : f[i] = f[m] => i = m
  BY <1>1, <1>3, <1>4
<1>6. ASSUME NEW y \in R PROVE \E i \in U : f[i] = y
  <2>1. PICK i \in DOMAIN s : s[i] = y
    BY <1>1, <1>3
  <2> QED BY <1>2, <1>4, <2>1
<1>7. f \in Bijection(U, R)
  BY <1>4, <1>5, <1>6 DEF Bijection, Injection, Surjection, IsInjective
<1>8. ExistsBijection(U, R)
  BY <1>7 DEF ExistsBijection
<1>9. IsFiniteSet(U)
  <2>1. IsFiniteSet(DOMAIN s)
    BY ListingOf, FS_Interval
  <2> QED BY <1>3, <2>1, FS_Subset
<1> QED BY <1>8, <1>9, FS_Bijection DEF Place, U, R

\* With keys that differ, two listings of a set sort to the same list.
LEMMA SortedOnce ==
  ASSUME NEW S, IsFiniteSet(S), NEW key \in [S -> Nat],
         \A x, y \in S : key[x] = key[y] => x = y,
         NEW s \in SetToSeqs(S), NEW t \in SetToSeqs(S), NEW a, NEW b,
         SortsTo(s, key, a), SortsTo(t, key, b)
  PROVE  a = b
<1>1. /\ DOMAIN s = DOMAIN t
      /\ a = [k \in DOMAIN s |-> a[k]] /\ b = [k \in DOMAIN t |-> b[k]]
  BY ListingOf DEF SortsTo
<1>2. ASSUME NEW k \in DOMAIN s PROVE a[k] = b[k]
  <2>1. PICK j \in DOMAIN s : Place(s, key, j) = k
    BY PlaceExact
  <2>2. a[k] = s[j]
    BY <2>1 DEF SortsTo
  <2>3. PICK i \in DOMAIN t : t[i] = s[j]
    BY ListingOf
  <2>4. Place(t, key, i) = Cardinality({y \in S : key[y] <= key[t[i]]})
    BY PlaceIsRank
  <2>5. Place(s, key, j) = Cardinality({y \in S : key[y] <= key[s[j]]})
    BY PlaceIsRank
  <2>6. Place(t, key, i) = k
    BY <2>1, <2>3, <2>4, <2>5
  <2>7. b[k] = t[i]
    BY <2>6 DEF SortsTo
  <2> QED BY <2>2, <2>3, <2>7
<1> QED BY <1>1, <1>2

\* Elements with equal keys keep the order they were listed in, so a listing that has
\* two of them the other way round sorts to another list.
LEMMA SortedTells ==
  ASSUME NEW S, IsFiniteSet(S), NEW key \in [S -> Nat],
         NEW s \in SetToSeqs(S), NEW t \in SetToSeqs(S), NEW a, NEW b,
         SortsTo(s, key, a), SortsTo(t, key, b),
         NEW i \in DOMAIN s, NEW j \in DOMAIN s, i < j, key[s[i]] = key[s[j]],
         t[i] = s[j], t[j] = s[i]
  PROVE  a # b
<1> SUFFICES ASSUME a = b PROVE FALSE
  OBVIOUS
<1>1. DOMAIN s = DOMAIN t /\ i \in Nat /\ j \in Nat /\ i # j
  BY ListingOf
<1>2. \A k, m \in DOMAIN s : a[k] = a[m] => k = m
  <2> SUFFICES ASSUME NEW k \in DOMAIN s, NEW m \in DOMAIN s, a[k] = a[m] PROVE k = m
    OBVIOUS
  <2>1. PICK p \in DOMAIN s : Place(s, key, p) = k
    BY PlaceExact
  <2>2. PICK q \in DOMAIN s : Place(s, key, q) = m
    BY PlaceExact
  <2>3. s[p] = s[q]
    BY <2>1, <2>2 DEF SortsTo
  <2>4. p = q
    BY <2>3, ListingOf
  <2> QED BY <2>1, <2>2, <2>4
<1> DEFINE p == Place(s, key, i)
           q == Place(s, key, j)
           v == Place(t, key, i)
           w == Place(t, key, j)
<1>3. /\ p \in DOMAIN s /\ q \in DOMAIN s /\ v \in DOMAIN s /\ w \in DOMAIN s
  BY <1>1, PlaceExact
<1>4. Before(s, key, i, j) /\ Before(t, key, i, j)
  BY <1>1 DEF Before
<1>5. p < q /\ v < w
  BY <1>1, <1>4, PlaceExact
<1>6. a[p] = s[i] /\ a[q] = s[j] /\ a[v] = s[j] /\ a[w] = s[i]
  BY <1>1 DEF SortsTo
<1> HIDE DEF p, q, v, w
<1>7. p = w /\ q = v
  BY <1>2, <1>3, <1>6
<1>8. p \in Nat /\ q \in Nat
  <2>1. Cardinality(S) \in Nat /\ DOMAIN s = 1 .. Cardinality(S)
    BY ListingOf
  <2> QED BY <1>3, <2>1
<1> QED BY <1>5, <1>7, <1>8

\* A finite set can be listed.
LEMMA Listed ==
  ASSUME NEW S, IsFiniteSet(S)
  PROVE  SetToSeqs(S) # {}
<1> DEFINE D == 1 .. Cardinality(S)
<1>1. ExistsBijection(D, S)
  BY FS_CardinalityType
<1>2. PICK s : s \in Bijection(D, S)
  BY <1>1 DEF ExistsBijection
<1>3. s \in [D -> S] /\ \A i, j \in D : s[i] = s[j] => i = j
  BY <1>2 DEF Bijection, Injection, IsInjective
<1> QED BY <1>3 DEF SetToSeqs

\* t is s with two elements, x and y, the other way round.
Swapped(s, t, i, j, x, y) ==
  i < j /\ s[i] \in {x, y} /\ s[j] \in {x, y} /\ t[i] = s[j] /\ t[j] = s[i]

\* Two elements of a finite set can be listed in either order.
LEMMA ListedEitherWay ==
  ASSUME NEW S, IsFiniteSet(S), NEW x \in S, NEW y \in S, x # y
  PROVE  \E s, t \in SetToSeqs(S) : \E i, j \in DOMAIN s : Swapped(s, t, i, j, x, y)
<1> DEFINE n == Cardinality(S)
           D == 1 .. n
<1>1. PICK s \in SetToSeqs(S) : TRUE
  BY Listed
<1>2. n \in Nat /\ DOMAIN s = D
  BY ListingOf
<1>3. s \in [D -> S] /\ (\A i, j \in D : s[i] = s[j] => i = j) /\ \A z \in S : \E i \in D : s[i] = z
  <2>1. s \in [D -> S] /\ \A i, j \in D : s[i] = s[j] => i = j
    BY DEF SetToSeqs
  <2> QED BY <1>2, <2>1, ListingOf
<1>4. PICK i \in D, j \in D : i < j /\ s[i] \in {x, y} /\ s[j] \in {x, y}
  <2>1. PICK i \in D : s[i] = x
    BY <1>3
  <2>2. PICK j \in D : s[j] = y
    BY <1>3
  <2>3. i < j \/ j < i
    BY <1>2, <2>1, <2>2
  <2> QED BY <2>1, <2>2, <2>3
<1> DEFINE t == [s EXCEPT ![i] = s[j], ![j] = s[i]]
<1>5. i # j
  BY <1>2, <1>4
<1>6. /\ t \in [D -> S] /\ t[i] = s[j] /\ t[j] = s[i]
      /\ \A k \in D : k # i /\ k # j => t[k] = s[k]
  BY <1>3, <1>5
<1> HIDE DEF t, D
<1>7. ASSUME NEW k \in D, NEW m \in D, t[k] = t[m] PROVE k = m
  BY <1>3, <1>5, <1>6, <1>7
<1>8. t \in SetToSeqs(S)
  BY <1>6, <1>7 DEF SetToSeqs, D
<1>9. Swapped(s, t, i, j, x, y)
  BY <1>4, <1>6 DEF Swapped
<1> QED BY <1>2, <1>8, <1>9

\* What sorts by a function sorts as Python does.
LEMMA SortsByPlace ==
  ASSUME NEW S, IsFiniteSet(S), NEW s \in SetToSeqs(S), NEW key \in [S -> Nat], NEW out,
         out = [k \in DOMAIN s |-> s[CHOOSE j \in DOMAIN s : Place(s, key, j) = k]]
  PROVE  SortsTo(s, key, out)
<1>1. out = [k \in DOMAIN s |-> out[k]]
  OBVIOUS
<1>2. ASSUME NEW j \in DOMAIN s PROVE out[Place(s, key, j)] = s[j]
  <2> DEFINE k == Place(s, key, j)
             c == CHOOSE i \in DOMAIN s : Place(s, key, i) = k
  <2>1. k \in DOMAIN s
    BY PlaceExact
  <2>2. c \in DOMAIN s /\ Place(s, key, c) = k
    OBVIOUS
  <2>3. c = j
    BY <2>2, PlaceExact
  <2>4. out[k] = s[c]
    BY <2>1
  <2> QED BY <2>3, <2>4
<1> QED BY <1>1, <1>2 DEF SortsTo

\* A sorted listing is a listing.
LEMMA SortedLists ==
  ASSUME NEW S, IsFiniteSet(S), NEW s \in SetToSeqs(S), NEW key \in [S -> Nat], NEW out,
         SortsTo(s, key, out)
  PROVE  out \in SetToSeqs(S)
<1> DEFINE D == 1 .. Cardinality(S)
<1>1. /\ DOMAIN s = D /\ (\A i \in D : s[i] \in S) /\ \A i, j \in D : s[i] = s[j] => i = j
  BY ListingOf
<1>2. /\ out = [k \in D |-> out[k]] /\ \A j \in D : out[Place(s, key, j)] = s[j]
  BY <1>1 DEF SortsTo
<1> HIDE DEF D
<1>3. \A k \in D : \E j \in D : Place(s, key, j) = k
  <2>1. \A k \in DOMAIN s : \E j \in DOMAIN s : Place(s, key, j) = k
    BY PlaceExact
  <2> QED BY <1>1, <2>1
<1>4. ASSUME NEW k \in D PROVE out[k] \in S
  <2>1. PICK j \in D : Place(s, key, j) = k
    BY <1>3
  <2>2. out[k] = s[j]
    BY <1>2, <2>1
  <2> QED BY <1>1, <2>2
<1>5. ASSUME NEW k \in D, NEW m \in D, out[k] = out[m] PROVE k = m
  <2>1. PICK i \in D : Place(s, key, i) = k
    BY <1>3
  <2>2. PICK j \in D : Place(s, key, j) = m
    BY <1>3
  <2>3. s[i] = s[j]
    BY <1>2, <1>5, <2>1, <2>2
  <2> QED BY <1>1, <2>1, <2>2, <2>3
<1>6. out \in [D -> S]
  BY <1>2, <1>4
<1> QED BY <1>5, <1>6 DEF SetToSeqs, D

\* The sort of the NICs and the underlays.
LEMMA SortedByName ==
  ASSUME NEW S, IsFiniteSet(S), \A x \in S : x.name \in Names, NEW s \in SetToSeqs(S)
  PROVE  NameKey(S) \in [S -> Nat] /\ SortsTo(s, NameKey(S), by_name(s))
<1> DEFINE key == NameKey(S)
           P(j) == Cardinality({i \in DOMAIN s :
                     \/ NameRank[s[i].name] < NameRank[s[j].name]
                     \/ NameRank[s[i].name] = NameRank[s[j].name] /\ i <= j})
<1>1. key \in [S -> Nat] /\ \A x \in S : key[x] = NameRank[x.name]
  BY NameRankAssumption DEF NameKey
<1>2. by_name(s) = [k \in DOMAIN s |-> s[CHOOSE j \in DOMAIN s : P(j) = k]]
  BY DEF by_name, sorted
<1> HIDE DEF key
<1>3. \A j \in DOMAIN s : P(j) = Place(s, key, j)
  BY <1>1, ListingOf DEF Place, Upto, Before
<1> HIDE DEF P
<1>4. ASSUME NEW k \in DOMAIN s
      PROVE  (CHOOSE j \in DOMAIN s : P(j) = k) = CHOOSE j \in DOMAIN s : Place(s, key, j) = k
  BY <1>3
<1>5. by_name(s) = [k \in DOMAIN s |-> s[CHOOSE j \in DOMAIN s : Place(s, key, j) = k]]
  BY <1>2, <1>4
<1> QED BY <1>1, <1>5, SortsByPlace DEF key

\* The sort of the VLANs.
LEMMA SortedByVlanId ==
  ASSUME NEW S, IsFiniteSet(S), \A v \in S : v.vlan_id \in Nat, NEW s \in SetToSeqs(S)
  PROVE  VlanKey(S) \in [S -> Nat] /\ SortsTo(s, VlanKey(S), by_vlan_id(s))
<1> DEFINE key == VlanKey(S)
           P(j) == Cardinality({i \in DOMAIN s :
                     \/ s[i].vlan_id < s[j].vlan_id
                     \/ s[i].vlan_id = s[j].vlan_id /\ i <= j})
<1>1. key \in [S -> Nat] /\ \A x \in S : key[x] = x.vlan_id
  BY DEF VlanKey
<1>2. by_vlan_id(s) = [k \in DOMAIN s |-> s[CHOOSE j \in DOMAIN s : P(j) = k]]
  BY DEF by_vlan_id, sorted
<1> HIDE DEF key
<1>3. \A j \in DOMAIN s : P(j) = Place(s, key, j)
  BY <1>1, ListingOf DEF Place, Upto, Before
<1> HIDE DEF P
<1>4. ASSUME NEW k \in DOMAIN s
      PROVE  (CHOOSE j \in DOMAIN s : P(j) = k) = CHOOSE j \in DOMAIN s : Place(s, key, j) = k
  BY <1>3
<1>5. by_vlan_id(s) = [k \in DOMAIN s |-> s[CHOOSE j \in DOMAIN s : Place(s, key, j) = k]]
  BY <1>2, <1>4
<1> QED BY <1>1, <1>5, SortsByPlace DEF key

\* The sort of the bond's members.
LEMMA SortedByText ==
  ASSUME NEW S, IsFiniteSet(S), S \subseteq Names, NEW s \in SetToSeqs(S)
  PROVE  TextKey(S) \in [S -> Nat] /\ SortsTo(s, TextKey(S), by_text(s))
<1> DEFINE key == TextKey(S)
           P(j) == Cardinality({i \in DOMAIN s :
                     \/ NameRank[s[i]] < NameRank[s[j]]
                     \/ NameRank[s[i]] = NameRank[s[j]] /\ i <= j})
<1>1. key \in [S -> Nat] /\ \A x \in S : key[x] = NameRank[x]
  BY NameRankAssumption DEF TextKey
<1>2. by_text(s) = [k \in DOMAIN s |-> s[CHOOSE j \in DOMAIN s : P(j) = k]]
  BY DEF by_text, sorted
<1> HIDE DEF key
<1>3. \A j \in DOMAIN s : P(j) = Place(s, key, j)
  BY <1>1, ListingOf DEF Place, Upto, Before
<1> HIDE DEF P
<1>4. ASSUME NEW k \in DOMAIN s
      PROVE  (CHOOSE j \in DOMAIN s : P(j) = k) = CHOOSE j \in DOMAIN s : Place(s, key, j) = k
  BY <1>3
<1>5. by_text(s) = [k \in DOMAIN s |-> s[CHOOSE j \in DOMAIN s : Place(s, key, j) = k]]
  BY <1>2, <1>4
<1> QED BY <1>1, <1>5, SortsByPlace DEF key

\* Sorted by name, a list of named things is the same whichever way it was listed.
LEMMA NamesSortOnce ==
  ASSUME NEW S, IsFiniteSet(S), \A x \in S : x.name \in Names,
         \A x, y \in S : x.name = y.name => x = y,
         NEW s \in SetToSeqs(S), NEW t \in SetToSeqs(S)
  PROVE  by_name(s) = by_name(t)
<1> DEFINE key == NameKey(S)
<1>1. \A x, y \in S : key[x] = key[y] => x = y
  BY NameRankAssumption DEF NameKey
<1>2. key \in [S -> Nat] /\ SortsTo(s, key, by_name(s)) /\ SortsTo(t, key, by_name(t))
  BY SortedByName
<1> HIDE DEF key
<1> QED BY <1>1, <1>2, SortedOnce

\* So is a list of names.
LEMMA TextsSortOnce ==
  ASSUME NEW S, IsFiniteSet(S), S \subseteq Names, NEW s \in SetToSeqs(S), NEW t \in SetToSeqs(S)
  PROVE  by_text(s) = by_text(t)
<1> DEFINE key == TextKey(S)
<1>1. \A x, y \in S : key[x] = key[y] => x = y
  BY NameRankAssumption DEF TextKey
<1>2. key \in [S -> Nat] /\ SortsTo(s, key, by_text(s)) /\ SortsTo(t, key, by_text(t))
  BY SortedByText
<1> HIDE DEF key
<1> QED BY <1>1, <1>2, SortedOnce

\* So are VLANs, exactly as long as their ids differ.
LEMMA VlansSortOnce ==
  ASSUME NEW S, IsFiniteSet(S), \A v \in S : v.vlan_id \in Nat
  PROVE  (\A s, t \in SetToSeqs(S) : by_vlan_id(s) = by_vlan_id(t))
           <=> \A v, w \in S : v.vlan_id = w.vlan_id => v = w
<1> DEFINE key == VlanKey(S)
<1>1. \A v \in S : key[v] = v.vlan_id
  BY DEF VlanKey
<1>2. key \in [S -> Nat] /\ \A s \in SetToSeqs(S) : SortsTo(s, key, by_vlan_id(s))
  <2>1. key \in [S -> Nat]
    BY DEF VlanKey
  <2> QED BY <2>1, SortedByVlanId
<1> HIDE DEF key
<1>3. ASSUME \A v, w \in S : v.vlan_id = w.vlan_id => v = w,
             NEW s \in SetToSeqs(S), NEW t \in SetToSeqs(S)
      PROVE  by_vlan_id(s) = by_vlan_id(t)
  <2>1. \A v, w \in S : key[v] = key[w] => v = w
    BY <1>1, <1>3
  <2> QED BY <1>2, <2>1, SortedOnce
<1>4. ASSUME NEW v \in S, NEW w \in S, v.vlan_id = w.vlan_id, v # w
      PROVE  \E s, t \in SetToSeqs(S) : by_vlan_id(s) # by_vlan_id(t)
  <2>1. PICK s \in SetToSeqs(S), t \in SetToSeqs(S) :
          \E i, j \in DOMAIN s : Swapped(s, t, i, j, v, w)
    BY <1>4, ListedEitherWay
  <2>2. PICK i \in DOMAIN s, j \in DOMAIN s : Swapped(s, t, i, j, v, w)
    BY <2>1
  <2>3. i < j /\ s[i] \in {v, w} /\ s[j] \in {v, w} /\ t[i] = s[j] /\ t[j] = s[i]
    BY <2>2 DEF Swapped
  <2>4. key[s[i]] = key[s[j]]
    BY <1>1, <1>4, <2>3
  <2>5. SortsTo(s, key, by_vlan_id(s)) /\ SortsTo(t, key, by_vlan_id(t))
    BY <1>2
  <2> DEFINE a == by_vlan_id(s)
             b == by_vlan_id(t)
  <2> HIDE DEF a, b
  <2>6. a # b
    BY <1>2, <2>3, <2>4, <2>5, SortedTells DEF a, b
  <2> QED BY <2>6 DEF a, b
<1> QED BY <1>3, <1>4
\* What the emitter is given: lists that are finite, of things that have names of their own.
Renders(h) ==
  /\ IsFiniteSet(h.ns_nics) /\ IsFiniteSet(h.vlans) /\ IsFiniteSet(h.roce_underlays)
  /\ IsFiniteSet(h.ib_underlays) /\ IsFiniteSet(h.bond.members)
  /\ h.bond.members \subseteq Names
  /\ \A x \in h.ns_nics \cup h.roce_underlays \cup h.ib_underlays : x.name \in Names
  /\ \A x, y \in h.ns_nics \cup h.roce_underlays \cup h.ib_underlays : x.name = y.name => x = y
  /\ \A v \in h.vlans : v.vlan_id \in Nat

\* The loader's lists are listings, and it has some for every order of the VLANs.
LEMMA LoaderLists ==
  ASSUME NEW h, Renders(h)
  PROVE  /\ \A l \in Listings(h) :
              /\ l.ns_nics \in SetToSeqs(h.ns_nics) /\ l.vlans \in SetToSeqs(h.vlans)
              /\ l.roce_underlays \in SetToSeqs(h.roce_underlays)
              /\ l.ib_underlays \in SetToSeqs(h.ib_underlays)
              /\ l.members \in SetToSeqs(h.bond.members)
         /\ \A s \in SetToSeqs(h.vlans) : \E l \in Listings(h) : l.vlans = s
<1> DEFINE Sorts(S) == {by_name(s) : s \in SetToSeqs(S)}
           Texts(S) == {by_text(s) : s \in SetToSeqs(S)}
<1>1. ASSUME NEW S, IsFiniteSet(S), \A x \in S : x.name \in Names
      PROVE  Sorts(S) \subseteq SetToSeqs(S) /\ Sorts(S) # {}
  <2>1. ASSUME NEW s \in SetToSeqs(S) PROVE by_name(s) \in SetToSeqs(S)
    <3> DEFINE key == NameKey(S)
               out == by_name(s)
    <3>1. key \in [S -> Nat] /\ SortsTo(s, key, out)
      BY <1>1, SortedByName
    <3> HIDE DEF key, out
    <3>2. out \in SetToSeqs(S)
      BY <1>1, <3>1, SortedLists
    <3> QED BY <3>2 DEF out
  <2>2. SetToSeqs(S) # {}
    BY <1>1, Listed
  <2> QED BY <2>1, <2>2
<1>2. ASSUME NEW S, IsFiniteSet(S), S \subseteq Names
      PROVE  Texts(S) \subseteq SetToSeqs(S) /\ Texts(S) # {}
  <2>1. ASSUME NEW s \in SetToSeqs(S) PROVE by_text(s) \in SetToSeqs(S)
    <3> DEFINE key == TextKey(S)
               out == by_text(s)
    <3>1. key \in [S -> Nat] /\ SortsTo(s, key, out)
      BY <1>2, SortedByText
    <3> HIDE DEF key, out
    <3>2. out \in SetToSeqs(S)
      BY <1>2, <3>1, SortedLists
    <3> QED BY <3>2 DEF out
  <2>2. SetToSeqs(S) # {}
    BY <1>2, Listed
  <2> QED BY <2>1, <2>2
<1> DEFINE N == Sorts(h.ns_nics)
           R == Sorts(h.roce_underlays)
           I == Sorts(h.ib_underlays)
           B == Texts(h.bond.members)
<1>3. Listings(h) = [ns_nics : N, vlans : SetToSeqs(h.vlans), roce_underlays : R,
                     ib_underlays : I, members : B]
  BY DEF Listings
<1> HIDE DEF Sorts, Texts
<1>4. N \subseteq SetToSeqs(h.ns_nics) /\ N # {}
  BY <1>1 DEF Renders
<1>5. R \subseteq SetToSeqs(h.roce_underlays) /\ R # {}
  BY <1>1 DEF Renders
<1>6. I \subseteq SetToSeqs(h.ib_underlays) /\ I # {}
  BY <1>1 DEF Renders
<1>7. B \subseteq SetToSeqs(h.bond.members) /\ B # {}
  BY <1>2 DEF Renders
<1> HIDE DEF N, R, I, B
<1>8. \A l \in Listings(h) :
        /\ l.ns_nics \in SetToSeqs(h.ns_nics) /\ l.vlans \in SetToSeqs(h.vlans)
        /\ l.roce_underlays \in SetToSeqs(h.roce_underlays)
        /\ l.ib_underlays \in SetToSeqs(h.ib_underlays)
        /\ l.members \in SetToSeqs(h.bond.members)
  BY <1>3, <1>4, <1>5, <1>6, <1>7
<1>9. ASSUME NEW s \in SetToSeqs(h.vlans) PROVE \E l \in Listings(h) : l.vlans = s
  <2>1. PICK n \in N, r \in R, i \in I, b \in B : TRUE
    BY <1>4, <1>5, <1>6, <1>7
  <2> DEFINE l == [ns_nics |-> n, vlans |-> s, roce_underlays |-> r, ib_underlays |-> i,
                   members |-> b]
  <2>2. l \in Listings(h) /\ l.vlans = s
    BY <1>3
  <2> QED BY <2>2
<1> QED BY <1>8, <1>9

\* Two listings of an intent have the same canonical form, but for their VLANs.
LEMMA CanonicalOnce ==
  ASSUME NEW h, Renders(h), NEW l \in Listings(h), NEW m \in Listings(h)
  PROVE  /\ canonicalize(l).ns_nics = canonicalize(m).ns_nics
         /\ canonicalize(l).roce_underlays = canonicalize(m).roce_underlays
         /\ canonicalize(l).ib_underlays = canonicalize(m).ib_underlays
         /\ canonicalize(l).members = canonicalize(m).members
<1>1. \A x \in {l, m} :
        /\ x.ns_nics \in SetToSeqs(h.ns_nics) /\ x.roce_underlays \in SetToSeqs(h.roce_underlays)
        /\ x.ib_underlays \in SetToSeqs(h.ib_underlays)
        /\ x.members \in SetToSeqs(h.bond.members)
  BY LoaderLists
<1>2. \A x : /\ canonicalize(x).ns_nics = by_name(x.ns_nics)
             /\ canonicalize(x).roce_underlays = by_name(x.roce_underlays)
             /\ canonicalize(x).ib_underlays = by_name(x.ib_underlays)
             /\ canonicalize(x).members = by_text(x.members)
  BY DEF canonicalize
<1>3. by_name(l.ns_nics) = by_name(m.ns_nics)
  <2> DEFINE S == h.ns_nics
  <2>1. /\ IsFiniteSet(S) /\ (\A x \in S : x.name \in Names)
        /\ \A x, y \in S : x.name = y.name => x = y
    BY DEF Renders
  <2> HIDE DEF S
  <2> QED BY <1>1, <2>1, NamesSortOnce DEF S
<1>4. by_name(l.roce_underlays) = by_name(m.roce_underlays)
  <2> DEFINE S == h.roce_underlays
  <2>1. /\ IsFiniteSet(S) /\ (\A x \in S : x.name \in Names)
        /\ \A x, y \in S : x.name = y.name => x = y
    BY DEF Renders
  <2> HIDE DEF S
  <2> QED BY <1>1, <2>1, NamesSortOnce DEF S
<1>5. by_name(l.ib_underlays) = by_name(m.ib_underlays)
  <2> DEFINE S == h.ib_underlays
  <2>1. /\ IsFiniteSet(S) /\ (\A x \in S : x.name \in Names)
        /\ \A x, y \in S : x.name = y.name => x = y
    BY DEF Renders
  <2> HIDE DEF S
  <2> QED BY <1>1, <2>1, NamesSortOnce DEF S
<1>6. by_text(l.members) = by_text(m.members)
  BY <1>1, TextsSortOnce DEF Renders
<1> QED BY <1>2, <1>3, <1>4, <1>5, <1>6

\* The bytes of two listings are the same exactly when their VLANs sort to the same list
\* or the file shows none.
LEMMA BytesSame ==
  ASSUME NEW h, Renders(h), NEW role, NEW kind, NEW l \in Listings(h), NEW m \in Listings(h)
  PROVE  render_for(role, kind, l) = render_for(role, kind, m)
           <=> kind = "meta-data" \/ by_vlan_id(l.vlans) = by_vlan_id(m.vlans)
<1> DEFINE F == Iterated(role, kind)
           a == [f \in F |-> canonicalize(l)[f]]
           b == [f \in F |-> canonicalize(m)[f]]
<1>1. render_for(role, kind, l) = render_for(role, kind, m) <=> a = b
  BY DEF render_for
<1>2. canonicalize(l).vlans = by_vlan_id(l.vlans) /\ canonicalize(m).vlans = by_vlan_id(m.vlans)
  BY DEF canonicalize
<1>3. /\ canonicalize(l)["ns_nics"] = canonicalize(m)["ns_nics"]
      /\ canonicalize(l)["roce_underlays"] = canonicalize(m)["roce_underlays"]
      /\ canonicalize(l)["ib_underlays"] = canonicalize(m)["ib_underlays"]
      /\ canonicalize(l)["members"] = canonicalize(m)["members"]
  BY CanonicalOnce
<1>4. /\ F \subseteq {"ns_nics", "roce_underlays", "ib_underlays", "members", "vlans"}
      /\ "vlans" \in F <=> kind # "meta-data"
  BY DEF Iterated
<1> HIDE DEF F
<1>5. a = b <=> \A f \in F : canonicalize(l)[f] = canonicalize(m)[f]
  <2>1. ASSUME a = b, NEW f \in F PROVE canonicalize(l)[f] = canonicalize(m)[f]
    <3>1. a[f] = b[f]
      BY <2>1
    <3> QED BY <3>1
  <2>2. ASSUME \A f \in F : canonicalize(l)[f] = canonicalize(m)[f] PROVE a = b
    BY <2>2
  <2> QED BY <2>1, <2>2
<1> HIDE DEF a, b
<1>6. (\A f \in F : canonicalize(l)[f] = canonicalize(m)[f])
        <=> ("vlans" \in F => canonicalize(l)["vlans"] = canonicalize(m)["vlans"])
  BY <1>3, <1>4
<1> QED BY <1>1, <1>2, <1>4, <1>5, <1>6

\* The determinism contract of emitter.py, exactly: the bytes do not depend on the order
\* Netbox lists the interfaces in, unless the file shows VLANs and two have the same id.
THEOREM BytesAreDetermined ==
  ASSUME NEW h, Renders(h), NEW kind
  PROVE  OrderIndependent(h, kind) <=> kind = "meta-data" \/ DistinctVlanIds(h)
<1> DEFINE L == Listings(h)
           c == CHOOSE l \in L : TRUE
           Same(l) == render_for(h.role, kind, l) = render_for(h.role, kind, c)
<1>1. OrderIndependent(h, kind) <=> \A l \in L : Same(l)
  BY DEF OrderIndependent
<1>2. DistinctVlanIds(h) <=> \A s, t \in SetToSeqs(h.vlans) : by_vlan_id(s) = by_vlan_id(t)
  <2>1. IsFiniteSet(h.vlans) /\ \A v \in h.vlans : v.vlan_id \in Nat
    BY DEF Renders
  <2> DEFINE S == h.vlans
  <2> HIDE DEF S
  <2>2. (\A s, t \in SetToSeqs(S) : by_vlan_id(s) = by_vlan_id(t))
           <=> \A v, w \in S : v.vlan_id = w.vlan_id => v = w
    BY <2>1, VlansSortOnce DEF S
  <2> QED BY <2>2 DEF S, DistinctVlanIds
<1>3. \A l \in L : c \in L /\ l.vlans \in SetToSeqs(h.vlans)
  BY LoaderLists
<1>4. \A s \in SetToSeqs(h.vlans) : \E l \in L : l.vlans = s
  BY LoaderLists
<1> HIDE DEF L, c
<1>5. ASSUME NEW l \in L
      PROVE  Same(l) <=> kind = "meta-data" \/ by_vlan_id(l.vlans) = by_vlan_id(c.vlans)
  BY <1>3, BytesSame DEF L
<1> HIDE DEF Same
<1>6. ASSUME \A l \in L : Same(l), kind # "meta-data"
      PROVE  \A s, t \in SetToSeqs(h.vlans) : by_vlan_id(s) = by_vlan_id(t)
  BY <1>4, <1>5, <1>6
<1>7. ASSUME \A s, t \in SetToSeqs(h.vlans) : by_vlan_id(s) = by_vlan_id(t)
      PROVE  \A l \in L : Same(l)
  BY <1>3, <1>5, <1>7
<1> QED BY <1>1, <1>2, <1>5, <1>6, <1>7
================================================================================
