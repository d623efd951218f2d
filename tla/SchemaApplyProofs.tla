-------------------------- MODULE SchemaApplyProofs --------------------------
(***************************************************************************)
(* Theorems about SchemaApply, for every list of custom fields, every      *)
(* state Netbox may start in, and any number of callers, runs and edits.   *)
(***************************************************************************)
EXTENDS SchemaApply, FiniteSetTheorems, TLAPS

\* The fields are named by their positions, and no two positions name the same.
LEMMA FieldsIndexed ==
  /\ Len(fields) \in Nat
  /\ \A i \in 1 .. Len(fields) : fields[i] \in Fields
  /\ \A i, j \in 1 .. Len(fields) : fields[i] = fields[j] => i = j
BY SchemaAssumption DEF Fields

-----------------------------------------------------------------------------
(***************************************************************************)
(* Types.                                                                  *)
(***************************************************************************)

\* A busy run's field is one of Netbox's.
LEMMA FieldTyped ==
  ASSUME TypeOK, NEW a \in Appliers, Busy(a)
  PROVE  /\ Field(a) \in Fields /\ nb[Field(a)] \in CustomField
         /\ run[a] \in Run /\ run[a].i \in 1 .. Len(fields)
BY FieldsIndexed DEF TypeOK, Field

\* The loop's next state is well typed, and at a specification if it goes on.
LEMMA NextSpecTyped ==
  ASSUME NEW r \in Run, r.i \in 1 .. Len(fields)
  PROVE  /\ NextSpec(r) \in Run
         /\ NextSpec(r).pc \in {"returned", "get"}
         /\ NextSpec(r).pc = "get" => NextSpec(r).i \in 1 .. Len(fields)
<1> DEFINE next(p) == [r EXCEPT !.i = @ + 1, !.seen = {}, !.id = 0, !.pc = p]
<1>1. NextSpec(r) = IF r.i = Len(fields) THEN next("returned") ELSE next("get")
  BY DEF NextSpec
<1>2. ASSUME NEW p \in {"returned", "get"}
      PROVE  next(p) \in Run /\ next(p).pc = p /\ next(p).i = r.i + 1
  <2>1. r.i + 1 \in 1 .. Len(fields) + 1
    BY FieldsIndexed
  <2> QED BY <2>1 DEF Run
<1> HIDE DEF next
<1> QED BY <1>1, <1>2, FieldsIndexed

\* So is a run that an exception ends.
LEMMA RaisesTyped ==
  ASSUME NEW r \in Run, NEW e \in {"SchemaError", "NetboxQueryError"}
  PROVE  Raises(r, e) \in Run /\ Raises(r, e).pc = e
BY DEF Raises, Run

\* What a run starts from.
LEMMA NewRunTyped ==
  /\ NewRun \in Run /\ NewRun.pc \in {"returned", "get"}
  /\ NewRun.pc = "get" => NewRun.i \in 1 .. Len(fields)
  /\ Idle \in Run /\ Idle.pc = "idle"
<1> DEFINE first(p) == [pc |-> p, i |-> 1, seen |-> {}, id |-> 0, created |-> {},
                        updated |-> {}, unchanged |-> {}, disturbed |-> FALSE]
<1>1. NewRun = first(IF Len(fields) = 0 THEN "returned" ELSE "get")
  BY DEF NewRun
<1>2. ASSUME NEW p \in {"returned", "get"}
      PROVE  first(p) \in Run /\ first(p).pc = p /\ first(p).i = 1
  BY FieldsIndexed DEF Run
<1> HIDE DEF first
<1>3. NewRun \in Run /\ NewRun.pc = (IF Len(fields) = 0 THEN "returned" ELSE "get")
      /\ NewRun.i = 1
  BY <1>1, <1>2
<1>4. Idle \in Run /\ Idle.pc = "idle"
  BY <1>3 DEF Idle, Run
<1> QED BY <1>3, <1>4, FieldsIndexed

\* One caller's step keeps the others' runs well typed.
LEMMA StepsTyped ==
  ASSUME TypeOK, NEW a \in Appliers, NEW r \in Run,
         r.pc \in {"get", "create", "reget", "patch"} => r.i \in 1 .. Len(fields),
         Steps(a, r)
  PROVE  /\ run' \in [Appliers -> Run]
         /\ \A b \in Appliers : Busy(b)' => run'[b].i \in 1 .. Len(fields)
<1> DEFINE other(b) == [run[b] EXCEPT !.disturbed = @ \/ (nb' # nb /\ run[b].pc # "idle")]
<1>1. \A b \in Appliers : run'[b] = IF b = a THEN r ELSE other(b)
  BY DEF Steps
<1>2. ASSUME NEW b \in Appliers
      PROVE  other(b) \in Run /\ other(b).pc = run[b].pc /\ other(b).i = run[b].i
  BY DEF TypeOK, Run
<1>3. run' \in [Appliers -> Run]
  BY <1>2 DEF Steps
<1>4. ASSUME NEW b \in Appliers, Busy(b)'
      PROVE  run'[b].i \in 1 .. Len(fields)
  BY <1>1, <1>2, <1>4 DEF Busy, TypeOK
<1> QED BY <1>3, <1>4

\* What a create and a patch leave in Netbox.
LEMMA WritesTyped ==
  ASSUME TypeOK, NEW f \in Fields, NEW d \in SUBSET Attributes
  PROVE  /\ Created(f, d) \in [Fields -> CustomField]
         /\ Patched(f, d) \in [Fields -> CustomField]
BY DEF Created, Patched, TypeOK, CustomField

\* Every step keeps the types.
LEMMA TypeStep == TypeOK /\ [Next]_vars => TypeOK'
<1> SUFFICES ASSUME TypeOK, [Next]_vars PROVE TypeOK'
  OBVIOUS
<1> USE DEF vars
<1>1. ASSUME NEW a \in Appliers, Start(a)
      PROVE  TypeOK'
  <2>1. /\ run' \in [Appliers -> Run]
        /\ \A b \in Appliers : Busy(b)' => run'[b].i \in 1 .. Len(fields)
    BY <1>1, NewRunTyped, StepsTyped DEF Start
  <2>2. runs' \in 0 .. MaxRuns
    BY <1>1, SchemaAssumption DEF Start, TypeOK
  <2> QED BY <1>1, <2>1, <2>2 DEF Start, TypeOK
<1>2. ASSUME NEW a \in Appliers, NEW r \in Run, Steps(a, r), nb' \in [Fields -> CustomField],
             r.pc \in {"get", "create", "reget", "patch"} => r.i \in 1 .. Len(fields),
             UNCHANGED <<edits, runs>>
      PROVE  TypeOK'
  BY <1>2, StepsTyped DEF TypeOK
<1>3. ASSUME NEW a \in Appliers, FetchExisting(a)
      PROVE  TypeOK'
  <2> DEFINE r == run[a]
             f == Field(a)
  <2>1. Busy(a) /\ r \in Run /\ r.i \in 1 .. Len(fields) /\ f \in Fields
    BY <1>3, FieldTyped DEF FetchExisting, Busy
  <2>2. PICK q : Steps(a, q) /\ q \in { [r EXCEPT !.pc = "create"], [r EXCEPT !.pc = "reget"],
                          NextSpec([r EXCEPT !.unchanged = @ \cup {f}]),
                          Raises(r, "SchemaError") }
    BY <1>3 DEF FetchExisting
  <2>3. /\ [r EXCEPT !.pc = "create"] \in Run /\ [r EXCEPT !.pc = "create"].i = r.i
        /\ [r EXCEPT !.pc = "reget"] \in Run /\ [r EXCEPT !.pc = "reget"].i = r.i
        /\ [r EXCEPT !.unchanged = @ \cup {f}] \in Run
        /\ [r EXCEPT !.unchanged = @ \cup {f}].i = r.i
    BY <2>1 DEF Run
  <2>4. /\ q \in Run
        /\ q.pc \in {"get", "create", "reget", "patch"} => q.i \in 1 .. Len(fields)
    BY <2>1, <2>2, <2>3, NextSpecTyped, RaisesTyped
  <2> QED BY <1>2, <1>3, <2>2, <2>4 DEF FetchExisting, TypeOK
<1>4. ASSUME NEW a \in Appliers, Create(a)
      PROVE  TypeOK'
  <2> DEFINE r == run[a]
             f == Field(a)
  <2>1. Busy(a) /\ r \in Run /\ r.i \in 1 .. Len(fields) /\ f \in Fields
    BY <1>4, FieldTyped DEF Create, Busy
  <2>2. PICK q : Steps(a, q) /\ q \in { NextSpec([r EXCEPT !.created = @ \cup {f}]),
                                        Raises(r, "NetboxQueryError") }
    BY <1>4 DEF Create
  <2>3. [r EXCEPT !.created = @ \cup {f}] \in Run /\ [r EXCEPT !.created = @ \cup {f}].i = r.i
    BY <2>1 DEF Run
  <2>4. /\ q \in Run
        /\ q.pc \in {"get", "create", "reget", "patch"} => q.i \in 1 .. Len(fields)
    BY <2>1, <2>2, <2>3, NextSpecTyped, RaisesTyped
  <2>5. nb' \in [Fields -> CustomField]
    BY <1>4, <2>1, WritesTyped DEF Create, TypeOK
  <2> QED BY <1>2, <1>4, <2>2, <2>4, <2>5 DEF Create
<1>5. ASSUME NEW a \in Appliers, RefetchRecord(a)
      PROVE  TypeOK'
  <2> DEFINE r == run[a]
             f == Field(a)
             p == [r EXCEPT !.pc = "patch", !.seen = diff(f, nb[f].differs), !.id = nb[f].id]
             u == [r EXCEPT !.updated = @ \cup {f}]
  <2>1. /\ Busy(a) /\ r \in Run /\ r.i \in 1 .. Len(fields) /\ nb[f] \in CustomField
        /\ f \in Fields
    BY <1>5, FieldTyped DEF RefetchRecord, Busy
  <2>2. PICK q : Steps(a, q) /\ q \in {p, NextSpec(u), Raises(r, "NetboxQueryError")}
    BY <1>5 DEF RefetchRecord
  <2>3. p \in Run /\ p.i = r.i /\ u \in Run /\ u.i = r.i
    BY <2>1 DEF Run, CustomField, diff
  <2>4. /\ q \in Run
        /\ q.pc \in {"get", "create", "reget", "patch"} => q.i \in 1 .. Len(fields)
    BY <2>1, <2>2, <2>3, NextSpecTyped, RaisesTyped
  <2> QED BY <1>2, <1>5, <2>2, <2>4 DEF RefetchRecord, TypeOK
<1>6. ASSUME NEW a \in Appliers, Patch(a)
      PROVE  TypeOK'
  <2> DEFINE r == run[a]
             f == Field(a)
  <2>1. Busy(a) /\ r \in Run /\ r.i \in 1 .. Len(fields) /\ f \in Fields
    BY <1>6, FieldTyped DEF Patch, Busy
  <2>2. PICK q : Steps(a, q) /\ q \in { NextSpec([r EXCEPT !.updated = @ \cup {f}]),
                                        Raises(r, "NetboxQueryError") }
    BY <1>6 DEF Patch
  <2>3. [r EXCEPT !.updated = @ \cup {f}] \in Run /\ [r EXCEPT !.updated = @ \cup {f}].i = r.i
    BY <2>1 DEF Run
  <2>4. /\ q \in Run
        /\ q.pc \in {"get", "create", "reget", "patch"} => q.i \in 1 .. Len(fields)
    BY <2>1, <2>2, <2>3, NextSpecTyped, RaisesTyped
  <2>5. r.seen \in SUBSET Attributes
    BY <2>1 DEF Run
  <2>6. nb' \in [Fields -> CustomField]
    BY <1>6, <2>1, <2>5, WritesTyped DEF Patch, TypeOK
  <2> QED BY <1>2, <1>6, <2>2, <2>4, <2>6 DEF Patch
<1>7. ASSUME NEW a \in Appliers, RequestFails(a) \/ ReplyLost(a)
      PROVE  TypeOK'
  <2>1. Busy(a) /\ run[a] \in Run /\ Field(a) \in Fields
    BY <1>7, FieldTyped DEF RequestFails, ReplyLost, Busy
  <2>2. run[a].seen \in SUBSET Attributes
    BY <2>1 DEF Run
  <2>3. nb' \in [Fields -> CustomField]
    BY <1>7, <2>1, <2>2, WritesTyped DEF RequestFails, ReplyLost, TypeOK
  <2>4. Steps(a, Raises(run[a], "NetboxQueryError")) /\ UNCHANGED <<edits, runs>>
    BY <1>7 DEF RequestFails, ReplyLost
  <2> QED BY <1>2, <2>1, <2>3, <2>4, RaisesTyped
<1>8. CASE OthersEdit
  <2>1. PICK new \in [Fields -> CustomField] : Edit(new)
    <3>1. CASE \E e \in Edits : nb[e[1]].present
                                  /\ Edit([nb EXCEPT ![e[1]].differs = @ \cup {e[2]}])
      <4>1. PICK e \in Edits : Edit([nb EXCEPT ![e[1]].differs = @ \cup {e[2]}])
        BY <3>1
      <4>2. e[1] \in Fields /\ e[2] \in Attributes
        BY SchemaAssumption
      <4>3. [nb EXCEPT ![e[1]].differs = @ \cup {e[2]}] \in [Fields -> CustomField]
        BY <4>2 DEF TypeOK, CustomField
      <4> QED BY <4>1, <4>3
    <3>2. CASE \E f \in Fields : nb[f].present
                  /\ Edit([nb EXCEPT ![f].present = FALSE, ![f].differs = {}])
      BY <3>2 DEF TypeOK, CustomField
    <3>3. CASE \E f \in Fields : ~nb[f].present /\ Edit(Created(f, {"type"}))
      BY <3>3, WritesTyped DEF Attributes, AlwaysSent
    <3> QED BY <1>8, <3>1, <3>2, <3>3 DEF OthersEdit
  <2>2. edits' \in 0 .. MaxEdits
    BY <2>1, SchemaAssumption DEF Edit, TypeOK
  <2>3. \A b \in Appliers : run'[b] \in Run /\ run'[b].pc = run[b].pc /\ run'[b].i = run[b].i
    BY <2>1 DEF Edit, TypeOK, Run
  <2>4. run' \in [Appliers -> Run]
    BY <2>1, <2>3 DEF Edit
  <2> QED BY <2>1, <2>2, <2>3, <2>4 DEF Edit, TypeOK, Busy
<1>9. CASE UNCHANGED vars
  BY <1>9 DEF TypeOK, Busy
<1> QED BY <1>1, <1>3, <1>4, <1>5, <1>6, <1>7, <1>8, <1>9 DEF Next

\* The runs and Netbox's custom fields stay well typed, and the loop of
\* apply_schema is at a specification as long as it runs.
THEOREM TypeCorrect == Spec => []TypeOK
<1>1. Init => TypeOK
  BY NewRunTyped, SchemaAssumption DEF Init, TypeOK, Busy
<1> QED BY <1>1, TypeStep, PTL DEF Spec

-----------------------------------------------------------------------------
(***************************************************************************)
(* What a caller's step may do to Netbox.                                  *)
(***************************************************************************)

\* A step of apply_schema leaves Netbox alone, creates the field the loop is at
\* where there was none, or takes what differed from the one that is there.
LEMMA WriteShape ==
  ASSUME TypeOK, NEW a \in Appliers,
         \/ Start(a) \/ FetchExisting(a) \/ Create(a) \/ RefetchRecord(a) \/ Patch(a)
         \/ RequestFails(a) \/ ReplyLost(a)
  PROVE  /\ edits' = edits
         /\ \/ nb' = nb
            \/ /\ Busy(a) /\ ~nb[Field(a)].present
               /\ nb' = Created(Field(a), {})
            \/ /\ Busy(a) /\ Patchable(Field(a), run[a])
               /\ nb' = Patched(Field(a), run[a].seen)
BY DEF Start, FetchExisting, Create, RefetchRecord, Patch, RequestFails, ReplyLost, Busy

\* A created field, and the others.
LEMMA CreatedFields ==
  ASSUME TypeOK, NEW f \in Fields, NEW d \in SUBSET Attributes, NEW g \in Fields
  PROVE  /\ g = f => /\ Created(f, d)[g].present /\ Created(f, d)[g].differs = d
                     /\ Created(f, d)[g].id = nb[g].id + 1
         /\ g # f => Created(f, d)[g] = nb[g]
BY DEF Created, TypeOK, CustomField

\* A patched field, and the others.
LEMMA PatchedFields ==
  ASSUME TypeOK, NEW f \in Fields, NEW d \in SUBSET Attributes, NEW g \in Fields
  PROVE  /\ Patched(f, d)[g].present = nb[g].present /\ Patched(f, d)[g].id = nb[g].id
         /\ g = f => Patched(f, d)[g].differs = nb[g].differs \ d
         /\ g # f => Patched(f, d)[g] = nb[g]
BY DEF Patched, TypeOK, CustomField

-----------------------------------------------------------------------------
(***************************************************************************)
(* A field is created once.                                                *)
(***************************************************************************)

\* A step after which a's run is r adds to the runs that report a field created
\* at most a's, and then Netbox has counted another creation.
LEMMA ReportStep ==
  ASSUME TypeOK, CreatedOnce, NEW a \in Appliers, NEW r \in Run, Steps(a, r),
         \A f \in Fields : nb'[f].id \in Nat /\ nb'[f].id >= nb[f].id,
         \A f \in Fields : f \in r.created /\ f \notin run[a].created
                             => nb'[f].id >= nb[f].id + 1
  PROVE  CreatedOnce'
<1> SUFFICES ASSUME NEW f \in Fields
             PROVE  Cardinality({b \in Appliers : f \in run'[b].created}) <= nb'[f].id
  BY DEF CreatedOnce
<1> DEFINE S == {b \in Appliers : f \in run[b].created}
           T == {b \in Appliers : f \in run'[b].created}
<1>1. \A b \in Appliers : b # a => run'[b].created = run[b].created
  BY DEF Steps, TypeOK, Run
<1>2. run'[a] = r
  BY DEF Steps
<1>3. Cardinality(S) <= nb[f].id /\ nb[f].id \in Nat
  BY DEF CreatedOnce, TypeOK, CustomField
<1>4. IsFiniteSet(S) /\ Cardinality(S) \in Nat
  BY SchemaAssumption, FS_Subset, FS_CardinalityType
<1>5. IsFiniteSet(S \cup {a}) /\ Cardinality(S \cup {a}) <= Cardinality(S) + 1
      /\ Cardinality(S \cup {a}) \in Nat
  <2>1. /\ IsFiniteSet(S \cup {a})
        /\ Cardinality(S \cup {a}) = IF a \in S THEN Cardinality(S) ELSE Cardinality(S) + 1
    BY <1>4, FS_AddElement
  <2> QED BY <1>4, <2>1, FS_CardinalityType
<1>6. CASE f \in r.created /\ f \notin run[a].created
  <2>1. T \subseteq S \cup {a}
    BY <1>1
  <2>2. Cardinality(T) <= Cardinality(S \cup {a}) /\ Cardinality(T) \in Nat
    BY <1>5, <2>1, FS_Subset, FS_CardinalityType
  <2> QED BY <1>3, <1>4, <1>5, <1>6, <2>2
<1>7. CASE ~(f \in r.created /\ f \notin run[a].created)
  <2>1. T \subseteq S
    BY <1>1, <1>2, <1>7
  <2>2. Cardinality(T) <= Cardinality(S) /\ Cardinality(T) \in Nat
    BY <1>4, <2>1, FS_Subset, FS_CardinalityType
  <2> QED BY <1>3, <1>4, <2>2
<1> QED BY <1>6, <1>7

\* The loop's next turn leaves the report as it is ...
LEMMA NextSpecReport ==
  ASSUME NEW r \in Run
  PROVE  /\ NextSpec(r).created = r.created /\ NextSpec(r).updated = r.updated
         /\ NextSpec(r).unchanged = r.unchanged /\ NextSpec(r).disturbed = r.disturbed
         /\ NextSpec(r).i = r.i + 1
BY DEF NextSpec, Run

\* ... and so does an exception.
LEMMA RaisesReport ==
  ASSUME NEW r \in Run, NEW e \in {"SchemaError", "NetboxQueryError"}
  PROVE  Raises(r, e).created = r.created
BY DEF Raises, Run

\* However two runs interleave and whatever replies are lost, a field is reported
\* created by at most as many runs as created it.
THEOREM FieldsCreatedOnce == Spec => []CreatedOnce
<1>1. Init => CreatedOnce
  <2> SUFFICES ASSUME Init, NEW f \in Fields
               PROVE  Cardinality({a \in Appliers : f \in run[a].created}) <= nb[f].id
    BY DEF CreatedOnce
  <2>1. {a \in Appliers : f \in run[a].created} = {}
    BY DEF Init, Idle, NewRun
  <2>2. nb[f].id \in Nat
    BY SchemaAssumption DEF Init, CustomField
  <2>3. Cardinality({a \in Appliers : f \in run[a].created}) = 0
    BY <2>1, FS_EmptySet, Zenon
  <2> QED BY <2>2, <2>3
<1>2. TypeOK /\ TypeOK' /\ CreatedOnce /\ [Next]_vars => CreatedOnce'
  <2> SUFFICES ASSUME TypeOK, TypeOK', CreatedOnce, [Next]_vars PROVE CreatedOnce'
    OBVIOUS
  <2>1. ASSUME NEW a \in Appliers,
               \/ Start(a) \/ FetchExisting(a) \/ Create(a) \/ RefetchRecord(a) \/ Patch(a)
               \/ RequestFails(a) \/ ReplyLost(a)
        PROVE  CreatedOnce'
    <3>1. \A f \in Fields : nb'[f].id \in Nat /\ nb[f].id \in Nat
      BY DEF TypeOK, CustomField
    <3>2. \A f \in Fields : nb'[f].id >= nb[f].id
      <4>1. CASE nb' = nb
        BY <3>1, <4>1
      <4>2. CASE Busy(a) /\ nb' = Created(Field(a), {})
        BY <3>1, <4>2, FieldTyped, CreatedFields
      <4>3. CASE Busy(a) /\ nb' = Patched(Field(a), run[a].seen)
        <5>1. Field(a) \in Fields /\ run[a].seen \in SUBSET Attributes
          BY <4>3, FieldTyped DEF Run
        <5> QED BY <3>1, <4>3, <5>1, PatchedFields
      <4> QED BY <2>1, <4>1, <4>2, <4>3, WriteShape
    <3>3. /\ run'[a] \in Run /\ run[a] \in Run
          /\ Steps(a, run'[a])
      BY <2>1 DEF Start, FetchExisting, Create, RefetchRecord, Patch, RequestFails,
                  ReplyLost, Steps, TypeOK
    <3>4. ASSUME NEW f \in Fields, f \in run'[a].created, f \notin run[a].created
          PROVE  nb'[f].id >= nb[f].id + 1
      <4>1. ~Start(a)
        BY <3>4 DEF Start, Steps, NewRun
      <4>2. Raises(run[a], "NetboxQueryError").created = run[a].created
            /\ Raises(run[a], "SchemaError").created = run[a].created
        BY <3>3, RaisesReport
      <4>3. ~RequestFails(a) /\ ~ReplyLost(a)
        BY <3>4, <4>2 DEF RequestFails, ReplyLost, Steps
      <4>4. ASSUME FetchExisting(a)
            PROVE  FALSE
        <5> DEFINE u == [run[a] EXCEPT !.unchanged = @ \cup {Field(a)}]
                   c == [run[a] EXCEPT !.pc = "create"]
                   p == [run[a] EXCEPT !.pc = "reget"]
        <5>1. u \in Run /\ u.created = run[a].created
          BY <3>3, <4>4, FieldTyped DEF Run, Busy, FetchExisting
        <5>2. c.created = run[a].created /\ p.created = run[a].created
          BY <3>3 DEF Run
        <5>3. run'[a] \in {NextSpec(u), c, p, Raises(run[a], "SchemaError")}
          BY <4>4 DEF FetchExisting, Steps
        <5> HIDE DEF u, c, p
        <5>4. NextSpec(u).created = u.created
          BY <5>1, NextSpecReport
        <5> QED BY <3>4, <4>2, <5>1, <5>2, <5>3, <5>4
      <4>5. ASSUME RefetchRecord(a)
            PROVE  FALSE
        <5> DEFINE p == [run[a] EXCEPT !.pc = "patch",
                           !.seen = diff(Field(a), nb[Field(a)].differs), !.id = nb[Field(a)].id]
                   u == [run[a] EXCEPT !.updated = @ \cup {Field(a)}]
        <5>1. run'[a] \in {p, NextSpec(u), Raises(run[a], "NetboxQueryError")}
          BY <4>5 DEF RefetchRecord, Steps
        <5>2. p.created = run[a].created
          BY <3>3 DEF Run
        <5>3. u \in Run /\ u.created = run[a].created
          <6>1. Field(a) \in Fields
            BY <4>5, FieldTyped DEF Busy, RefetchRecord
          <6> QED BY <3>3, <6>1 DEF Run
        <5> HIDE DEF p, u
        <5>4. NextSpec(u).created = u.created
          BY <5>3, NextSpecReport
        <5> QED BY <3>4, <4>2, <5>1, <5>2, <5>3, <5>4
      <4>6. ASSUME Patch(a)
            PROVE  FALSE
        <5> DEFINE u == [run[a] EXCEPT !.updated = @ \cup {Field(a)}]
        <5>1. u \in Run /\ u.created = run[a].created
          BY <3>3, <4>6, FieldTyped DEF Run, Busy, Patch
        <5>2. run'[a] \in {NextSpec(u), Raises(run[a], "NetboxQueryError")}
          BY <4>6 DEF Patch, Steps
        <5> HIDE DEF u
        <5>3. NextSpec(u).created = u.created
          BY <5>1, NextSpecReport
        <5> QED BY <3>4, <4>2, <5>1, <5>2, <5>3
      <4>7. CASE Create(a)
        <5> DEFINE c == [run[a] EXCEPT !.created = @ \cup {Field(a)}]
        <5>1. Field(a) \in Fields /\ c \in Run /\ c.created = run[a].created \cup {Field(a)}
          BY <3>3, <4>7, FieldTyped DEF Run, Busy, Create
        <5>2. \/ nb' = Created(Field(a), {}) /\ run'[a] = NextSpec(c)
              \/ run'[a] = Raises(run[a], "NetboxQueryError")
          BY <4>7 DEF Create, Steps
        <5> HIDE DEF c
        <5>3. NextSpec(c).created = c.created
          BY <5>1, NextSpecReport
        <5>4. nb' = Created(Field(a), {}) /\ f = Field(a)
          BY <3>4, <4>2, <5>1, <5>2, <5>3
        <5> QED BY <3>1, <5>1, <5>4, CreatedFields
      <4> QED BY <2>1, <4>1, <4>3, <4>4, <4>5, <4>6, <4>7
    <3> QED BY <3>1, <3>2, <3>3, <3>4, ReportStep
  <2>2. CASE OthersEdit
    <3>1. \A a \in Appliers : run'[a].created = run[a].created
      <4>1. PICK new : Edit(new)
        BY <2>2 DEF OthersEdit
      <4> QED BY <4>1 DEF Edit, TypeOK, Run
    <3>2. \A f \in Fields : nb[f].id \in Nat /\ nb'[f].id >= nb[f].id
      <4>1. CASE \E f \in Fields : nb' = Created(f, {"type"})
        <5>1. {"type"} \in SUBSET Attributes /\ \A g \in Fields : nb[g].id \in Nat
          BY DEF Attributes, AlwaysSent, TypeOK, CustomField
        <5> QED BY <4>1, <5>1, CreatedFields
      <4>2. CASE \E f \in Fields : nb' = [nb EXCEPT ![f].present = FALSE, ![f].differs = {}]
        BY <4>2 DEF TypeOK, CustomField
      <4>3. CASE \E e \in Edits : nb' = [nb EXCEPT ![e[1]].differs = @ \cup {e[2]}]
        BY <4>3 DEF TypeOK, CustomField
      <4> QED BY <2>2, <4>1, <4>2, <4>3 DEF OthersEdit, Edit
    <3>3. \A f \in Fields : {a \in Appliers : f \in run'[a].created}
                              = {a \in Appliers : f \in run[a].created}
      BY <3>1
    <3>4. \A f \in Fields : Cardinality({a \in Appliers : f \in run[a].created}) \in Nat
      BY SchemaAssumption, FS_Subset, FS_CardinalityType
    <3>5. \A f \in Fields : nb'[f].id \in Nat
      BY DEF TypeOK, CustomField
    <3> QED BY <3>2, <3>3, <3>4, <3>5 DEF CreatedOnce
  <2>3. CASE UNCHANGED vars
    BY <2>3 DEF vars, CreatedOnce
  <2> QED BY <2>1, <2>2, <2>3 DEF Next
<1> QED BY <1>1, <1>2, TypeCorrect, PTL DEF Spec

-----------------------------------------------------------------------------
(***************************************************************************)
(* What an undisturbed run reports.                                        *)
(***************************************************************************)
past(r) == {fields[j] : j \in 1 .. r.i - 1}

\* The run as QuietApplyMatches has it ...
ReportsPast(db, r) ==
  /\ \A f \in past(r) : db[f].present /\ diff(f, db[f].differs) = {}
  /\ r.created \cup r.updated \cup r.unchanged = past(r)
  /\ r.created \cap r.updated = {} /\ r.updated \cap r.unchanged = {}
  /\ r.unchanged \cap r.created = {}

\* ... and what it knows between its second GET and its PATCH: a PATCH computed
\* from an old record would not remove all of the drift.
SeesDrift(db, r) ==
  r.pc = "patch" =>
    /\ db[fields[r.i]].present
    /\ diff(fields[r.i], db[fields[r.i]].differs) \subseteq r.seen

Active == {"get", "create", "reget", "patch", "returned"}

QuietInv ==
  \A a \in Appliers :
    run[a].pc \in Active /\ ~run[a].disturbed => ReportsPast(nb, run[a]) /\ SeesDrift(nb, run[a])

\* One more turn of the loop: one more field is past, and it was not before.
LEMMA PastNext ==
  ASSUME NEW r \in Run, r.i \in 1 .. Len(fields), NEW q, q.i = r.i + 1
  PROVE  /\ past(q) = past(r) \cup {fields[r.i]}
         /\ fields[r.i] \notin past(r)
         /\ past(r) \subseteq Fields
<1>1. 1 .. q.i - 1 = (1 .. r.i - 1) \cup {r.i}
  BY FieldsIndexed
<1>2. past(q) = past(r) \cup {fields[r.i]}
  BY <1>1 DEF past
<1>3. fields[r.i] \notin past(r) /\ past(r) \subseteq Fields
  BY FieldsIndexed DEF past
<1> QED BY <1>2, <1>3

\* A caller's step leaves the other runs as they are, or they know of it.
LEMMA OthersKeepQuiet ==
  ASSUME TypeOK, QuietInv, NEW a \in Appliers, NEW r, Steps(a, r),
         NEW b \in Appliers, b # a, run'[b].pc \in Active, ~run'[b].disturbed
  PROVE  ReportsPast(nb', run'[b]) /\ SeesDrift(nb', run'[b])
<1>1. run'[b] = [run[b] EXCEPT !.disturbed = @ \/ (nb' # nb /\ run[b].pc # "idle")]
  BY DEF Steps
<1>2. /\ run'[b].pc = run[b].pc /\ run'[b].i = run[b].i /\ run'[b].seen = run[b].seen
      /\ run'[b].created = run[b].created /\ run'[b].updated = run[b].updated
      /\ run'[b].unchanged = run[b].unchanged
      /\ run'[b].disturbed = (run[b].disturbed \/ (nb' # nb /\ run[b].pc # "idle"))
  BY <1>1 DEF TypeOK, Run
<1>3. nb' = nb /\ ~run[b].disturbed
  BY <1>2 DEF Active
<1> QED BY <1>2, <1>3 DEF QuietInv, ReportsPast, SeesDrift, past, Active

\* A run that goes on, with the same report, at the same field, without a write.
LEMMA SameTurn ==
  ASSUME NEW r \in Run, NEW q \in Run, ReportsPast(nb, r), nb' = nb, q.i = r.i,
         q.created = r.created, q.updated = r.updated, q.unchanged = r.unchanged
  PROVE  ReportsPast(nb', q)
BY DEF ReportsPast, past

\* A run that goes on to the next field, having reported this one in one of its
\* three lists, with this one in order and the earlier ones untouched.
LEMMA NextTurn ==
  ASSUME NEW r \in Run, r.i \in 1 .. Len(fields), ReportsPast(nb, r), NEW u \in Run,
         u.i = r.i,
         \/ /\ u.created = r.created \cup {fields[r.i]} /\ u.updated = r.updated
            /\ u.unchanged = r.unchanged
         \/ /\ u.updated = r.updated \cup {fields[r.i]} /\ u.created = r.created
            /\ u.unchanged = r.unchanged
         \/ /\ u.unchanged = r.unchanged \cup {fields[r.i]} /\ u.created = r.created
            /\ u.updated = r.updated,
         nb'[fields[r.i]].present, diff(fields[r.i], nb'[fields[r.i]].differs) = {},
         \A g \in Fields : g # fields[r.i] => nb'[g] = nb[g]
  PROVE  ReportsPast(nb', NextSpec(u)) /\ SeesDrift(nb', NextSpec(u))
<1> DEFINE q == NextSpec(u)
           f == fields[r.i]
<1>1. /\ q.created = u.created /\ q.updated = u.updated /\ q.unchanged = u.unchanged
      /\ q.i = r.i + 1
  BY NextSpecReport
<1>2. past(q) = past(r) \cup {f} /\ f \notin past(r) /\ past(r) \subseteq Fields
  BY <1>1, PastNext
<1>3. q.pc # "patch"
  BY NextSpecTyped
<1> HIDE DEF q, f
<1>4. \A g \in past(q) : nb'[g].present /\ diff(g, nb'[g].differs) = {}
  BY <1>2 DEF ReportsPast, f
<1>5. /\ q.created \cup q.updated \cup q.unchanged = past(q)
      /\ q.created \cap q.updated = {} /\ q.updated \cap q.unchanged = {}
      /\ q.unchanged \cap q.created = {}
  BY <1>1, <1>2 DEF ReportsPast, f
<1>6. ReportsPast(nb', q) /\ SeesDrift(nb', q)
  BY <1>3, <1>4, <1>5 DEF ReportsPast, SeesDrift
<1> QED BY <1>6 DEF q

\* When nobody else changes Netbox, every step keeps the report exact.
LEMMA QuietStep == TypeOK /\ TypeOK' /\ QuietInv /\ [Next]_vars => QuietInv'
<1> SUFFICES ASSUME TypeOK, TypeOK', QuietInv, [Next]_vars,
                    NEW b \in Appliers, run'[b].pc \in Active, ~run'[b].disturbed
             PROVE  ReportsPast(nb', run'[b]) /\ SeesDrift(nb', run'[b])
  BY DEF QuietInv
<1>1. run[b] \in Run /\ run'[b] \in Run
  BY DEF TypeOK
<1>2. CASE Start(b)
  <2>1. run'[b] = NewRun
    BY <1>2 DEF Start, Steps
  <2>2. /\ run'[b].i = 1 /\ run'[b].pc # "patch"
        /\ run'[b].created = {} /\ run'[b].updated = {} /\ run'[b].unchanged = {}
    BY <2>1 DEF NewRun
  <2>3. past(run'[b]) = {}
    BY <2>2 DEF past
  <2> QED BY <2>2, <2>3 DEF ReportsPast, SeesDrift, past
<1>3. ASSUME Busy(b), ~run[b].disturbed
      PROVE  /\ ReportsPast(nb, run[b]) /\ SeesDrift(nb, run[b])
             /\ Field(b) \in Fields /\ nb[Field(b)] \in CustomField
             /\ Field(b) = fields[run[b].i] /\ run[b].i \in 1 .. Len(fields)
  BY <1>3, FieldTyped DEF QuietInv, Active, Busy, Field
<1>4. CASE FetchExisting(b)
  <2> DEFINE r == run[b]
             f == Field(b)
             u == [r EXCEPT !.unchanged = @ \cup {f}]
             c == [r EXCEPT !.pc = "create"]
             p == [r EXCEPT !.pc = "reget"]
  <2>1. Busy(b) /\ f \in Fields /\ UNCHANGED nb
    BY <1>4, FieldTyped DEF FetchExisting, Busy
  <2>2. /\ u \in Run /\ u.created = r.created /\ u.updated = r.updated /\ u.i = r.i
        /\ u.unchanged = r.unchanged \cup {f} /\ u.disturbed = r.disturbed
    BY <1>1, <2>1 DEF Run
  <2>3. ASSUME NEW q \in {c, p}
        PROVE  /\ q \in Run /\ q.created = r.created /\ q.updated = r.updated /\ q.i = r.i
               /\ q.unchanged = r.unchanged /\ q.disturbed = r.disturbed /\ q.pc # "patch"
    BY <1>1 DEF Run
  <2>4. \/ run'[b] \in {c, p}
        \/ /\ nb[f].present /\ diff(f, nb[f].differs) = {}
           /\ run'[b] = NextSpec(u)
        \/ run'[b] = Raises(r, "SchemaError")
    BY <1>4 DEF FetchExisting, Steps
  <2> HIDE DEF u, c, p
  <2>5. CASE run'[b] \in {c, p}
    <3>1. ReportsPast(nb, r)
      BY <1>3, <2>1, <2>3, <2>5
    <3>2. ReportsPast(nb', run'[b])
      BY <1>1, <2>1, <2>3, <2>5, <3>1, SameTurn
    <3> QED BY <2>3, <2>5, <3>2 DEF SeesDrift, ReportsPast, past
  <2>6. CASE nb[f].present /\ diff(f, nb[f].differs) = {} /\ run'[b] = NextSpec(u)
    <3>1. ~r.disturbed
      BY <2>2, <2>6, NextSpecReport
    <3> QED BY <1>1, <1>3, <2>1, <2>2, <2>6, <3>1, NextTurn
  <2>7. CASE run'[b] = Raises(r, "SchemaError")
    BY <1>1, <2>7, RaisesTyped DEF Active
  <2> QED BY <2>4, <2>5, <2>6, <2>7
<1>5. CASE Create(b)
  <2> DEFINE r == run[b]
             f == Field(b)
             u == [r EXCEPT !.created = @ \cup {f}]
  <2>1. Busy(b) /\ f \in Fields
    BY <1>5, FieldTyped DEF Create, Busy
  <2>2. /\ u \in Run /\ u.updated = r.updated /\ u.unchanged = r.unchanged /\ u.i = r.i
        /\ u.created = r.created \cup {f} /\ u.disturbed = r.disturbed
    BY <1>1, <2>1 DEF Run
  <2>3. \/ nb' = Created(f, {}) /\ run'[b] = NextSpec(u)
        \/ run'[b] = Raises(r, "NetboxQueryError")
    BY <1>5 DEF Create, Steps
  <2> HIDE DEF u
  <2>4. CASE nb' = Created(f, {}) /\ run'[b] = NextSpec(u)
    <3>1. ~r.disturbed
      BY <2>2, <2>4, NextSpecReport
    <3>2. nb'[f].present /\ nb'[f].differs = {} /\ \A g \in Fields : g # f => nb'[g] = nb[g]
      BY <2>1, <2>4, CreatedFields
    <3>3. diff(f, nb'[f].differs) = {}
      BY <3>2 DEF diff
    <3> QED BY <1>1, <1>3, <2>1, <2>2, <2>4, <3>1, <3>2, <3>3, NextTurn
  <2>5. CASE run'[b] = Raises(r, "NetboxQueryError")
    BY <1>1, <2>5, RaisesTyped DEF Active
  <2> QED BY <2>3, <2>4, <2>5
<1>6. CASE RefetchRecord(b)
  <2> DEFINE r == run[b]
             f == Field(b)
             p == [r EXCEPT !.pc = "patch", !.seen = diff(f, nb[f].differs), !.id = nb[f].id]
             u == [r EXCEPT !.updated = @ \cup {f}]
  <2>1. Busy(b) /\ UNCHANGED nb /\ f \in Fields
    BY <1>6, FieldTyped DEF RefetchRecord, Busy
  <2>2. /\ p.created = r.created /\ p.updated = r.updated /\ p.unchanged = r.unchanged
        /\ p.i = r.i /\ p.seen = diff(f, nb[f].differs) /\ p.disturbed = r.disturbed
    BY <1>1 DEF Run
  <2>3. \/ nb[f].present /\ run'[b] = p
        \/ nb[f].present /\ diff(f, nb[f].differs) = {} /\ run'[b] = NextSpec(u)
        \/ run'[b] = Raises(r, "NetboxQueryError")
    BY <1>6 DEF RefetchRecord, Steps
  <2>4. /\ u \in Run /\ u.created = r.created /\ u.unchanged = r.unchanged /\ u.i = r.i
        /\ u.updated = r.updated \cup {f} /\ u.disturbed = r.disturbed
    BY <1>1, <2>1 DEF Run
  <2> HIDE DEF p, u
  <2>5. CASE nb[f].present /\ run'[b] = p
    <3>1. ReportsPast(nb, r) /\ f = fields[r.i]
      BY <1>3, <2>1, <2>2, <2>5
    <3>2. ReportsPast(nb', run'[b])
      BY <1>1, <2>1, <2>2, <2>5, <3>1, SameTurn
    <3>3. SeesDrift(nb', run'[b])
      BY <2>1, <2>2, <2>5, <3>1 DEF SeesDrift
    <3> QED BY <3>2, <3>3
  <2>6. CASE run'[b] = Raises(r, "NetboxQueryError")
    BY <1>1, <2>6, RaisesTyped DEF Active
  <2>7. CASE nb[f].present /\ diff(f, nb[f].differs) = {} /\ run'[b] = NextSpec(u)
    <3>1. ~r.disturbed
      BY <2>4, <2>7, NextSpecReport
    <3>2. ReportsPast(nb, r) /\ r.i \in 1 .. Len(fields) /\ f = fields[r.i]
      BY <1>3, <2>1, <3>1
    <3> QED BY <1>1, <2>1, <2>4, <2>7, <3>2, NextTurn
  <2> QED BY <2>3, <2>5, <2>6, <2>7
<1>7. CASE Patch(b)
  <2> DEFINE r == run[b]
             f == Field(b)
             u == [r EXCEPT !.updated = @ \cup {f}]
  <2>1. Busy(b) /\ f \in Fields /\ r.pc = "patch" /\ r.seen \in SUBSET Attributes
    BY <1>1, <1>7, FieldTyped DEF Patch, Busy, Run
  <2>2. /\ u \in Run /\ u.created = r.created /\ u.unchanged = r.unchanged /\ u.i = r.i
        /\ u.updated = r.updated \cup {f} /\ u.disturbed = r.disturbed
    BY <1>1, <2>1 DEF Run
  <2>3. \/ nb' = Patched(f, r.seen) /\ run'[b] = NextSpec(u)
        \/ run'[b] = Raises(r, "NetboxQueryError")
    BY <1>7 DEF Patch, Steps
  <2> HIDE DEF u
  <2>4. CASE nb' = Patched(f, r.seen) /\ run'[b] = NextSpec(u)
    <3>1. ~r.disturbed
      BY <2>2, <2>4, NextSpecReport
    <3>2. /\ nb'[f].present = nb[f].present /\ nb'[f].differs = nb[f].differs \ r.seen
          /\ \A g \in Fields : g # f => nb'[g] = nb[g]
      BY <2>1, <2>4, PatchedFields
    <3>3. nb[f].present /\ diff(f, nb[f].differs) \subseteq r.seen
      BY <1>3, <2>1, <3>1 DEF SeesDrift
    <3>4. diff(f, nb'[f].differs) = {}
      BY <3>2, <3>3 DEF diff
    <3>5. nb'[f].present /\ \A g \in Fields : g # f => nb'[g] = nb[g]
      BY <3>2, <3>3
    <3>6. ReportsPast(nb, r) /\ r.i \in 1 .. Len(fields) /\ f = fields[r.i]
      BY <1>3, <2>1, <3>1
    <3> QED BY <1>1, <2>2, <2>4, <3>4, <3>5, <3>6, NextTurn
  <2>5. CASE run'[b] = Raises(r, "NetboxQueryError")
    BY <1>1, <2>5, RaisesTyped DEF Active
  <2> QED BY <2>3, <2>4, <2>5
<1>8. CASE RequestFails(b) \/ ReplyLost(b)
  <2>1. run'[b] = Raises(run[b], "NetboxQueryError")
    BY <1>8 DEF RequestFails, ReplyLost, Steps
  <2> QED BY <1>1, <2>1, RaisesTyped DEF Active
<1>9. ASSUME NEW a \in Appliers, a # b,
             \/ Start(a) \/ FetchExisting(a) \/ Create(a) \/ RefetchRecord(a) \/ Patch(a)
             \/ RequestFails(a) \/ ReplyLost(a)
      PROVE  ReportsPast(nb', run'[b]) /\ SeesDrift(nb', run'[b])
  <2>1. \E r : Steps(a, r)
    BY <1>9 DEF Start, FetchExisting, Create, RefetchRecord, Patch, RequestFails, ReplyLost
  <2> QED BY <1>9, <2>1, OthersKeepQuiet
<1>10. CASE OthersEdit
  <2>1. PICK new : Edit(new)
    BY <1>10 DEF OthersEdit
  <2>2. run'[b].pc = run[b].pc /\ run'[b].disturbed = (run[b].disturbed \/ run[b].pc # "idle")
    <3>1. run'[b] = [run[b] EXCEPT !.disturbed = @ \/ run[b].pc # "idle"] /\ run[b] \in Run
      BY <2>1 DEF Edit, TypeOK
    <3> QED BY <3>1 DEF Run
  <2> QED BY <2>2 DEF Active
<1>11. CASE UNCHANGED vars
  BY <1>11 DEF vars, QuietInv, ReportsPast, SeesDrift, past
<1> QED BY <1>2, <1>4, <1>5, <1>6, <1>7, <1>8, <1>9, <1>10, <1>11 DEF Next

\* Whatever an earlier run that died halfway left in Netbox, a run that nobody
\* disturbs leaves every field it is past in order, and reports each of them once.
THEOREM ReportsAreTrue == Spec => []QuietApplyMatches
<1>1. Init => QuietInv
  BY NewRunTyped DEF Init, QuietInv, Active
<1>2. TypeOK /\ QuietInv => QuietApplyMatches
  BY DEF QuietInv, QuietApplyMatches, ReportsPast, past, Active, Busy
<1> QED BY <1>1, <1>2, QuietStep, TypeCorrect, PTL DEF Spec
=============================================================================
