----------------------------- MODULE SchemaApply -----------------------------
(***************************************************************************)
(* apply_schema: the custom fields the project depends on are brought into *)
(* Netbox, one field and one HTTP request at a time.                       *)
(*                                                                         *)
(* Several runs may overlap (two operators, a deploy and an operator), a   *)
(* run may die at any request, with or without the request having taken    *)
(* effect, and people edit or delete custom fields meanwhile.              *)
(*                                                                         *)
(* A custom field is whether it exists and the set of its attributes that  *)
(* differ from the specification's; that is all _diff, _is_recoverable and *)
(* a PATCH of the specification's values can tell apart.  Its id tells it  *)
(* from a field of the same name that was deleted.                         *)
(***************************************************************************)
EXTENDS Integers, Sequences, FiniteSets

CONSTANTS
  fields,    \* the sequence of custom fields to apply (DEFAULT_FIELDS)
  Optional,  \* for each, the optional attributes its specification sets
  Appliers,  \* identities of the runs' callers
  Initial,   \* what Netbox may hold at the start
  Edits,     \* attributes other users change
  MaxEdits,  \* bound on their edits
  MaxRuns    \* bound on the runs of apply_schema

Fields == {fields[i] : i \in 1 .. Len(fields)}

\* to_payload: what is always sent, and what only if the specification has it.
AlwaysSent   == {"name", "label", "type", "object_types", "required"}
SentIfSet    == {"description", "default", "choices", "validation_minimum",
                 "validation_maximum"}
Attributes   == AlwaysSent \cup SentIfSet
to_payload(f) == AlwaysSent \cup Optional[f]

CustomField == [present : BOOLEAN, differs : SUBSET Attributes, id : Nat]

ASSUME SchemaAssumption ==
  /\ fields \in Seq(Fields) /\ \A i, j \in 1 .. Len(fields) : fields[i] = fields[j] => i = j
  /\ Optional \in [Fields -> SUBSET SentIfSet]
  /\ Initial \subseteq [Fields -> CustomField]
  /\ Edits \subseteq Fields \X (Attributes \ {"name", "type"})
  /\ IsFiniteSet(Appliers)
  /\ MaxEdits \in Nat /\ MaxRuns \in Nat

VARIABLES
  nb,     \* the custom fields in Netbox
  edits,  \* number of edits made
  runs,   \* number of runs started
  run     \* each caller's current or last run

vars == <<nb, edits, runs, run>>

\* pc: the next request; i: index of the spec the loop is at; seen, id: the
\* attributes that differed in the record to patch, and its id; the report; and
\* whether Netbox was changed by somebody else since the run began.
NewRun == [pc |-> IF Len(fields) = 0 THEN "returned" ELSE "get", i |-> 1, seen |-> {}, id |-> 0,
           created |-> {}, updated |-> {}, unchanged |-> {}, disturbed |-> FALSE]
Idle   == [NewRun EXCEPT !.pc = "idle"]

Init ==
  /\ nb \in Initial /\ edits = 0 /\ runs = 0
  /\ run = [a \in Appliers |-> Idle]

-----------------------------------------------------------------------------
RECOVERABLE_DRIFT_KEYS == SentIfSet \cup {"label", "required"}

diff(f, differs)      == to_payload(f) \cap differs
is_recoverable(drift) == drift \subseteq RECOVERABLE_DRIFT_KEYS

Busy(a)    == run[a].pc \in {"get", "create", "reget", "patch"}
Field(a)   == fields[run[a].i]

\* a's run goes on as r; the runs of the others notice if Netbox changed.
Steps(a, r) ==
  run' = [b \in Appliers |->
            IF b = a THEN r
            ELSE [run[b] EXCEPT !.disturbed = @ \/ (nb' # nb /\ run[b].pc # "idle")]]

\* The loop goes on to the next specification, or the report is returned.
\* Faulty variant: it goes one too far.
NextSpec_Overrun(r) ==
  [r EXCEPT !.i = @ + 1, !.seen = {}, !.id = 0,
            !.pc = IF r.i > Len(fields) THEN "returned" ELSE "get"]
NextSpec(r) ==
  [r EXCEPT !.i = @ + 1, !.seen = {}, !.id = 0,
            !.pc = IF r.i = Len(fields) THEN "returned" ELSE "get"]
Raises(r, e) == [r EXCEPT !.pc = e, !.seen = {}, !.id = 0]

Start(a) ==
  /\ ~Busy(a) /\ runs < MaxRuns
  /\ runs' = runs + 1
  /\ UNCHANGED <<nb, edits>>
  /\ Steps(a, NewRun)

\* _fetch_existing, and what the loop body decides from it.
FetchExisting(a) ==
  LET r     == run[a]
      f     == Field(a)
      drift == diff(f, nb[f].differs)
  IN  /\ r.pc = "get"
      /\ UNCHANGED <<nb, edits, runs>>
      /\ \/ ~nb[f].present /\ Steps(a, [r EXCEPT !.pc = "create"])
         \/ /\ nb[f].present /\ drift = {}
            /\ Steps(a, NextSpec([r EXCEPT !.unchanged = @ \cup {f}]))
         \/ /\ nb[f].present /\ drift # {} /\ ~is_recoverable(drift)
            /\ Steps(a, Raises(r, "SchemaError"))
         \/ /\ nb[f].present /\ drift # {} /\ is_recoverable(drift)
            /\ Steps(a, [r EXCEPT !.pc = "reget"])

Created(f, differs) ==
  [nb EXCEPT ![f] = [present |-> TRUE, differs |-> differs, id |-> @.id + 1]]

\* _create: Netbox keeps names unique, so the second of two POSTs is refused.
\* Faulty variant: the refusal is taken for success.
Create_IgnoreDuplicate(a) ==
  LET r == run[a]
      f == Field(a)
  IN  /\ r.pc = "create"
      /\ nb' = IF nb[f].present THEN nb ELSE Created(f, {})
      /\ Steps(a, NextSpec([r EXCEPT !.created = @ \cup {f}]))
      /\ UNCHANGED <<edits, runs>>
Create(a) ==
  LET r == run[a]
      f == Field(a)
  IN  /\ r.pc = "create"
      /\ \/ /\ ~nb[f].present
            /\ nb' = Created(f, {})
            /\ Steps(a, NextSpec([r EXCEPT !.created = @ \cup {f}]))
         \/ /\ nb[f].present
            /\ UNCHANGED nb
            /\ Steps(a, Raises(r, "NetboxQueryError"))
      /\ UNCHANGED <<edits, runs>>

\* _patch fetches the record again; if nothing differs in it any more, pynetbox has
\* nothing to send and update() is over ...
RefetchRecord(a) ==
  LET r     == run[a]
      f     == Field(a)
      drift == diff(f, nb[f].differs)
  IN  /\ r.pc = "reget"
      /\ UNCHANGED <<nb, edits, runs>>
      /\ \/ /\ nb[f].present /\ drift # {}
            /\ Steps(a, [r EXCEPT !.pc = "patch", !.seen = drift, !.id = nb[f].id])
         \/ /\ nb[f].present /\ drift = {}
            /\ Steps(a, NextSpec([r EXCEPT !.updated = @ \cup {f}]))
         \/ ~nb[f].present /\ Steps(a, Raises(r, "NetboxQueryError"))

\* ... or it sends the specification's value of every attribute that
\* differed in it; Netbox refuses to change a type, or a field that is gone.
Patchable(f, r) == nb[f].present /\ nb[f].id = r.id /\ "type" \notin r.seen
\* Faulty variant: the record that was fetched is written back whole.
Patched_WholeRecord(f, sent) == [nb EXCEPT ![f].differs = sent]
Patched(f, sent)             == [nb EXCEPT ![f].differs = @ \ sent]

Patch(a) ==
  LET r == run[a]
      f == Field(a)
  IN  /\ r.pc = "patch"
      /\ \/ /\ Patchable(f, r)
            /\ nb' = Patched(f, r.seen)
            /\ Steps(a, NextSpec([r EXCEPT !.updated = @ \cup {f}]))
         \/ /\ ~Patchable(f, r)
            /\ UNCHANGED nb
            /\ Steps(a, Raises(r, "NetboxQueryError"))
      /\ UNCHANGED <<edits, runs>>

\* A request fails before it has reached Netbox ...
RequestFails(a) ==
  /\ Busy(a)
  /\ UNCHANGED <<nb, edits, runs>>
  /\ Steps(a, Raises(run[a], "NetboxQueryError"))

\* ... or its reply is lost.
ReplyLost(a) ==
  LET f == Field(a) IN
  /\ \/ /\ run[a].pc = "create" /\ ~nb[f].present
        /\ nb' = Created(f, {})
     \/ /\ run[a].pc = "patch" /\ Patchable(f, run[a])
        /\ nb' = Patched(f, run[a].seen)
  /\ UNCHANGED <<edits, runs>>
  /\ Steps(a, Raises(run[a], "NetboxQueryError"))

\* Somebody changes an attribute of a field, deletes the field, or creates it
\* with another type.
Edit(new) ==
  /\ edits < MaxEdits /\ new # nb
  /\ nb' = new /\ edits' = edits + 1
  /\ run' = [b \in Appliers |-> [run[b] EXCEPT !.disturbed = @ \/ run[b].pc # "idle"]]
  /\ UNCHANGED runs

OthersEdit ==
  \/ \E e \in Edits : nb[e[1]].present /\ Edit([nb EXCEPT ![e[1]].differs = @ \cup {e[2]}])
  \/ \E f \in Fields : nb[f].present /\ Edit([nb EXCEPT ![f].present = FALSE, ![f].differs = {}])
  \/ \E f \in Fields : ~nb[f].present /\ Edit(Created(f, {"type"}))

Next ==
  \/ \E a \in Appliers : Start(a)
  \/ \E a \in Appliers : FetchExisting(a)
  \/ \E a \in Appliers : Create(a)
  \/ \E a \in Appliers : RefetchRecord(a)
  \/ \E a \in Appliers : Patch(a)
  \/ \E a \in Appliers : RequestFails(a)
  \/ \E a \in Appliers : ReplyLost(a)
  \/ OthersEdit

Spec == Init /\ [][Next]_vars

-----------------------------------------------------------------------------
Run == [pc : {"idle", "get", "create", "reget", "patch", "returned", "SchemaError",
              "NetboxQueryError"},
        i : 1 .. Len(fields) + 1, seen : SUBSET Attributes, id : Nat,
        created : SUBSET Fields, updated : SUBSET Fields, unchanged : SUBSET Fields,
        disturbed : BOOLEAN]

\* A run is well typed, and its loop is at a specification as long as it runs
\* (apply_schema).
TypeOK ==
  /\ nb \in [Fields -> CustomField]
  /\ edits \in 0 .. MaxEdits /\ runs \in 0 .. MaxRuns
  /\ run \in [Appliers -> Run]
  /\ \A a \in Appliers : Busy(a) => run[a].i \in 1 .. Len(fields)

\* What a run reports is what it leaves behind, whatever runs that died halfway
\* left it to start from: as long as nobody else changes Netbox, every field the
\* loop of apply_schema is past matches its specification, and is reported once.
QuietApplyMatches ==
  \A a \in Appliers :
    LET r    == run[a]
        past == {fields[j] : j \in 1 .. r.i - 1}
    IN  (Busy(a) \/ r.pc = "returned") /\ ~r.disturbed =>
          /\ \A f \in past : nb[f].present /\ diff(f, nb[f].differs) = {}
          /\ r.created \cup r.updated \cup r.unchanged = past
          /\ r.created \cap r.updated = {} /\ r.updated \cap r.unchanged = {}
          /\ r.unchanged \cap r.created = {}

\* Of two runs that both find a field missing one creates it, and only that one
\* reports it created (_create).
CreatedOnce ==
  \A f \in Fields : Cardinality({a \in Appliers : f \in run[a].created}) <= nb[f].id

\* What schema.py says of an attribute that is not in _RECOVERABLE_DRIFT_KEYS: a
\* difference in it forces the operator to fix Netbox by hand, so no run overwrites
\* it in a field that is there.
UnrecoverableLeftAlone ==
  [][edits' = edits =>
       \A f \in Fields :
         nb[f].present => nb[f].differs \ nb'[f].differs \subseteq RECOVERABLE_DRIFT_KEYS]_vars
=============================================================================
