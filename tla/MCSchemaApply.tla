---------------------------- MODULE MCSchemaApply ----------------------------
(***************************************************************************)
(* A small instance of SchemaApply: two of the seven fields, one with      *)
(* bounds and one without, and two callers.  Netbox may start empty,       *)
(* complete, with drift that can be patched, or with drift that cannot.    *)
(***************************************************************************)
EXTENDS SchemaApply, TLC

mcFields   == <<"bf3_mode", "roce_tc">>
mcOptional == [f \in Fields |-> IF f = "bf3_mode" THEN {"description", "default"}
                                ELSE {"description", "validation_minimum", "validation_maximum"}]

Missing         == [present |-> FALSE, differs |-> {}, id |-> 0]
Existing(diffs) == [present |-> TRUE, differs |-> diffs, id |-> 1]

mcInitial ==
  [Fields -> {Missing, Existing({}), Existing({"description", "validation_minimum"}),
              Existing({"type"})}]

mcEdits == {<<"bf3_mode", "label">>, <<"roce_tc", "object_types">>,
            <<"roce_tc", "validation_minimum">>}
=============================================================================
