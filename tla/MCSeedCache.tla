----------------------------- MODULE MCSeedCache -----------------------------
(***************************************************************************)
(* A small instance of SeedCache, with the order of the times kept: a lock *)
(* may be taken over before the fetch it protects ends, an entry outlives  *)
(* a fetch.  The requests are interchangeable; the run that checks         *)
(* liveness does not use that.                                             *)
(***************************************************************************)
EXTENDS SeedCache, TLC

\* A state in which everyone has been answered is checked but not left: nothing
\* that can still happen is seen by a request.
SomeoneWaits == \E r \in Requests : req[r].pc # "done"

symmetry == Permutations(Requests)
=============================================================================
