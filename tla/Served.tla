-------------------------------- MODULE Served --------------------------------
(***************************************************************************)
(* The renderer together with what becomes of the intents it serves: the   *)
(* emitter puts them into canonical form, a host boots with them, and the  *)
(* validator judges the host.                                              *)
(***************************************************************************)
EXTENDS RenderService, Emitter, HostValidator

\* The determinism of emitter.py as far as it goes: an intent that is served renders
\* to the same bytes in whatever order Netbox lists the interfaces, if its VLAN ids
\* differ, which no validator asks for, or the file has no VLANs.
RenderDeterministic ==
  \A r \in Requests :
    body[r] # None /\ (kind[r] = "meta-data" \/ DistinctVlanIds(body[r]))
      => OrderIndependent(body[r], kind[r])

\* What emitter.py says of it: the lists are sorted by name before rendering, so that
\* the bytes hold regardless of upstream order.
BytesIgnoreListingOrder ==
  \A r \in Requests : body[r] # None => OrderIndependent(body[r], kind[r])

\* What the service serves an H200 host and what the script makes of the host
\* agree: the verdict is OK exactly on a host that has the network Netbox meant
\* (VerdictExact), for every intent the loader and the validators let through.
ServedHostValidates ==
  \A r \in Requests :
    pc[r] = "returned" /\ kind[r] = "user-data" /\ body[r] # None /\ body[r].role = "gpu-h200"
    => VerdictExact(body[r])
=============================================================================
