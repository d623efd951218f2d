---------------------------- MODULE RenderService ----------------------------
(***************************************************************************)
(* The renderer: one uvicorn process, one event loop, in front of Netbox.  *)
(*                                                                         *)
(* A request runs on the event loop in three pieces that other requests    *)
(* can come between: the middleware up to `await call_next`, the route     *)
(* handler, and the middleware after it.  The handlers are coroutines, but *)
(* they call pynetbox synchronously, so a handler keeps the loop (`loop`)  *)
(* from its first Netbox query until it returns.  Netbox is another        *)
(* process: its data may change, and a query may fail, between any two     *)
(* queries of one load.                                                    *)
(*                                                                         *)
(* One asset tag is modelled: requests for different hosts share nothing   *)
(* but the loop and the counters, and those are modelled.                  *)
(***************************************************************************)
EXTENDS HostIntent

CONSTANTS
  Requests,        \* identities of HTTP requests; each is received once
  Kinds,           \* what may be requested: RenderKinds and operational routes
  BrokenTemplates, \* <<role, file kind>> whose template does not render
  InitialHosts,    \* what Netbox may hold at the start
  NewIfaces,       \* <<name, record>>: interface edits other Netbox users make
  NewIps,          \* <<name, addresses>>: assignment edits
  NewSlugs,        \* role edits
  MaxEdits,        \* bound on the edits
  MaxRestarts      \* bound on process restarts

RenderKinds == {"meta-data", "user-data", "network-config"}
OpsKinds    == {"healthz", "readyz", "metrics"}

ASSUME ServiceAssumption ==
  /\ IsFiniteSet(Requests) /\ None \notin Requests
  /\ Kinds \subseteq RenderKinds \cup OpsKinds
  /\ BrokenTemplates \subseteq Roles \X RenderKinds
  /\ InitialHosts \subseteq Netbox
  /\ NewIfaces \subseteq Names \X Iface
  /\ NewIps \subseteq Names \X SUBSET (Addrs \cup {V6})
  /\ NewSlugs \subseteq Slugs
  /\ MaxEdits \in Nat /\ MaxRestarts \in Nat

VARIABLES
  nb,             \* Netbox's data for the asset tag
  edits,          \* number of edits made to it
  pc,             \* where each request is
  kind,           \* what it asked for
  status,         \* its HTTP status, once the handler has returned
  label,          \* the RENDERS_TOTAL series it incremented, or None
  body,           \* the intent its 200 body was rendered from, or None
  etag,           \* the ETag of its response, or None
  loop,           \* the request whose handler holds the event loop, or None
  load,           \* local variables of load_host_intent in that handler
  active,         \* ACTIVE_REQUESTS
  requests_total, \* REQUESTS_TOTAL, by status
  renders_total,  \* RENDERS_TOTAL, by <<role, outcome>>
  restarts        \* times the process was restarted

reqVars   == <<pc, kind, status, label, body, etag>>
nbVars    == <<nb, edits>>
countVars == <<active, requests_total, renders_total>>
vars      == <<nbVars, reqVars, loop, load, countVars, restarts>>

Statuses == {200, 404, 422, 500, 502, 503}
Outcomes == {"success", "validation_error", "netbox_error", "template_error"}
Labels   == (Roles \cup {"unknown"}) \X Outcomes

ASSUME NoneIsNoLabel == None \notin Labels

NoLoad == [phase |-> "none", slug |-> None, ifaces |-> [n \in Names |-> None],
           todo |-> {}, vlans |-> {}, roce |-> {}, ib |-> {}, dirty |-> FALSE]

InFlight == {"dispatched", "handling", "returned"}

Init ==
  /\ nb \in InitialHosts /\ edits = 0
  /\ pc = [r \in Requests |-> "new"]
  /\ kind = [r \in Requests |-> None]
  /\ status = [r \in Requests |-> 500]
  /\ label = [r \in Requests |-> None]
  /\ body = [r \in Requests |-> None]
  /\ etag = [r \in Requests |-> None]
  /\ loop = None /\ load = NoLoad
  /\ active = 0
  /\ requests_total = [s \in Statuses |-> 0]
  /\ renders_total = [l \in Labels |-> 0]
  /\ restarts = 0

-----------------------------------------------------------------------------
(***************************************************************************)
(* RequestContextMiddleware.dispatch.                                      *)
(***************************************************************************)

\* Up to `await call_next(request)`.
Dispatch(r, k) ==
  /\ pc[r] = "new" /\ loop = None
  /\ pc' = [pc EXCEPT ![r] = "dispatched"]
  /\ kind' = [kind EXCEPT ![r] = k]
  /\ active' = active + 1
  /\ UNCHANGED <<nbVars, status, label, body, etag, loop, load,
                 requests_total, renders_total, restarts>>

\* hashlib.sha256 of getattr(response, "body", b""): the response call_next
\* returns streams the handler's body and has no attribute of that name.
EmptyDigest == "sha256 of nothing"

\* ACTIVE_REQUESTS.dec(), in the `finally`.  Faulty variants: only when there is
\* a response; once more in the `except`.
DecActive_NotInFinally(r) == active' = IF status[r] = 500 THEN active ELSE active - 1
DecActive_AlsoInExcept(r) == active' = IF status[r] = 500 THEN active - 2 ELSE active - 1
DecActive(r)              == active' = active - 1

\* From call_next's return (or exception) through the `finally`.
Finish(r) ==
  /\ pc[r] = "returned" /\ loop = None
  /\ pc' = [pc EXCEPT ![r] = "done"]
  /\ etag' = [etag EXCEPT ![r] = IF kind[r] \in RenderKinds /\ status[r] = 200
                                 THEN EmptyDigest ELSE None]
  /\ DecActive(r)
  /\ requests_total' = [requests_total EXCEPT ![status[r]] = @ + 1]
  /\ UNCHANGED <<nbVars, kind, status, label, body, loop, load, renders_total, restarts>>

-----------------------------------------------------------------------------
(***************************************************************************)
(* The route handlers and the exception handlers of make_app.              *)
(***************************************************************************)
StatusOf(err) == CASE err = "HostNotFound" -> 404
                   [] err = "Invariant"    -> 422
                   [] err = "NetboxQuery"  -> 502
                   [] err = "Untyped"      -> 500

\* The handler of r gives up the loop with this status; lab is the series of
\* RENDERS_TOTAL it incremented, None if none.
Return(r, s, lab, h) ==
  /\ loop' = None /\ load' = NoLoad
  /\ pc' = [pc EXCEPT ![r] = "returned"]
  /\ status' = [status EXCEPT ![r] = s]
  /\ label' = [label EXCEPT ![r] = lab]
  /\ body' = [body EXCEPT ![r] = h]
  /\ renders_total' = IF lab = None THEN renders_total
                      ELSE [renders_total EXCEPT ![lab] = @ + 1]
  /\ UNCHANGED <<nbVars, kind, etag, active, requests_total, restarts>>

\* load_host_intent raised in r's handler.
LabelOf(err) == CASE err \in {"HostNotFound", "NetboxQuery"} -> <<"unknown", "netbox_error">>
                  [] err = "Invariant" -> <<"unknown", "validation_error">>
                  [] err = "Untyped"   -> None

Raise(r, err) == Return(r, StatusOf(err), LabelOf(err), None)

\* The handler goes on, still holding the loop.
Continue(l) ==
  /\ load' = l
  /\ UNCHANGED <<nbVars, reqVars, loop, countVars, restarts>>

\* The routes whose handler queries Netbox.
QueryingKinds == RenderKinds \cup {"readyz"}

StartHandler(r) ==
  /\ pc[r] = "dispatched" /\ kind[r] \in QueryingKinds /\ loop = None
  /\ pc' = [pc EXCEPT ![r] = "handling"]
  /\ loop' = r
  /\ load' = [NoLoad EXCEPT !.phase = IF kind[r] = "readyz" THEN "status" ELSE "device"]
  /\ UNCHANGED <<nbVars, kind, status, label, body, etag, countVars, restarts>>

\* healthz and metrics: no await, no Netbox.
AnswerLocally(r) ==
  /\ pc[r] = "dispatched" /\ kind[r] \in {"healthz", "metrics"} /\ loop = None
  /\ Return(r, 200, None, None)

\* readyz: client.status().
QueryStatus(r) ==
  /\ loop = r /\ load.phase = "status"
  /\ \E s \in {200, 503} : Return(r, s, None, None)

\* A query of a load raised, whichever it was.
QueryFails(r) ==
  /\ loop = r /\ load.phase \in {"device", "interfaces", "addresses"}
  /\ load.phase = "addresses" => load.todo # {}
  /\ Raise(r, "NetboxQuery")

FetchDevice(r) ==
  /\ loop = r /\ load.phase = "device"
  /\ \/ ~nb.device /\ Raise(r, "HostNotFound")
     \/ nb.device /\ Continue([load EXCEPT !.phase = "interfaces", !.slug = nb.slug])

\* Faulty variant: the InfiniBand loop is missing.
WithAddress_NoIb(ifaces) == Present(ifaces, VlanNames \cup RoceNames)
\* The interfaces the three build loops visit.
WithAddress(ifaces)      == Present(ifaces, VlanNames \cup RoceNames \cup IbNames)

\* The first of _parse_role, _build_ns_nics and _build_bond to raise.
structure_error(slug, ifaces) ==
  IF parse_role_error(slug) # "ok" THEN parse_role_error(slug)
  ELSE IF build_ns_nics_error(ifaces) # "ok" THEN build_ns_nics_error(ifaces)
  ELSE build_bond_error(ifaces)

\* _fetch_interfaces, then everything up to the first address query.  Netbox
\* refuses the query of a device that is gone: QueryFails.
FetchInterfaces(r) ==
  LET err == structure_error(load.slug, nb.ifaces) IN
  /\ loop = r /\ load.phase = "interfaces"
  /\ nb.device
  /\ \/ err # "ok" /\ Raise(r, err)
     \/ /\ err = "ok"
        /\ Continue([load EXCEPT !.phase = "addresses", !.ifaces = nb.ifaces,
                                 !.todo = WithAddress(nb.ifaces)])

\* VLANs first, then RoCE, then InfiniBand; Netbox lists each kind in any order.
NextInLine(todo) ==
  IF todo \cap VlanNames # {} THEN todo \cap VlanNames
  ELSE IF todo \cap RoceNames # {} THEN todo \cap RoceNames
  ELSE todo

\* The first thing to raise in one iteration of a build loop.
build_error(n, i, ips) ==
  IF pre_ip_error(n, i) # "ok" THEN pre_ip_error(n, i)
  ELSE IF single_ip_error(ips) # "ok" THEN single_ip_error(ips)
  ELSE model_error(n, i)

\* One iteration of a build loop: _fetch_single_ip and what surrounds it.
FetchAddress(r) ==
  /\ loop = r /\ load.phase = "addresses"
  /\ \E n \in NextInLine(load.todo) :
       LET i   == load.ifaces[n]
           ips == nb.ips[n]
           err == build_error(n, i, ips)
           l   == [load EXCEPT !.todo = @ \ {n}]
       IN  \/ err # "ok" /\ Raise(r, err)
           \/ /\ err = "ok" /\ n \in VlanNames
              /\ Continue([l EXCEPT !.vlans = @ \cup {build_vlan(n, i, ips)}])
           \/ /\ err = "ok" /\ n \in RoceNames
              /\ Continue([l EXCEPT !.roce = @ \cup {build_roce(n, i, ips)}])
           \/ /\ err = "ok" /\ n \in IbNames
              /\ Continue([l EXCEPT !.ib = @ \cup {build_ib(n, i, ips)}])

\* The HostIntent the loader constructs from its local variables.
LoadedIntent(l) ==
  [role |-> l.slug, ns_nics |-> build_ns_nics(l.ifaces),
   bond |-> build_bond(l.ifaces, build_ns_nics(l.ifaces)),
   vlans |-> l.vlans, roce_underlays |-> l.roce, ib_underlays |-> l.ib]

\* HostIntent(...), and if it is accepted render_for and the response.
ValidateAndRender(r) ==
  LET h == LoadedIntent(load) IN
  /\ loop = r /\ load.phase = "addresses" /\ load.todo = {}
  /\ \/ ~check_invariants(h) /\ Raise(r, "Invariant")
     \/ /\ check_invariants(h) /\ <<h.role, kind[r]>> \in BrokenTemplates
        /\ Return(r, 500, <<h.role, "template_error">>, None)
     \/ /\ check_invariants(h) /\ <<h.role, kind[r]>> \notin BrokenTemplates
        /\ Return(r, 200, <<h.role, "success">>, h)

-----------------------------------------------------------------------------
(***************************************************************************)
(* Other users of Netbox (external): people, populate, discovery agents.   *)
(***************************************************************************)
Edit(new) ==
  /\ edits < MaxEdits /\ nb.device /\ new # nb
  /\ nb' = new /\ edits' = edits + 1
  /\ load' = [load EXCEPT !.dirty = @ \/ loop # None]
  /\ UNCHANGED <<reqVars, loop, countVars, restarts>>

\* Netbox deletes the addresses' assignments with their interface.
EditIface(n, i) ==
  Edit([nb EXCEPT !.ifaces[n] = i, !.ips[n] = IF i.present THEN @ ELSE {}])
EditIps(n, ips) == nb.ifaces[n].present /\ Edit([nb EXCEPT !.ips[n] = ips])
EditRole(slug)  == Edit([nb EXCEPT !.slug = slug])
DeleteDevice    ==
  Edit([nb EXCEPT !.device = FALSE,
                  !.ifaces = [n \in Names |-> [nb.ifaces[n] EXCEPT !.present = FALSE]],
                  !.ips = [n \in Names |-> {}]])

NetboxEdit ==
  \/ \E e \in NewIfaces : EditIface(e[1], e[2])
  \/ \E e \in NewIps : EditIps(e[1], e[2])
  \/ \E s \in NewSlugs : EditRole(s)
  \/ DeleteDevice

\* systemd restarts the process (Restart=on-failure, or lab-refresh): counters
\* start from zero and every connection is gone.
Restart ==
  /\ restarts < MaxRestarts
  /\ restarts' = restarts + 1
  /\ pc' = [r \in Requests |-> IF pc[r] = "new" THEN "new" ELSE "gone"]
  /\ loop' = None /\ load' = NoLoad
  /\ active' = 0
  /\ requests_total' = [s \in Statuses |-> 0]
  /\ renders_total' = [l \in Labels |-> 0]
  /\ UNCHANGED <<nbVars, kind, status, label, body, etag>>

-----------------------------------------------------------------------------
ServiceStep(r) == StartHandler(r) \/ AnswerLocally(r) \/ ValidateAndRender(r) \/ Finish(r)

Next ==
  \/ \E r \in Requests, k \in Kinds : Dispatch(r, k)
  \/ \E r \in Requests : StartHandler(r)
  \/ \E r \in Requests : AnswerLocally(r)
  \/ \E r \in Requests : QueryStatus(r)
  \/ \E r \in Requests : QueryFails(r)
  \/ \E r \in Requests : FetchDevice(r)
  \/ \E r \in Requests : FetchInterfaces(r)
  \/ \E r \in Requests : FetchAddress(r)
  \/ \E r \in Requests : ValidateAndRender(r)
  \/ \E r \in Requests : Finish(r)
  \/ NetboxEdit
  \/ Restart

\* The event loop runs every ready task, so what a request can do on a loop
\* nobody takes away happens.  Of Netbox nothing is asked: it may accept a
\* connection and never answer on it, and the pynetbox client has no timeout.
LoopFairness == \A r \in Requests : WF_vars(ServiceStep(r))

Spec == Init /\ [][Next]_vars /\ LoopFairness

-----------------------------------------------------------------------------
Phases == {"none", "status", "device", "interfaces", "addresses"}
Load   == [phase : Phases, slug : Slugs \cup {None}, ifaces : [Names -> Iface \cup {None}],
           todo : SUBSET Names, vlans : SUBSET VlanChild, roce : SUBSET RoceUnderlay,
           ib : SUBSET InfinibandUnderlay, dirty : BOOLEAN]

\* The service is well typed: the gauge is never negative, no answer has a status
\* no handler produces, no body is anything but an intent the models accept.
TypeOK ==
  /\ nb \in Netbox /\ edits \in 0 .. MaxEdits
  /\ pc \in [Requests -> {"new", "gone", "done"} \cup InFlight]
  /\ kind \in [Requests -> Kinds \cup {None}]
  /\ status \in [Requests -> Statuses]
  /\ label \in [Requests -> Labels \cup {None}]
  /\ body \in [Requests -> Intent \cup {None}]
  /\ etag \in [Requests -> {EmptyDigest, None}]
  /\ loop \in Requests \cup {None}
  /\ load \in Load
  /\ active \in Nat
  /\ requests_total \in [Statuses -> Nat]
  /\ renders_total \in [Labels -> Nat]
  /\ restarts \in 0 .. MaxRestarts

\* The metrics tell the truth whatever was raised, awaited or restarted: the
\* gauge counts the requests in flight, REQUESTS_TOTAL the answered ones by the
\* status they were answered with, RENDERS_TOTAL the renders by the series their
\* handler chose (middleware.dispatch and the handler of _render_endpoint).
CountersExact ==
  /\ active = Cardinality({r \in Requests : pc[r] \in InFlight})
  /\ \A s \in Statuses :
       requests_total[s] = Cardinality({r \in Requests : pc[r] = "done" /\ status[r] = s})
  /\ \A l \in Labels :
       renders_total[l] =
         Cardinality({r \in Requests : pc[r] \in {"returned", "done"} /\ label[r] = l})

\* However Netbox changed while it was being read, a body is rendered only from
\* an intent a host can boot with (load_host_intent's final HostIntent(...)).
RenderedIsBootable ==
  \A r \in Requests : body[r] # None => Bootable(body[r])

\* A load that Netbox did not change under tells exactly what Netbox holds: a
\* body has Netbox's role and addresses, and a host that Netbox describes
\* completely is refused only when a query failed or its template is broken.
QuietLoadExact ==
  [][\A r \in Requests :
       /\ loop = r /\ pc'[r] = "returned" /\ kind[r] \in RenderKinds /\ ~load.dirty
       => /\ status'[r] = 200 =>
               /\ IntentAddresses(body'[r]) = NetboxAddresses(nb)
               /\ body'[r].role = nb.slug
               /\ Renderable(nb)
          /\ Renderable(nb) =>
               \/ status'[r] \in {200, 502}
               \/ label'[r] = <<nb.slug, "template_error">>]_vars

\* A handler holds the event loop alone, exactly while it handles.
OneHandler == \A r \in Requests : pc[r] = "handling" <=> loop = r

-----------------------------------------------------------------------------
(***************************************************************************)
(* What the repository says of the service and the code does not do.       *)
(***************************************************************************)

\* routes.healthz: a failing Netbox fails readiness, not liveness.
LivenessIndependentOfNetbox ==
  \A r \in Requests : pc[r] = "dispatched" /\ kind[r] = "healthz"
                        ~> pc[r] \in {"done", "gone"}

\* middleware: the ETag is the SHA-256 of the body, so two responses with one
\* ETag have one body.
EtagIdentifiesBody ==
  \A q, r \in Requests : etag[q] # None /\ etag[q] = etag[r] => body[q] = body[r]
=============================================================================
