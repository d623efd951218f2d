# host-config: a TLA+ verification project

host-config renders the cloud-init seed of a bare-metal host (meta-data,
user-data, network-config) from what Netbox says of the host, and serves it
through an nginx cache to hosts that boot. This directory holds TLA+ models of
the parts of it that carry state or decide something, the TLC configurations
that check them, and TLAPS proofs. Paths below are relative to the repository.

## 1. Inventory

| Component | State it keeps | Operations | Interacts with | Hard because |
|---|---|---|---|---|
| Host intent models (`src/host_config/models`) | none | field bounds, eleven cross-field validators | constructed by the loader | boundaries; are eleven separate checks together strong enough? |
| Netbox loader (`netbox/loader.py`) | local variables of one load | one device query, one interface query, one address query per interface | queries Netbox, raises typed errors to the route | no transaction: Netbox may change or fail between any two queries |
| Render service (`service/`, `observability/metrics.py`) | requests in flight, event loop, gauges and counters | middleware before and after the handler, three render routes, healthz, readyz, metrics | calls the loader and the emitter; called by nginx | coroutines that block the loop; exceptions nobody typed; metrics kept across all of it |
| Seed cache (`infra/ansible/roles/nginx-cache`) | one entry per URL, its expiry, the updating flag and its lock | hit, miss, wait, refresh, stale, X-Purge, eviction | fetches from the service; flushed by `just lab-refresh` | answers overtake each other; locks time out; failures during a refresh |
| Custom-field schema (`netbox/schema.py`) | Netbox's custom fields, a report | GET, POST, GET again and PATCH for each field | Netbox, other operators | a run dies anywhere; runs overlap; replies are lost |
| Fixture population (`fixtures/netbox/populate.py`) | Netbox objects, a report | create-if-absent in four passes | Netbox, read by the loader meanwhile | crash between passes, reruns, conflicts |
| Template emitter (`render/`) | none | canonical order, render | called by the route | Netbox lists interfaces in any order; the output is not to show it |
| VM image preparation (`fixtures/vms/prepare_image.py`) | the image and its `.tmp` | fetch sums, download, verify, rename, customize (with a fallback) | `just lab-image`, or by hand | a mirror that moves between two downloads; truncated bodies; a death at any step |
| VM launcher (`fixtures/vms/launch.py`) | one process handle, the SSH port its QEMU holds | launch, shutdown, destroy | e2e tests | escalation from SIGTERM to SIGKILL; a VM left behind answers for the next one |
| Lab lifecycle (`justfile`, playbooks) | a Droplet, its inventory, what is on the Droplet | lab, lab-up, lab-image, lab-test, lab-refresh, lab-down | all of the above | teardown on every path; what one command leaves for the next |
| H200 validator (`scripts/validate_h200_host.py`) | none | twelve checks, one exit code | reads a host booted from a rendered seed | is the verdict about the network the intent describes, also while cloud-init is still at work? |
| Logging, the other Ansible roles | none | formatting; declarative | | |

What makes each of them correct:

* loader and models: what is served is bootable however Netbox moved while it was
  read; a load that was left alone says exactly what Netbox says;
* service: the metrics equal what they claim to count; a dead Netbox fails readiness
  and not liveness; ETags identify bodies;
* cache: the age of a seed is bounded; one fetch fills an entry at a time; everybody is
  answered in time; no failed refresh pins a stale entry; a refresh takes effect;
* schema: a report is true of what the run leaves behind; a field is created once;
  what only the operator may change is left to him;
* populate: a rerun completes whatever a crash left; no partial host is ever served;
* emitter: the bytes are a function of the intent, not of the order it was listed in;
* validator: it says OK exactly on a host that has the network Netbox meant;
* image: what is in place was verified, and says ready only with the key the tests need;
* lab: nothing that costs money is left behind unsaid; a test session talks to
  its own VM and can log in.

`PROJECT.json` lists the hazards behind these, each at its source line.

## 2. Modules

**HostIntent** (operators only). What Netbox can hold for one asset tag, the
loader's builders, the validators, and two definitions written from what a host
needs rather than from the code: `Bootable` (of an intent) and `Renderable` (of
Netbox's data: the device is `Wired`, every interface that carries an address is
`Configured`, and together they are `Consistent`). A builder that can raise is two operators, the class of its
exception and its value. An interface name is a member of the set whose naming
convention it follows, an address is a number in a /24, a MAC is whether there is
a primary one. `Untyped` stands for `pydantic.ValidationError` and `ValueError`.

**RenderService** (extends HostIntent). One uvicorn process. A request is `new`,
`dispatched` (middleware up to `await call_next`), `handling`, `returned`, `done`
(the middleware's `finally` has run), or `gone` with a restarted process. `loop` is
the request whose handler holds the event loop: the handlers are coroutines that
call pynetbox synchronously, so a handler yields to nobody between its first query
and its return. `load` is the local state of `load_host_intent`. One action per
query (`FetchDevice`, `FetchInterfaces`, `FetchAddress`, `QueryStatus`, or
`QueryFails` for any of them), `ValidateAndRender` for `HostIntent(...)` and
`render_for`, `NetboxEdit` for the other users of Netbox, `Restart` for systemd. The
`dirty` field of `load` is a history variable: Netbox was edited during this load.
One asset tag is modelled; requests for other hosts share only the loop and the
counters, which are there.

**SeedCache**. One key of the `/v1/` location. nginx is external, so its behaviour is
what the directives of `nginx.conf.j2` select: `proxy_cache_valid` (`Hit`,
`ValidUntil`), `proxy_cache_use_stale` (`Updating`, `UpstreamFails`),
`proxy_cache_lock` (`Miss`, `Wait`, `LockReleased`, `LockTimesOut`),
`proxy_cache_bypass` (`Arrive` with `purge`), `inactive` and `max_size` (`Evict`). A
refresh that fails is answered from the expired file, unless its answer had begun to
reach the client, which then gets a part of it. A
fetch has two ends, `Render` (the renderer computes the answer) and `Complete` (nginx
has it), because between them another fetch can overtake it. `LabRestart` and
`LabFlush` are the two ssh calls of `just lab-refresh`. `lastTrue`, `floor` and the
answers kept in `req` are history variables. One assumption is made of the world:
when the flush runs, nginx has read whatever the old renderer process had already
answered (uvicorn completes its responses before it exits, and another ssh
connection is set up in between).

**SeedServer** is the abstract specification of the cache: a client asks, is promised an
answer by some time, and is told what the renderer says at an instant of its waiting, or
a seed that was true within `Staleness`, or, if its own question failed or another is
under way, an older one or a failure. There is no entry, lock, or flag in it. SeedCache
instantiates it as `Server`, with `Staleness <- TTL + FetchMax` and
`Patience <- LockTimeout + FetchMax`; a request maps to a client by `ClientState`
(waiting for the lock and fetching are both `asked`, a fetch the renderer has answered is
`decided`) and `Due`. `ImplementsSeedServer` is `Server!Spec`, liveness included.

**SchemaApply**. `apply_schema` one HTTP request at a time: `FetchExisting`, `Create`,
`RefetchRecord` and `Patch` (the two halves of `_patch`), each of which may fail before
it takes effect (`RequestFails`) or lose its reply after it has (`ReplyLost`). A custom
field is whether it exists, which attributes differ from the specification, and its
id. pynetbox sends no PATCH when the record fetched second shows no difference. Netbox's own rules (unique names, immutable types) are external.

**Populate** (extends RenderService). `populate` for one fixture. What it ensures is a
set of things `<<kind, key>>`; `Plan` is every call that `_apply_one` and its four passes
may make, in their order, and `Applies` whether a call finds something to ensure (an
interface has a parent, a MAC address, an address); `have` what is in Netbox, `foreign` the keys that another object
has. Each thing is skipped, refused (`Conflict`) or created, and a run may die before or
after its request took effect. `View` is what the loader can see of `have`, and it is
RenderService's `nb`: the module composes population with a render in progress.
`Fixture` is the host as the POSTs describe it: an untagged VLAN that the file does not
list among its VLANs is dropped by `populate.py:441` without a word, and is not in it. A
lookup and the POST after it are one step, since nobody else writes the host.

**Emitter** (extends HostIntent, operators only). `Listings(h)` are the intents the loader
may have built for the set-valued `h`: VLANs in any order, as Netbox lists them, the NICs
in the order of `NS_NIC_NAMES` and the underlays sorted by name, as `loader.py` leaves them.
`sorted` is Python's stable sort, `by_name`, `by_vlan_id` and `by_text` its uses in
`canonicalize` (`_canonicalize`), `Iterated` the lists a role's template loops over, and
`render_for` what of them reaches the bytes.

**HostValidator** (extends HostIntent, operators only). The script reads and reports, so
it is a function of the host, and the host (external) is left open. `Networks(h)` is what
may have come of the gpu-h200 Netplan file: any set of stanzas is in effect, and the others
have no link, or one without a carrier (a rail without a subnet manager), or one that is up
and unconfigured, which is what `network-config.j2:16-20` says of real IPoIB ports, whose
address the match by MAC does not meet. Two facts of the kernel are kept: a VLAN that is up
is on a bond that is, and of VLANs with one id it makes one. `Surroundings` are the rest: the
driver stack, from apt or DOCA-OFED, the provisioning route, the commands that work,
cloud-init's status. `Found` is what the script's commands then report. The twelve checks,
`run_all` and `exit_code` are the script's. `Networked` and `AsConfigured` are written from
what a host needs and from the script's `Config`.

**Served** (extends RenderService, Emitter, HostValidator) composes them: every intent the
service hands out, while Netbox is edited under it, is put through every listing order
and onto every host.

**ImagePrep**. `prepare` statement by statement: `Prepare` (the early return), `FetchSums`,
`OpenTmp`, `EndCopy` (which may stop short without an error), `VerifyDigest`, `Rename`,
`VirtCustomize` (twice: the second call leaves out `--install`), `DownloadFails`, and
`Die`. A file is the release it came from, whether it is whole, and whether it has the
tests' key; the mirror may publish another release between the sums and the image.

**Lab** (extends ImagePrep). The recipes as sequences of steps from the operator's
machine, with the Droplet, the inventory, the code and tools on the Droplet, and the VM
that holds the test session's SSH port. `lab` is lab-up, lab-image and lab-test with the
trap on EXIT, INT and TERM; `job.traps` counts the lab-downs that trap has still to run
and `job.term` is a TERM that bash takes when the recipe it waits for is over. Any step
may fail (`StepFails`); `Interrupt`, `Terminate`, `Killed` and `PrepareDies` are the
faults. `DeleteDroplet` may be accepted by the cloud without effect. Two assumptions are
made of the operator: his checkout has no image of its own (deployment would copy it),
and he starts no command while a preparation that outlived its ssh connection still runs.

The theorems are in **RenderServiceProofs**, **LoaderProofs** (extends it),
**PopulateProofs**, **SeedCacheProofs**, **SchemaApplyProofs**, **LabProofs**,
**EmitterProofs** and **ServedProofs** (section 4). **MCRenderService**, **MCServed**,
**MCSeedCache**, **MCSchemaApply**, **MCPopulate** and **MCLab** define the instances for TLC.

Operators with a suffix (`DecActive_NotInFinally`, ...) are faulty variants of the
operator that follows them; each names a plausible mistake that the property it is
paired with in `PROJECT.json` must detect.

## 3. Runs

| Run | Checks | Bounds |
|---|---|---|
| `load_race` | `TypeOK`, `RenderedIsBootable`, `QuietLoadExact`, `RenderDeterministic`, `ServedHostValidates` | one render of a cpu, a B300 or one of two H200 hosts, two NICs per fabric, two edits out of twenty-five at any moment; every order the loader can build; every outcome of every stanza in all surroundings |
| `service` | `CountersExact` | three requests of three kinds, one edit that makes the loader raise an untyped exception, one restart |
| `seed_cache` | `TypeOK`, `FreshAnswers`, `OneFillAtATime`, `RefreshTakesEffect` | three requests, two versions, four ticks |
| `seed_live` | `UpdatingReleased`, `ImplementsSeedServer` | two requests, two versions, four ticks, the last request by the third |
| `schema_apply` | `TypeOK`, `QuietApplyMatches`, `CreatedOnce` | two fields, two callers, three runs, two edits |
| `populate` | `PopulateTypeOK`, `NoPartialIntent`, `PopulateCompletes`, `PopulateConverges` | one B300 host, one render, two crashes, five sets of conflicts |
| `lab` | `LabTypeOK`, `VerifiedImage`, `PreparedHasKey`, `LabTestsConnect`, `NoResidual`, `TestsOwnVm` | three commands of six kinds, two releases, two faults |
| `netbox_hangs` | `LivenessIndependentOfNetbox` violated | two requests |
| `etag` | `EtagIdentifiesBody` violated | two requests, one edit |
| `purge_race` | `PurgeSticks` violated | three requests |
| `schema_stale` | `UnrecoverableLeftAlone` violated | one run, one edit |
| `render_order` | `BytesIgnoreListingOrder` violated | one render, one edit |

Why the bounds are enough. A load reads each thing once, so two edits suffice to
put any two of its reads on different sides of two changes; the edits are chosen so
that each check of the loader and each validator decides at least once, on both
sides of its boundary. Two NICs per fabric stand for eight, and a third may appear: the
code counts and sorts them (the proof needs no such bound). The `service` and violation
runs, which are about requests and not about hosts, use one host. Three cache requests are a holder, a competitor
and an observer; TTL 1 with a fetch of up to 2 ticks lets a fetch outlive the entry it
refreshes, and a lock its age. Two fields are one that is past and one that is
current; two callers race for both. Three lab commands are one that
leaves something behind, one that meets it and one that observes the result; two faults
are a signal and a second one during the teardown it started; two releases suffice for
the sums and the image to be of different ones. `SomeoneWaits` in MCSeedCache stops exploring when
every request has been answered: such states are still checked, and nothing after
them is observed by a request. Symmetry is used in `seed_cache` only, which checks no
liveness. Deadlock is checked in `populate` only: elsewhere requests, runs and time are bounded,
and every instance ends by running out of them.

Fairness. In RenderService `LoopFairness`: asyncio runs every ready task, so what a request
can do on a free loop happens. Nothing is asked of Netbox: the pynetbox client has no
timeout, and `netbox_hangs` shows what follows. In SeedCache
time passes and nginx ends every fetch (its proxy timeouts) and every wait for a lock;
the renderer is under no obligation. In Populate the operator reruns what died and in the
end removes what was in the way (strong fairness, as he may rerun first and meet the
conflict again); the render is under no obligation. SchemaApply and Lab state no
fairness and check safety: ssh, pytest, `cloud-init status --wait` and virt-customize
have no timeout in this code, so that a lab command ends is nothing the code ensures.

### What the code does and the repository says otherwise

* A Netbox that accepts a connection and never answers stops `healthz`
  (`service/routes.py:147` promises it would not).
* Every render carries the same ETag: the middleware hashes the `body` of a response
  that has none after `call_next` (`service/middleware.py:101`).
* A fetch already under way undoes an `X-Purge` (`nginx.conf.j2:15-22`, the role's
  README).
* `_patch` fetches the record again after its drift was judged, so an `object_types` that
  somebody edits in between is overwritten (`netbox/schema.py:360` leaves it to the
  operator).
* Two VLAN children with one VLAN id pass every validator; VLANs are sorted by id, so the
  order Netbox listed the two in reaches the bytes (`emitter.py:11-15` and `:74` promise an
  order by name and bytes that hold regardless of upstream order).

Met on the way, without a run: values outside a model's bounds leave the loader as pydantic
errors, are answered with 500 and not counted, where `netbox/errors.py:3` says that every
exception of the package is one of its own; a `SchemaError` on a later field leaves the
earlier ones applied, where `schema.py:279` says that the apply does not partially
complete; a missing nsa or nsb is a
`NetboxQueryError` and not the `InvariantError` of `loader.py:111`; the `code` in the
422 envelope is always null (`app.py:114` reads an attribute `InvariantError` does not
have); `populate` lets transport errors through unwrapped where its docstring names
`NetboxQueryError` (`populate.py:236`), and skips an existing device or interface without
comparing its role, MTU or VLAN; the docstring of `to_payload` speaks of `choice_set`, the payload of `choices`.

When `prepare_image` dies between the rename (`prepare_image.py:200`) and the end of
virt-customize, the next `just lab-image` finds the image in place and says it is ready
without the key. `just lab` is not affected (`LabTestsConnect`), because its lab-up
synchronizes `fixtures/` with `delete` and so removes any prepared image; that is also why
`deploy-lab.yml:20-21` is not quite right to say that a second run is a no-op for every
task. Two preparations at once would share the `.tmp` (`prepare_image.py:188`), and
one may rename what the other is still writing: `VerifiedImage` is checked for one at a
time. The hint of the e2e `conftest.py:114` leaves out `--prepare`. A missing prerequisite
skips every e2e test, and `lab-test` succeeds. `VMHandle.destroy` lets `TimeoutExpired`
through (`launch.py:137`), and the VM is left: `TestsOwnVm` counts this as a fault.

The validator's default-route check says "via the mgmt VLAN" and does not look at the
device; OK nevertheless implies a route over management, since the VLAN check wants all
three up. Without a subnet manager the rails have no carrier, so `ipoib-rails` fails, while
the docstring (`validate_h200_host.py:32`, `:36-38`) lists a missing subnet manager as a
WARN; `VerdictExact` speaks of the links and not of what keeps them down. With the
placeholder match of `network-config.j2` left as it is, real IPoIB ports stay unconfigured
and the verdict is FAIL. Modules that are built into the kernel are not listed by `lsmod`,
and `ib-modules` fails on a host that has them. A failed `apt` in `runcmd` is reported by nobody but the checks that miss what it
should have brought.

## 4. Proofs

Every safety property of the passing runs is also proved, for every value of the
constants; what TLC adds is the liveness, and the evidence that the cases happen. No
proof uses fairness. Each inductive invariant was also checked with TLC, on the instance
of its run.

| Theorem | States | For every |
|---|---|---|
| RenderServiceProofs `TypeCorrect`, `MetricsExact`, `ServedIsBootable` | `[]TypeOK`, `[]CountersExact`, `[]RenderedIsBootable` | set of requests, names, addresses, hosts and edits, number of restarts |
| LoaderProofs `QuietLoadsAreExact` | `QuietLoadExact` | the same |
| EmitterProofs `BytesAreDetermined` | `OrderIndependent(h, kind)` exactly unless shown VLANs share an id | finite lists of uniquely named things |
| ServedProofs `RendersAreDeterministic`, `VerdictsAreExact` | `[]RenderDeterministic`, `[]ServedHostValidates` | the same as for the service; one to eight rails |
| PopulateProofs `PopulateTypeCorrect`, `HostIsComplete`, `OnlyWholeHosts` | `[]PopulateTypeOK`, `[]PopulateCompletes`, `[](Renderable(Fixture) => NoPartialIntent)` | fixture, order of its interfaces, objects in the way, number of crashes, requests |
| SeedCacheProofs `TypeCorrect`, `AnswersAreFresh`, `RefreshIsEffective`, `FillsAreCoalesced` | `[]TypeOK`, `FreshAnswers`, `[]RefreshTakesEffect`, `[]OneFillAtATime` | number of requests and versions, TTL, lock timeout, lock age and proxy timeout |
| SeedCacheProofs `RefinesSeedServer` | `Server!Safety`: `ImplementsSeedServer` without its fairness | the same |
| SchemaApplyProofs `TypeCorrect`, `FieldsCreatedOnce`, `ReportsAreTrue` | `[]TypeOK`, `[]CreatedOnce`, `[]QuietApplyMatches` | list of fields, initial Netbox, number of callers, runs and edits |
| LabProofs `TypeCorrect`, `ImageIsVerified`, `LabImageHasKey`, `NoVmIsLeft`, `NothingIsLeft`, `KeyIsInjected` | `[]LabTypeOK`, `[]VerifiedImage`, `[]LabTestsConnect`, `[]TestsOwnVm`, `[]NoResidual`, `PreparedHasKey` | number of commands, faults and releases |

The arguments.

**Render service.** `TypeOK` is not inductive: `active \in Nat` survives `Finish` only because
the gauge counts the request that leaves, which is `CountersExact`. `CountersExact` is not
inductive either: a handler that returns is counted for the first time only if its
request was `handling`, which is `OneHandler` (`loop = r` exactly while `r` handles). And
that a body is a typed intent needs `LoadInv`: what the local variables of a load hold in
each phase (a parsed role, interfaces that passed the builders' checks, typed children
built so far). `IInv` is the conjunction of the four; one lemma for each action, grouped by
how the handler leaves (`ReturnPreserves`, `ContinuePreserves`, `RaisePreserves`).
`ServedIsBootable` rests on `ValidatorsSuffice`, a lemma without state: an intent that
passes the eleven validators is `Bootable`.

**Loader.** Each check is proved to be exactly what it is for: `BuildExact` (an iteration
raises unless the interface is `Configured`), `StructureExact` (`Wired`), and
`ValidatorsExact`: of an intent that mirrors Netbox, the eleven validators hold exactly when
Netbox is `Consistent`, so they are not only strong enough but refuse nothing a host could
boot with. `QuietInv` says what a load that was left alone has read so far, and that no
load is under way while the loop is free: without that an edit at rest would leave a clean
load that disagrees with Netbox.

**Populate.** `PopInv`: the renderer's `nb` is `View(have, foreign)`, and everything the
running populate is past is in `have`. `ReadInv`: a load that meets it has read each
interface and address as the fixture has it, or not at all. Since the validators count,
an intent they accept then has all of them. This needs `Renderable(Fixture)`: populate
does not validate a fixture, and of one that describes no host nothing is promised. The
fixture of the run is renderable, and the invariant is checked there without the premise.

**Seed cache.** `IInv` bounds the ages: how long a fetch or a wait may have taken, how old
the entry's version is at its expiry, from which version on a request is owed an answer.
`RefreshTakesEffect` needs that an answer under way is at least the floor of its time,
which rests on the assumption stated with SeedCache. `OneFillAtATime` is about one key, one
seed of one host; the hosts of a rack ask for different ones and share no lock. A request
whose wait for the lock times out renders too, but may not store. For it `FillInv` names
what keeps others from a fetch that may fill the entry: the entry itself while it is valid,
the updating flag, or the lock until its age. The refinement is proved step by step: each
action of SeedCache is one of SeedServer under `ClientState` and `Due`, or leaves every
client as it is.

**Schema.** `CreatedOnce` is inductive with the types. `ReportsAreTrue` needs what an
undisturbed run knows between its second GET and its PATCH (`SeesDrift`): that the record it
fetched shows all the drift there is. Writing the proof corrected the model: with an empty
list of fields `apply_schema` returns without a request.

**Lab.** `IInv` relates the command to the Droplet: what is left of a command at each step
(`JobInv`), the files a preparation holds (`FileInv`), that a Droplet which is not active has
nothing on it, whose the VM is (`VmInv`), and what `just lab` has achieved by each of its
steps (`SequenceInv`), from which `LabTestsConnect` follows.

**Emitter.** A stable sort sends the positions of a list to places of their own
(`PlaceExact`: a strictly earlier position has strictly fewer before it, and an injection of a
finite set into itself is onto). With distinct keys a place is the rank of the element in
the set (`PlaceIsRank`), which no listing changes; with two equal keys the listing that has
them the other way round sorts to another list (`SortedTells`). What the loader has sorted
is again a listing (`SortedLists`). Names are distinct because
of `check_unique_names`; nothing makes VLAN ids distinct.

**Served.** Every body is `Accepted`: built by the loader and let through by the validators.
`VerdictIsExact` goes check by check, for every outcome of every stanza. A link with an
address is that of a stanza in effect (`AddressedLinks`); that three such VLANs are the
intent's three, and that the rails found by name are all the intent has, are counting
arguments (`VlansChecked`, `RailsCounted`). The proof corrected the model here too: the script's early
returns were overlapping guards of a CASE, where TLA+ leaves open which one decides; they
are IF ... ELSE now, in the script's order.

Assumptions: `ConstantsAssumption` (the name sets are disjoint, addresses are naturals and
finitely many), `ServiceAssumption` (finitely many requests, well-typed edits),
`NoneIsNoLabel`, `NameRankAssumption` (names are ordered), `RailsAssumption` (one to eight
rails, not named like VLANs), `PopulateAssumption` (the fixture is well typed and lists its
interfaces), `CacheAssumption`, `SchemaAssumption` (no field is listed twice, finitely many
callers), `LabAssumption`, `ReleaseAssumption`. TLC evaluates each in the runs of its module.

Only model-checked: liveness (`UpdatingReleased`, `PopulateConverges`, and that everyone is
answered in `ImplementsSeedServer`), which is out of the prover's reach. The five violations are counterexamples, found by TLC.

## 5. Plan

Done: HostIntent, RenderService, SeedCache and SeedServer, SchemaApply, Populate, Emitter,
HostValidator and Served, ImagePrep and Lab; their runs; the proofs of all their safety
properties and of the refinement.

1. **Populate**, second part: two populations at once (Netbox does not keep MAC addresses
   unique), and a fixture that changed since it was applied.
2. **ImagePrep** with two preparations at once, and what their shared `.tmp` allows.
3. Sharper bounds as theorems: how long an answer may take
   is already part of `Server!Safety` (`Due`); the same for the event loop, in handler steps.

### Not modelled

* The text of the templates: golden files cover it, and no state is involved.
* `build_cmdline` of the launcher and the helpers it calls: one argument list, a
  function of one host, with unit tests of its own.
* Logging, request ids and histograms; the formatting of reports, by the validator too.
* The declarative Ansible roles for Netbox, OVS and QEMU: convergence is Ansible's. Of
  deploy-lab the tasks that touch the image, the code and the tools are in Lab.
* The validator's checks see one state of the host; a host that changes between two
  checks of one run is not modelled.
* The Netbox token and URL are read once, when the process starts (`dependencies.py:56`): a
  token that is rotated afterwards is one more way for every query to fail (`QueryFails`).
