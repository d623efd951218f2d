--------------------------------- MODULE Lab ---------------------------------
(***************************************************************************)
(* The lab: the justfile's recipes, run one at a time from the operator's  *)
(* machine, on one Droplet in the cloud, with the image preparation of     *)
(* ImagePrep and the VM of an e2e test session on it.                      *)
(*                                                                         *)
(* `lab' runs lab-up, lab-image and lab-test and, through its trap on      *)
(* EXIT, INT and TERM, lab-down.  The operator may also run each recipe,   *)
(* and prepare_image by hand on the Droplet, in any order; Ctrl-C, TERM    *)
(* and SIGKILL may hit at any step.  The operator's checkout has no image  *)
(* of its own, and no command starts while a preparation that outlived its *)
(* ssh connection is still running on the Droplet.                         *)
(***************************************************************************)
EXTENDS ImagePrep, Sequences

CONSTANTS
  MaxJobs,   \* bound on the commands the operator runs
  MaxFaults  \* bound on interrupts, kills, deaths and VMs that cannot be killed

ASSUME LabAssumption == MaxJobs \in Nat /\ MaxFaults \in Nat

VARIABLES
  droplet,   \* "none", "new" (created, not yet active) or "active"
  inventory, \* whether infra/ansible/inventory/lab is there (_lab_ip is not empty)
  code,      \* whether the Droplet has src/, fixtures/ and the virtualenv
  vm,        \* the QEMU that holds the session's SSH port: who launched it, on what
  job,       \* the operator's command
  last,      \* how the last command ended
  jobs,      \* commands started
  faults,    \* faults so far
  tested     \* what the last test session saw on its SSH port

onDroplet == <<files, tool, keyFile, prep, code, vm>>
labVars   == <<mirror, onDroplet, droplet, inventory, job, last, jobs, faults, tested>>

Recipes == {"lab-up", "lab-image", "lab-test", "lab-down", "hand"}
Kinds   == Recipes \cup {"lab"}

FirstStep == [r \in Recipes |->
  CASE r = "lab-up"    -> "create"
    [] r = "lab-image" -> "push"
    [] r = "lab-test"  -> "guard"
    [] r = "lab-down"  -> "delete"
    [] r = "hand"      -> "hand"]

DownSteps == {"delete", "forget", "verify"}
TestSteps == {"launch", "testing", "shutdown", "kill"}
Steps     == {"create", "wait", "inventory", "deploy", "tools", "push", "prepare", "hand",
              "preparing", "guard"} \cup TestSteps \cup DownSteps

NoVm == [by |-> 0, image |-> NoFile]

\* todo: the recipes after the one that runs.  traps: lab-downs the trap has
\* still to run, the one that runs included.  term: a TERM waits for the recipe.
NoJob == [kind |-> "none", todo |-> <<>>, at |-> "-", traps |-> 0, term |-> FALSE]

LabInit ==
  /\ ImageInit
  /\ droplet = "none" /\ inventory = FALSE /\ code = FALSE /\ vm = NoVm
  /\ job = NoJob /\ last = [kind |-> "none", how |-> "none", down |-> "none"]
  /\ jobs = 0 /\ faults = 0
  /\ tested = [kind |-> "none", by |-> "nobody", login |-> FALSE]

-----------------------------------------------------------------------------
(***************************************************************************)
(* Commands: how a recipe starts, ends and is torn down.                   *)
(***************************************************************************)

StepTo(at)  == job' = [job EXCEPT !.at = at] /\ UNCHANGED last
Begin(todo) == [job EXCEPT !.todo = Tail(todo), !.at = FirstStep[Head(todo)], !.traps = 0]
EndJob(how, down) ==
  job' = NoJob /\ last' = [kind |-> job.kind, how |-> how, down |-> down]

\* The trap's `just lab-down', n times; then the script goes on with todo.
\* Faulty variant: a signal during the trap adds to what is pending.
RunTrap_Nested(todo, n) ==
  /\ job' = [job EXCEPT !.todo = todo, !.at = "delete", !.traps = @ + n, !.term = FALSE]
  /\ UNCHANGED last
RunTrap(todo, n) ==
  /\ job' = [job EXCEPT !.todo = todo, !.at = "delete", !.traps = n, !.term = FALSE]
  /\ UNCHANGED last

How(ok) == IF ok THEN "ok" ELSE "failed"

\* A recipe other than lab-down is over.  A TERM that came meanwhile is taken
\* now, and the script then goes on; set -e ends it at a failure; at its end the
\* EXIT trap runs.  Faulty variant: the trap is on INT and TERM only.
Leave_SignalsOnly(ok) ==
  LET rest == IF ok THEN job.todo ELSE <<>> IN
  IF job.term THEN RunTrap(rest, 2)
  ELSE IF rest # <<>> THEN job' = Begin(rest) /\ UNCHANGED last
  ELSE EndJob(How(ok), "none")
Leave(ok) ==
  LET rest == IF ok THEN job.todo ELSE <<>> IN
  IF job.term THEN RunTrap(rest, 2)
  ELSE IF rest # <<>> THEN job' = Begin(rest) /\ UNCHANGED last
  ELSE IF job.kind = "lab" THEN RunTrap(<<>>, 1)
  ELSE EndJob(How(ok), "none")

\* A lab-down is over: of its own, the EXIT trap's, or that of INT and TERM.
DownEnds(ok) ==
  IF job.kind = "lab-down" \/ job.traps = 1 THEN EndJob(How(ok), How(ok))
  ELSE IF ok /\ job.todo # <<>> THEN job' = Begin(job.todo) /\ UNCHANGED last
  ELSE RunTrap(<<>>, 1)

StartJob(kind) ==
  LET todo == IF kind = "lab" THEN <<"lab-up", "lab-image", "lab-test">> ELSE <<kind>> IN
  /\ job.kind = "none" /\ prep.pc = "idle" /\ jobs < MaxJobs
  /\ job' = [Begin(todo) EXCEPT !.kind = kind] /\ jobs' = jobs + 1
  /\ UNCHANGED <<mirror, onDroplet, droplet, inventory, last, faults, tested>>

\* A command of a step failed or timed out.
Failing == Steps \ {"preparing", "testing", "shutdown", "kill"}

StepFails ==
  /\ job.at \in Failing
  /\ IF job.at \in DownSteps THEN DownEnds(FALSE) ELSE Leave(FALSE)
  /\ UNCHANGED <<mirror, onDroplet, droplet, inventory, jobs, faults, tested>>

-----------------------------------------------------------------------------
(***************************************************************************)
(* lab-up: provision.yml, deploy-lab.yml.                                  *)
(***************************************************************************)

\* unique_name: a Droplet of that name is taken as it is.
CreateDroplet ==
  /\ job.at = "create"
  /\ \/ droplet = "none" /\ droplet' = "new" /\ StepTo("wait")
     \/ droplet # "none" /\ UNCHANGED droplet /\ StepTo("inventory")
  /\ UNCHANGED <<mirror, onDroplet, inventory, jobs, faults, tested>>

DropletActive ==
  /\ job.at = "wait" /\ droplet = "active" /\ StepTo("inventory")
  /\ UNCHANGED <<mirror, onDroplet, droplet, inventory, jobs, faults, tested>>

\* Only an active Droplet has an address.
WriteInventory ==
  /\ job.at = "inventory" /\ droplet = "active" /\ inventory' = TRUE /\ StepTo("deploy")
  /\ UNCHANGED <<mirror, onDroplet, droplet, jobs, faults, tested>>

\* The renderer role: fixtures/ is synchronized with delete, which takes
\* fixtures/vms/images along.  Faulty variant: images is excluded.
SyncFixtures_KeepImages == UNCHANGED files
SyncFixtures            == out' = NoFile /\ tmp' = NoFile

Deploy ==
  /\ job.at = "deploy" /\ droplet = "active" /\ SyncFixtures /\ code' = TRUE /\ StepTo("tools")
  /\ UNCHANGED <<mirror, tool, keyFile, prep, vm, droplet, inventory, jobs, faults, tested>>

\* The qemu-host role, then the Netbox fixtures (Populate).
InstallTools ==
  /\ job.at = "tools" /\ droplet = "active" /\ tool' = TRUE /\ Leave(TRUE)
  /\ UNCHANGED <<mirror, files, keyFile, prep, code, vm, droplet, inventory, jobs, faults,
                 tested>>

-----------------------------------------------------------------------------
(***************************************************************************)
(* lab-image, and prepare_image by hand.                                   *)
(***************************************************************************)

PushTests ==
  /\ job.at = "push" /\ inventory /\ droplet = "active"
  /\ keyFile' = TRUE /\ StepTo("prepare")
  /\ UNCHANGED <<mirror, files, tool, prep, code, vm, droplet, inventory, jobs, faults, tested>>

RunPrepareImage ==
  /\ job.at \in {"prepare", "hand"} /\ droplet = "active" /\ code
  /\ \E customize, force \in BOOLEAN :
       /\ job.at = "prepare" => customize /\ ~force
       /\ Prepare(customize, force)
  /\ StepTo("preparing")
  /\ UNCHANGED <<code, vm, droplet, inventory, jobs, faults, tested>>

ImageDone ==
  /\ job.at = "preparing" /\ prep.pc = "idle" /\ Leave(prep.result = "ready")
  /\ UNCHANGED <<mirror, onDroplet, droplet, inventory, jobs, faults, tested>>

-----------------------------------------------------------------------------
(***************************************************************************)
(* lab-test: the guard, and a test module's VM fixture.                    *)
(***************************************************************************)

GuardImage ==
  /\ job.at = "guard" /\ inventory /\ droplet = "active"
  /\ keyFile' = TRUE
  /\ IF out.is THEN StepTo("launch") ELSE Leave(FALSE)
  /\ UNCHANGED <<mirror, files, tool, prep, code, vm, droplet, inventory, jobs, faults, tested>>

\* e2e_skip_reason: with a prerequisite absent all is skipped, and pytest exits 0.
SkipTests ==
  /\ job.at = "launch" /\ Leave(TRUE)
  /\ UNCHANGED <<mirror, onDroplet, droplet, inventory, jobs, faults, tested>>

\* launch_host: the base image is opened with snapshot=on.  QEMU exits at once
\* if it cannot bind the SSH port, or for reasons of its own; Popen does not tell.
LaunchHost ==
  /\ job.at = "launch" /\ droplet = "active" /\ code /\ StepTo("testing")
  /\ \/ vm.by = 0 /\ vm' = [by |-> jobs, image |-> out]
     \/ UNCHANGED vm
  /\ UNCHANGED <<mirror, files, tool, keyFile, prep, code, droplet, inventory, jobs, faults,
                 tested>>

Answers == CASE vm.by = 0 -> "nobody" [] vm.by = jobs -> "own" [] OTHER -> "other"

\* Whoever holds the port answers; a torn image may or may not get that far.
RunTests ==
  /\ job.at = "testing" /\ StepTo("shutdown")
  /\ \E login \in {vm.image.keyed} \cup IF vm.image.data = "torn" THEN {FALSE} ELSE {} :
       tested' = [kind |-> job.kind, by |-> Answers, login |-> login]
  /\ UNCHANGED <<mirror, onDroplet, droplet, inventory, jobs, faults>>

Verdict == \E ok \in {FALSE, tested.login} : Leave(ok)
LeaveVm(after) ==
  vm' = after /\ Verdict
    /\ UNCHANGED <<mirror, files, tool, keyFile, prep, code, droplet, inventory, jobs, tested>>

\* VMHandle.shutdown: terminate() and wait(): the process was dead already, or
\* the guest powers off ...
WasDead   == job.at = "shutdown" /\ vm.by # jobs /\ LeaveVm(vm) /\ UNCHANGED faults
PowersOff == job.at = "shutdown" /\ vm.by = jobs /\ LeaveVm(NoVm) /\ UNCHANGED faults

\* ... or the time is over.  Faulty variant: that is only logged.
ShutdownTimesOut_LogOnly ==
  job.at = "shutdown" /\ vm.by = jobs /\ LeaveVm(vm) /\ UNCHANGED faults
ShutdownTimesOut ==
  /\ job.at = "shutdown" /\ vm.by = jobs /\ StepTo("kill")
  /\ UNCHANGED <<mirror, onDroplet, droplet, inventory, jobs, faults, tested>>

\* VMHandle.destroy: kill() and wait(5), whose TimeoutExpired nobody catches.
Destroy ==
  /\ job.at = "kill"
  /\ \/ LeaveVm(NoVm) /\ UNCHANGED faults
     \/ /\ faults < MaxFaults /\ faults' = faults + 1 /\ Leave(FALSE)
        /\ UNCHANGED <<mirror, onDroplet, droplet, inventory, jobs, tested>>

-----------------------------------------------------------------------------
(***************************************************************************)
(* lab-down: destroy.yml.                                                  *)
(***************************************************************************)

\* With the Droplet goes all that is on it; but the cloud may accept the call
\* and keep the Droplet.
DeleteDroplet ==
  /\ job.at = "delete" /\ StepTo("forget")
  /\ \/ /\ droplet' = "none"
        /\ out' = NoFile /\ tmp' = NoFile /\ tool' = FALSE /\ keyFile' = FALSE
        /\ prep' = NoRun /\ code' = FALSE /\ vm' = NoVm
     \/ UNCHANGED <<droplet, onDroplet>>
  /\ UNCHANGED <<mirror, inventory, jobs, faults, tested>>

RemoveInventory ==
  /\ job.at = "forget" /\ inventory' = FALSE /\ StepTo("verify")
  /\ UNCHANGED <<mirror, onDroplet, droplet, jobs, faults, tested>>

\* The API is asked for residual Droplets.
AssertNoResidual ==
  /\ job.at = "verify" /\ DownEnds(droplet = "none")
  /\ UNCHANGED <<mirror, onDroplet, droplet, inventory, jobs, faults, tested>>

-----------------------------------------------------------------------------
(***************************************************************************)
(* Faults, and what happens by itself.                                     *)
(***************************************************************************)

\* What runs on the Droplet may outlive the ssh that started it: a preparation
\* goes on, a session's VM is shut down by pytest or is left.
Disconnect ==
  /\ job.kind # "none" /\ faults < MaxFaults /\ faults' = faults + 1
  /\ vm' \in {vm, IF job.at \in TestSteps /\ vm.by = jobs THEN NoVm ELSE vm}
  /\ UNCHANGED <<mirror, files, tool, keyFile, prep, code, droplet, inventory, jobs, tested>>

\* Ctrl-C: the recipe dies; bash runs the trap for INT and, the recipe having
\* failed, for EXIT.  One that hits the EXIT trap repeats it or ends the script.
Interrupt ==
  /\ Disconnect
  /\ \/ job.kind = "lab" /\ RunTrap(<<>>, IF job.traps = 1 THEN 1 ELSE 2)
     \/ job.kind = "lab" /\ job.traps = 1 /\ EndJob("failed", "failed")
     \/ job.kind # "lab" /\ EndJob("failed", IF job.kind = "lab-down" THEN "failed" ELSE "none")

\* TERM: bash takes it once the recipe is over.
Terminate ==
  /\ job.kind = "lab" /\ job.traps = 0 /\ ~job.term
  /\ faults < MaxFaults /\ faults' = faults + 1
  /\ job' = [job EXCEPT !.term = TRUE]
  /\ UNCHANGED <<mirror, onDroplet, droplet, inventory, last, jobs, tested>>

\* SIGKILL, or the operator's machine: no trap.
Killed == Disconnect /\ EndJob("killed", "none")

\* prepare_image dies on the Droplet.
PrepareDies ==
  /\ Die /\ faults < MaxFaults /\ faults' = faults + 1
  /\ UNCHANGED <<code, vm, droplet, inventory, job, last, jobs, tested>>

DropletBoots ==
  /\ droplet = "new" /\ droplet' = "active"
  /\ UNCHANGED <<mirror, onDroplet, inventory, job, last, jobs, faults, tested>>

Preparing  ==
  PrepStep /\ UNCHANGED <<code, vm, droplet, inventory, job, last, jobs, faults, tested>>
Publishing == NewRelease
                /\ UNCHANGED <<code, vm, droplet, inventory, job, last, jobs, faults, tested>>

JobStep ==
  \/ CreateDroplet \/ DropletActive \/ WriteInventory \/ Deploy \/ InstallTools
  \/ PushTests \/ RunPrepareImage \/ ImageDone
  \/ GuardImage \/ SkipTests \/ LaunchHost \/ RunTests
  \/ WasDead \/ ShutdownTimesOut \/ Destroy
  \/ DeleteDroplet \/ RemoveInventory \/ AssertNoResidual \/ StepFails

LabNext ==
  \/ \E kind \in Kinds : StartJob(kind)
  \/ JobStep \/ PowersOff \/ Preparing
  \/ Interrupt \/ Terminate \/ Killed \/ PrepareDies
  \/ DropletBoots \/ Publishing

\* No fairness: the ssh sessions, virt-customize and `cloud-init status --wait' have
\* no timeout, so nothing makes a command end.
LabSpec == LabInit /\ [][LabNext]_labVars

-----------------------------------------------------------------------------
LabTypeOK ==
  /\ ImageTypeOK
  /\ droplet \in {"none", "new", "active"} /\ inventory \in BOOLEAN /\ code \in BOOLEAN
  /\ vm \in [by : 0 .. MaxJobs, image : FileSet]
  /\ job.kind \in Kinds \cup {"none"} /\ job.at \in Steps \cup {"-"}
  /\ job.traps \in 0 .. 2 /\ job.term \in BOOLEAN
  /\ job.todo \in {<<>>, <<"lab-test">>, <<"lab-image", "lab-test">>}
  /\ last \in [kind : Kinds \cup {"none"}, how : {"none", "ok", "failed", "killed"},
               down : {"none", "ok", "failed"}]
  /\ jobs \in 0 .. MaxJobs /\ faults \in 0 .. MaxFaults
  /\ tested \in [kind : Kinds \cup {"none"}, by : {"nobody", "own", "other"}, login : BOOLEAN]

\* `just lab' sequences its recipes correctly: when its session's own VM is the
\* one that answers, the tests can log in, whatever image an earlier command, a
\* crash in prepare_image or a run without --prepare had left on the Droplet.
LabTestsConnect == tested.kind = "lab" /\ tested.by = "own" => tested.login

\* After `just lab' or `just lab-down', whatever failed on the way and whatever
\* signal but SIGKILL came, the Droplet and the inventory are gone, or a failed
\* lab-down has said so.
NoResidual ==
  /\ job.kind = "none" /\ last.kind \in {"lab", "lab-down"}
  /\ last.how # "killed" /\ last.down # "failed"
  => droplet = "none" /\ ~inventory

\* A session that gets a VM it did not launch comes after a fault: shutdown and
\* destroy leave none behind.
TestsOwnVm == tested.by = "other" => faults > 0
=============================================================================
