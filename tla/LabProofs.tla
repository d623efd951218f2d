------------------------------ MODULE LabProofs ------------------------------
(***************************************************************************)
(* Theorems about Lab and the image preparation it runs: for any number of *)
(* commands, of faults and of releases of the image.                       *)
(***************************************************************************)
EXTENDS Lab, TLAPS

(***************************************************************************)
(* The inductive invariant.                                                *)
(***************************************************************************)
Todos  == {<<>>, <<"lab-test">>, <<"lab-image", "lab-test">>}
JobSet == [kind : Kinds \cup {"none"}, todo : Todos, at : Steps \cup {"-"}, traps : 0 .. 2,
           term : BOOLEAN]

Runs == [pc : {"idle", "sums", "open", "copy", "verify", "rename", "customize", "retry"},
         customize : BOOLEAN, sum : 0 .. MaxRelease,
         result : {"none", "ready", "failed", "died"}]

\* Where a command is says what is left of it: only `lab' has more than one
\* recipe, a TERM to take and a trap to run.
JobInv ==
  /\ job \in JobSet
  /\ job.kind = "none" <=> job.at = "-"
  /\ job.kind # "lab" => job.todo = <<>> /\ ~job.term /\ job.traps = 0
  /\ job.kind = "lab-down" => job.at \in DownSteps
  /\ job.at \in DownSteps => job.kind = "lab-down" \/ (job.kind = "lab" /\ job.traps # 0)
  /\ job.at = "hand" => job.kind # "lab"
  /\ job.at \in {"push", "prepare", "hand", "preparing"} => job.todo # <<"lab-image", "lab-test">>
  /\ job.at \in {"guard"} \cup TestSteps => job.todo = <<>>

\* The files a preparation works on are there, and hold what it has checked.
FileInv ==
  /\ prep.pc \in {"copy", "verify", "rename"} => tmp.is
  /\ prep.pc = "rename" => tmp.data = "whole"
  /\ prep.pc \in {"customize", "retry"} => out.is /\ out.data = "whole"

\* A Droplet that is not active has nothing on it.
DropletInv ==
  droplet # "active" => /\ out = NoFile /\ tmp = NoFile /\ prep.pc = "idle" /\ vm = NoVm
                        /\ ~tool /\ ~keyFile /\ ~code

\* A preparation runs in its recipe, or has outlived it.
BusyInv ==
  prep.pc # "idle" => job.at \in {"preparing", "-"} \/ (job.at \in DownSteps /\ job.todo = <<>>)

\* Whose the VM is.
VmInv ==
  /\ vm.by <= jobs
  /\ job.todo # <<>> \/ job.at \in {"guard", "launch"} => vm.by < jobs
  /\ vm.by # 0 => faults > 0 \/ (vm.by = jobs /\ job.at \in {"testing", "shutdown", "kill"})

Good(file) == file.keyed /\ file.data = "whole"

\* What `just lab' has achieved by each of its steps: the deployment has removed
\* whatever image there was, and the preparation made a good one.
SequenceInv ==
  job.kind = "lab" =>
    /\ job.at \in {"tools", "push", "prepare"} => ~out.is
    /\ job.at = "push" => tool \/ ~inventory
    /\ job.at = "prepare" => tool /\ keyFile
    /\ job.at = "preparing" => /\ tool /\ keyFile /\ prep.customize
                               /\ prep.pc = "idle" /\ prep.result = "ready" => Good(out)
    /\ job.at = "guard" => (out.is => Good(out))
    /\ job.at = "launch" => Good(out)
    /\ job.at = "testing" => (vm.by = jobs => Good(vm.image))

\* The inventory is removed before the API is asked.
DownInv == job.at = "verify" => ~inventory

\* What does not mention the command ...
PlaceInv ==
  /\ ImageTypeOK /\ droplet \in {"none", "new", "active"}
  /\ inventory \in BOOLEAN /\ code \in BOOLEAN
  /\ vm \in [by : 0 .. MaxJobs, image : FileSet]
  /\ jobs \in 0 .. MaxJobs /\ faults \in 0 .. MaxFaults
  /\ tested \in [kind : Kinds \cup {"none"}, by : {"nobody", "own", "other"}, login : BOOLEAN]
  /\ FileInv /\ DropletInv /\ VerifiedImage /\ LabTestsConnect /\ TestsOwnVm

\* ... and what does.
CommandInv ==
  /\ last \in [kind : Kinds \cup {"none"}, how : {"none", "ok", "failed", "killed"},
               down : {"none", "ok", "failed"}]
  /\ JobInv /\ BusyInv /\ VmInv /\ SequenceInv /\ DownInv /\ NoResidual

IInv == PlaceInv /\ CommandInv

-----------------------------------------------------------------------------
(***************************************************************************)
(* How a command goes on.                                                  *)
(***************************************************************************)

\* What is left of `lab' tells where it is.
LEMMA TodosDiffer ==
  /\ <<"lab-test">> # <<>> /\ <<"lab-image", "lab-test">> # <<>>
  /\ <<"lab-test">> # <<"lab-image", "lab-test">>
<1>1. Len(<<"lab-test">>) = 1 /\ Len(<<"lab-image", "lab-test">>) = 2 /\ Len(<<>>) = 0
  OBVIOUS
<1> QED BY <1>1

\* It goes on to a step of the recipe it is in.
LEMMA StepToFields ==
  ASSUME job \in JobSet, NEW at \in Steps, StepTo(at)
  PROVE  /\ job' \in JobSet /\ job'.at = at /\ last' = last
         /\ job'.kind = job.kind /\ job'.todo = job.todo /\ job'.traps = job.traps
         /\ job'.term = job.term
BY DEF StepTo, JobSet

\* It begins the next recipe.
LEMMA BeginFields ==
  ASSUME job \in JobSet, job.todo # <<>>, job' = Begin(job.todo)
  PROVE  /\ job' \in JobSet /\ job'.kind = job.kind /\ job'.traps = 0 /\ job'.term = job.term
         /\ \/ job.todo = <<"lab-test">> /\ job'.at = "guard" /\ job'.todo = <<>>
            \/ /\ job.todo = <<"lab-image", "lab-test">> /\ job'.at = "push"
               /\ job'.todo = <<"lab-test">>
<1>1. 0 \in 0 .. 2 /\ {"guard", "push"} \subseteq Steps
  BY DEF Steps
<1>2. CASE job.todo = <<"lab-test">>
  <2>1. Tail(job.todo) = <<>> /\ Head(job.todo) = "lab-test" /\ <<>> \in Todos
    BY <1>2 DEF Todos
  <2>2. FirstStep["lab-test"] = "guard"
    BY DEF FirstStep, Recipes
  <2>3. job' = [job EXCEPT !.todo = <<>>, !.at = "guard", !.traps = 0]
    BY <2>1, <2>2 DEF Begin
  <2> QED BY <1>1, <1>2, <2>1, <2>3 DEF JobSet
<1>3. CASE job.todo = <<"lab-image", "lab-test">>
  <2>1. Tail(job.todo) = <<"lab-test">> /\ Head(job.todo) = "lab-image" /\ <<"lab-test">> \in Todos
    BY <1>3 DEF Todos
  <2>2. FirstStep["lab-image"] = "push"
    BY DEF FirstStep, Recipes
  <2>3. job' = [job EXCEPT !.todo = <<"lab-test">>, !.at = "push", !.traps = 0]
    BY <2>1, <2>2 DEF Begin
  <2> QED BY <1>1, <1>3, <2>1, <2>3 DEF JobSet
<1> QED BY <1>2, <1>3 DEF JobSet, Todos

\* Its trap runs lab-down.
LEMMA RunTrapFields ==
  ASSUME job \in JobSet, NEW todo \in Todos, NEW n \in 1 .. 2, RunTrap(todo, n)
  PROVE  /\ job' \in JobSet /\ job'.at = "delete" /\ last' = last
         /\ job'.kind = job.kind /\ job'.todo = todo /\ job'.traps = n /\ job'.traps # 0
         /\ ~job'.term
<1>1. "delete" \in Steps /\ n \in 0 .. 2
  BY DEF Steps, DownSteps
<1>2. job' \in JobSet /\ job'.at = "delete" /\ last' = last
      /\ job'.kind = job.kind /\ job'.todo = todo /\ job'.traps = n /\ job'.term = FALSE
  BY <1>1 DEF RunTrap, JobSet
<1> QED BY <1>2

\* It ends.
LEMMA EndJobFields ==
  ASSUME NEW how, NEW down, EndJob(how, down)
  PROVE  /\ job' \in JobSet /\ job'.kind = "none" /\ job'.at = "-" /\ job'.todo = <<>>
         /\ job'.traps = 0 /\ ~job'.term
         /\ last' = [kind |-> job.kind, how |-> how, down |-> down]
BY DEF EndJob, NoJob, JobSet, Todos, Kinds

\* The ways to go on, in these words.
Ends(how, down) ==
  /\ job' \in JobSet /\ job'.kind = "none" /\ job'.at = "-" /\ job'.todo = <<>>
  /\ job'.traps = 0 /\ ~job'.term
  /\ last' = [kind |-> job.kind, how |-> how, down |-> down]
GoesOn ==
  /\ job' \in JobSet /\ job'.kind = job.kind /\ job'.traps = 0 /\ job'.term = job.term
  /\ last' = last
  /\ \/ job.todo = <<"lab-test">> /\ job'.at = "guard" /\ job'.todo = <<>>
     \/ /\ job.todo = <<"lab-image", "lab-test">> /\ job'.at = "push"
        /\ job'.todo = <<"lab-test">>
TearsDown ==
  /\ job' \in JobSet /\ job'.kind = job.kind /\ job'.at = "delete" /\ job'.traps # 0
  /\ ~job'.term /\ last' = last

\* A recipe other than lab-down is over.
LEMMA LeaveCases ==
  ASSUME JobInv, NEW ok \in BOOLEAN, job.kind # "none", Leave(ok)
  PROVE  \/ ok /\ GoesOn
         \/ job.kind = "lab" /\ TearsDown /\ job'.todo \in {<<>>, job.todo}
         \/ job.kind # "lab" /\ Ends(How(ok), "none")
<1>1. job \in JobSet /\ job.todo \in Todos /\ <<>> \in Todos /\ 2 \in 1 .. 2 /\ 1 \in 1 .. 2
  BY DEF JobInv, JobSet, Todos
<1>2. PICK rest \in Todos : rest = (IF ok THEN job.todo ELSE <<>>)
  BY <1>1
<1>3. CASE job.term
  <2>1. RunTrap(rest, 2)
    BY <1>2, <1>3 DEF Leave
  <2>2. job.kind = "lab"
    BY <1>3 DEF JobInv
  <2> QED BY <1>1, <1>2, <2>1, <2>2, RunTrapFields DEF TearsDown
<1>4. CASE ~job.term /\ rest # <<>>
  <2>1. ok /\ rest = job.todo
    BY <1>2, <1>4
  <2>2. job' = Begin(job.todo) /\ last' = last
    BY <1>2, <1>4, <2>1 DEF Leave
  <2> QED BY <1>1, <1>4, <2>1, <2>2, BeginFields DEF GoesOn
<1>5. CASE ~job.term /\ rest = <<>> /\ job.kind = "lab"
  <2>1. RunTrap(<<>>, 1)
    BY <1>2, <1>5 DEF Leave
  <2> QED BY <1>1, <1>5, <2>1, RunTrapFields DEF TearsDown
<1>6. CASE ~job.term /\ rest = <<>> /\ job.kind # "lab"
  <2>1. EndJob(How(ok), "none")
    BY <1>2, <1>6 DEF Leave
  <2> QED BY <1>6, <2>1, EndJobFields DEF Ends
<1> QED BY <1>3, <1>4, <1>5, <1>6

\* A lab-down is over.
LEMMA DownEndsCases ==
  ASSUME JobInv, NEW ok \in BOOLEAN, job.at \in DownSteps, DownEnds(ok)
  PROVE  \/ ok /\ GoesOn
         \/ job.kind = "lab" /\ TearsDown /\ job'.todo = <<>>
         \/ Ends(How(ok), How(ok))
<1>1. job \in JobSet /\ job.todo \in Todos /\ <<>> \in Todos /\ 1 \in 1 .. 2
  BY DEF JobInv, JobSet, Todos
<1>2. CASE job.kind = "lab-down" \/ job.traps = 1
  <2>1. EndJob(How(ok), How(ok))
    BY <1>2 DEF DownEnds
  <2> QED BY <2>1, EndJobFields DEF Ends
<1>3. CASE ~(job.kind = "lab-down" \/ job.traps = 1) /\ ok /\ job.todo # <<>>
  <2>1. job' = Begin(job.todo) /\ last' = last
    BY <1>3 DEF DownEnds
  <2> QED BY <1>1, <1>3, <2>1, BeginFields DEF GoesOn
<1>4. CASE ~(job.kind = "lab-down" \/ job.traps = 1) /\ ~(ok /\ job.todo # <<>>)
  <2>1. RunTrap(<<>>, 1) /\ job.kind = "lab"
    BY <1>4 DEF DownEnds, JobInv
  <2> QED BY <1>1, <2>1, RunTrapFields DEF TearsDown
<1> QED BY <1>2, <1>3, <1>4

-----------------------------------------------------------------------------
(***************************************************************************)
(* What each way of going on keeps.                                        *)
(***************************************************************************)

\* The numbers of commands and of faults.
LEMMA Counters ==
  ASSUME IInv
  PROVE  jobs \in Nat /\ faults \in Nat /\ vm.by \in Nat /\ MaxJobs \in Nat /\ MaxFaults \in Nat
BY LabAssumption DEF IInv, PlaceInv

\* A recipe other than lab-down is over, with no preparation under way: what the
\* next recipe of `lab' relies on, and nothing of a VM but after a fault.
LEMMA LeaveCommand ==
  ASSUME IInv, NEW ok \in BOOLEAN, Leave(ok), job.kind # "none", job.at \notin DownSteps,
         prep.pc = "idle", UNCHANGED <<files, prep, droplet, inventory, jobs>>,
         tool => tool', vm' \in {vm, NoVm}, faults' \in Nat, faults <= faults',
         vm'.by # 0 => faults' > 0,
         ok /\ job.kind = "lab" /\ job.todo = <<"lab-image", "lab-test">> => ~out.is /\ tool',
         ok /\ job.kind = "lab" /\ job.todo = <<"lab-test">> => (out.is => Good(out))
  PROVE  CommandInv'
<1> USE DEF files
<1>1. /\ JobInv /\ job \in JobSet /\ job.kind \in Kinds
      /\ last \in [kind : Kinds \cup {"none"}, how : {"none", "ok", "failed", "killed"},
                   down : {"none", "ok", "failed"}]
  BY DEF IInv, CommandInv, JobInv, JobSet
<1>2. /\ jobs \in Nat /\ vm.by \in Nat /\ vm'.by \in Nat /\ vm'.by <= jobs
      /\ job.todo # <<>> => vm'.by < jobs
  BY Counters DEF IInv, CommandInv, VmInv, NoVm
<1>3. CASE ok /\ GoesOn
  <2>1. job.kind = "lab" /\ job'.at \in {"guard", "push"} /\ job.todo # <<>> /\ job'.kind = "lab"
    BY <1>1, <1>3, TodosDiffer DEF GoesOn, JobInv
  <2>2. JobInv'
    BY <1>1, <1>3, <2>1, TodosDiffer DEF GoesOn, JobInv, DownSteps, TestSteps
  <2>3. BusyInv' /\ DownInv' /\ NoResidual'
    BY <2>1 DEF BusyInv, DownInv, NoResidual
  <2>4. VmInv'
    BY <1>2, <2>1 DEF VmInv
  <2>5. SequenceInv'
    BY <1>3, <2>1 DEF SequenceInv, GoesOn, Good
  <2> QED BY <1>1, <1>3, <2>2, <2>3, <2>4, <2>5 DEF CommandInv, GoesOn
<1>4. CASE job.kind = "lab" /\ TearsDown /\ job'.todo \in {<<>>, job.todo}
  <2>1. JobInv'
    BY <1>1, <1>4 DEF TearsDown, JobInv, DownSteps, TestSteps
  <2>2. BusyInv' /\ DownInv' /\ NoResidual' /\ SequenceInv'
    BY <1>4 DEF BusyInv, DownInv, NoResidual, SequenceInv, TearsDown
  <2>3. VmInv'
    BY <1>2, <1>4 DEF VmInv, TearsDown
  <2> QED BY <1>1, <1>4, <2>1, <2>2, <2>3 DEF CommandInv, TearsDown
<1>5. CASE job.kind # "lab" /\ Ends(How(ok), "none")
  <2>1. JobInv'
    BY <1>5 DEF Ends, JobInv, DownSteps, TestSteps
  <2>2. last'.kind = job.kind /\ job.kind # "lab-down"
    BY <1>1, <1>5 DEF Ends, JobInv
  <2>3. BusyInv' /\ DownInv' /\ NoResidual' /\ SequenceInv'
    BY <1>5, <2>2 DEF BusyInv, DownInv, NoResidual, SequenceInv, Ends
  <2>4. VmInv'
    BY <1>2, <1>5 DEF VmInv, Ends
  <2>5. last' \in [kind : Kinds \cup {"none"}, how : {"none", "ok", "failed", "killed"},
                  down : {"none", "ok", "failed"}]
    BY <1>1, <1>5 DEF Ends, How
  <2> QED BY <2>1, <2>3, <2>4, <2>5 DEF CommandInv
<1> QED BY <1>1, <1>3, <1>4, <1>5, LeaveCases

\* A lab-down is over; if it says so, nothing is left.
LEMMA DownEndsCommand ==
  ASSUME IInv, NEW ok \in BOOLEAN, DownEnds(ok), job.at \in DownSteps,
         UNCHANGED <<mirror, onDroplet, droplet, inventory, jobs, faults>>,
         ok => droplet = "none" /\ ~inventory
  PROVE  CommandInv'
<1> USE DEF onDroplet, files
<1>1. /\ JobInv /\ job \in JobSet /\ job.kind \in Kinds
      /\ last \in [kind : Kinds \cup {"none"}, how : {"none", "ok", "failed", "killed"},
                   down : {"none", "ok", "failed"}]
  BY DEF IInv, CommandInv, JobInv, JobSet, DownSteps
<1>2. /\ jobs \in Nat /\ vm.by \in Nat /\ vm.by <= jobs /\ (job.todo # <<>> => vm.by < jobs)
      /\ vm.by # 0 => faults > 0
  BY Counters DEF IInv, CommandInv, VmInv, DownSteps
<1>3. CASE ok /\ GoesOn
  <2>1. job.kind = "lab" /\ job'.at \in {"guard", "push"} /\ job.todo # <<>> /\ job'.kind = "lab"
    BY <1>1, <1>3, TodosDiffer DEF GoesOn, JobInv
  <2>2. JobInv'
    BY <1>1, <1>3, <2>1, TodosDiffer DEF GoesOn, JobInv, DownSteps, TestSteps
  <2>3. prep.pc = "idle" /\ ~out.is
    BY <1>3 DEF IInv, PlaceInv, DropletInv, NoFile
  <2>4. BusyInv' /\ DownInv' /\ NoResidual'
    BY <2>1, <2>3 DEF BusyInv, DownInv, NoResidual
  <2>5. VmInv'
    BY <1>2, <2>1 DEF VmInv
  <2>6. SequenceInv'
    BY <1>3, <2>1, <2>3 DEF SequenceInv
  <2> QED BY <1>1, <1>3, <2>2, <2>4, <2>5, <2>6 DEF CommandInv, GoesOn
<1>4. CASE job.kind = "lab" /\ TearsDown /\ job'.todo = <<>>
  <2>1. JobInv'
    BY <1>1, <1>4 DEF TearsDown, JobInv, DownSteps, TestSteps
  <2>2. BusyInv' /\ DownInv' /\ NoResidual' /\ SequenceInv'
    BY <1>4 DEF BusyInv, DownInv, NoResidual, SequenceInv, TearsDown, DownSteps
  <2>3. VmInv'
    BY <1>2, <1>4 DEF VmInv, TearsDown
  <2> QED BY <1>1, <1>4, <2>1, <2>2, <2>3 DEF CommandInv, TearsDown
<1>5. CASE Ends(How(ok), How(ok))
  <2>1. JobInv'
    BY <1>5 DEF Ends, JobInv, DownSteps, TestSteps
  <2>2. last'.down = How(ok)
    BY <1>5 DEF Ends
  <2>3. BusyInv' /\ DownInv' /\ SequenceInv'
    BY <1>5 DEF BusyInv, DownInv, SequenceInv, Ends
  <2>4. NoResidual'
    BY <2>2 DEF NoResidual, How
  <2>5. VmInv'
    BY <1>2, <1>5 DEF VmInv, Ends
  <2>6. last' \in [kind : Kinds \cup {"none"}, how : {"none", "ok", "failed", "killed"},
                  down : {"none", "ok", "failed"}]
    BY <1>1, <1>5 DEF Ends, How
  <2> QED BY <2>1, <2>3, <2>4, <2>5, <2>6 DEF CommandInv
<1> QED BY <1>1, <1>3, <1>4, <1>5, DownEndsCases

\* It goes on within its recipe.
LEMMA StepCommand ==
  ASSUME IInv, NEW at \in Steps, StepTo(at), job.kind # "none",
         job.at \in DownSteps <=> at \in DownSteps,
         at # "hand", at \in {"push", "prepare", "preparing"} =>
           job.at \in {"push", "prepare", "hand", "preparing"},
         at \in {"guard"} \cup TestSteps => job.at \in {"guard"} \cup TestSteps,
         BusyInv', VmInv', SequenceInv', DownInv'
  PROVE  CommandInv'
<1>1. /\ JobInv /\ job \in JobSet
      /\ last \in [kind : Kinds \cup {"none"}, how : {"none", "ok", "failed", "killed"},
                   down : {"none", "ok", "failed"}]
  BY DEF IInv, CommandInv, JobInv
<1>2. /\ job' \in JobSet /\ job'.at = at /\ last' = last
      /\ job'.kind = job.kind /\ job'.todo = job.todo /\ job'.traps = job.traps
      /\ job'.term = job.term
  BY <1>1, StepToFields
<1>3. "-" \notin Steps
  BY DEF Steps, TestSteps, DownSteps
<1>4. JobInv'
  BY <1>1, <1>2, <1>3 DEF JobInv
<1>5. NoResidual'
  BY <1>2 DEF NoResidual
<1> QED BY <1>1, <1>2, <1>4, <1>5 DEF CommandInv

\* Nothing happens to what is on the Droplet but to the VM.
LEMMA PlaceKept ==
  ASSUME PlaceInv, UNCHANGED <<mirror, files, tool, keyFile, prep, code, droplet, tested>>,
         vm' \in {vm, NoVm}, inventory' \in BOOLEAN, jobs' \in 0 .. MaxJobs,
         faults' \in 0 .. MaxFaults, faults <= faults'
  PROVE  PlaceInv'
<1>1. vm' \in [by : 0 .. MaxJobs, image : FileSet]
  <2>1. NoFile \in FileSet /\ 0 \in 0 .. MaxJobs
    BY LabAssumption DEF FileSet
  <2>2. NoVm \in [by : 0 .. MaxJobs, image : FileSet]
    BY <2>1 DEF NoVm
  <2> QED BY <2>2 DEF PlaceInv
<1>2. ImageTypeOK' /\ FileInv' /\ VerifiedImage' /\ LabTestsConnect'
  BY DEF PlaceInv, ImageTypeOK, FileInv, VerifiedImage, LabTestsConnect, files
<1>3. DropletInv'
  BY DEF PlaceInv, DropletInv, files
<1>4. TestsOwnVm'
  <2>1. faults \in Nat /\ faults' \in Nat
    BY LabAssumption DEF PlaceInv
  <2> QED BY <2>1 DEF PlaceInv, TestsOwnVm
<1> QED BY <1>1, <1>2, <1>3, <1>4 DEF PlaceInv

-----------------------------------------------------------------------------
(***************************************************************************)
(* Every step keeps the invariant.                                         *)
(***************************************************************************)

\* What the proofs need of a state, of the command and of the Droplet.
LEMMA Facts ==
  ASSUME IInv
  PROVE  /\ PlaceInv /\ CommandInv /\ JobInv /\ BusyInv /\ VmInv /\ SequenceInv /\ DownInv
         /\ NoResidual /\ job \in JobSet /\ FileInv /\ DropletInv /\ ImageTypeOK
         /\ jobs \in 0 .. MaxJobs /\ faults \in 0 .. MaxFaults /\ inventory \in BOOLEAN
         /\ jobs \in Nat /\ faults \in Nat /\ vm.by \in Nat
BY Counters DEF IInv, PlaceInv, CommandInv, JobInv

\* lab-up, as far as it leaves the Droplet's contents alone.
LEMMA UpIInv ==
  ASSUME IInv, CreateDroplet \/ DropletActive \/ WriteInventory
  PROVE  IInv'
<1> USE DEF onDroplet, files
<1>1. /\ job.at \in {"create", "wait", "inventory"} /\ job.kind # "none" /\ prep.pc = "idle"
      /\ faults \in Nat /\ faults <= faults
  BY Facts DEF CreateDroplet, DropletActive, WriteInventory, JobInv, BusyInv, DownSteps
<1>2. PICK at \in {"wait", "inventory", "deploy"} : StepTo(at)
  BY DEF CreateDroplet, DropletActive, WriteInventory
<1>3. /\ UNCHANGED <<mirror, onDroplet, jobs, faults, tested>> /\ inventory' \in BOOLEAN
      /\ droplet' = droplet \/ (droplet = "none" /\ droplet' = "new")
  BY Facts DEF CreateDroplet, DropletActive, WriteInventory
<1>4. at \in Steps /\ at \notin DownSteps /\ job.at \notin DownSteps /\ at \notin TestSteps
  BY <1>1 DEF Steps, DownSteps, TestSteps
<1>5. job'.at = at /\ job'.kind = job.kind /\ job'.todo = job.todo
  BY <1>2, <1>4, Facts, StepToFields
<1>6. BusyInv' /\ DownInv' /\ SequenceInv'
  BY <1>1, <1>3, <1>5 DEF BusyInv, DownInv, SequenceInv
<1>7. VmInv'
  BY <1>1, <1>3, <1>5, Facts DEF VmInv
<1>8. CommandInv'
  BY <1>1, <1>2, <1>4, <1>6, <1>7, StepCommand
<1>9. PlaceInv'
  <2>1. CASE droplet' = droplet
    BY <1>1, <1>3, <2>1, Facts, PlaceKept
  <2>2. CASE droplet = "none" /\ droplet' = "new"
    <3>1. DropletInv'
      BY <1>3, <2>2, Facts DEF DropletInv
    <3>2. ImageTypeOK' /\ FileInv' /\ VerifiedImage' /\ LabTestsConnect' /\ TestsOwnVm'
      BY <1>3, Facts DEF PlaceInv, ImageTypeOK, FileInv, VerifiedImage, LabTestsConnect, TestsOwnVm
    <3> QED BY <1>3, <2>2, <3>1, <3>2, Facts DEF PlaceInv
  <2> QED BY <1>3, <2>1, <2>2
<1> QED BY <1>8, <1>9 DEF IInv

\* The deployment removes the images.
LEMMA DeployIInv ==
  ASSUME IInv, Deploy
  PROVE  IInv'
<1> USE DEF files
<1>1. /\ job.at = "deploy" /\ droplet = "active" /\ out' = NoFile /\ tmp' = NoFile /\ code' = TRUE
      /\ UNCHANGED <<mirror, tool, keyFile, prep, vm, droplet, inventory, jobs, faults, tested>>
      /\ StepTo("tools")
  BY DEF Deploy, SyncFixtures
<1>2. job.kind # "none" /\ prep.pc = "idle"
  BY <1>1, Facts DEF JobInv, BusyInv, DownSteps
<1>3. /\ "tools" \in Steps /\ "tools" \notin DownSteps /\ job.at \notin DownSteps
      /\ "tools" \notin TestSteps
  BY <1>1 DEF Steps, DownSteps, TestSteps
<1>4. job'.at = "tools" /\ job'.kind = job.kind /\ job'.todo = job.todo
  BY <1>1, <1>3, Facts, StepToFields
<1>5. BusyInv' /\ DownInv' /\ SequenceInv'
  BY <1>1, <1>2, <1>4 DEF BusyInv, DownInv, SequenceInv, NoFile
<1>6. VmInv'
  BY <1>1, <1>4, Facts DEF VmInv
<1>7. CommandInv'
  BY <1>1, <1>2, <1>3, <1>5, <1>6, StepCommand
<1>8. NoFile \in FileSet /\ ~NoFile.is
  BY DEF FileSet, NoFile
<1>9. ImageTypeOK' /\ FileInv' /\ VerifiedImage' /\ DropletInv'
  BY <1>1, <1>2, <1>8, Facts DEF ImageTypeOK, FileInv, VerifiedImage, DropletInv
<1>10. PlaceInv'
  BY <1>1, <1>9, Facts DEF PlaceInv, LabTestsConnect, TestsOwnVm
<1> QED BY <1>7, <1>10 DEF IInv

\* On an active Droplet, the tool may be installed and the key file pushed.
LEMMA PlaceEquipped ==
  ASSUME PlaceInv, UNCHANGED <<mirror, files, prep, code, droplet, tested, vm, inventory,
                             jobs, faults>>,
         droplet = "active", tool' \in BOOLEAN, keyFile' \in BOOLEAN
  PROVE  PlaceInv'
<1>1. ImageTypeOK' /\ FileInv' /\ VerifiedImage' /\ LabTestsConnect' /\ DropletInv' /\ TestsOwnVm'
  BY DEF PlaceInv, ImageTypeOK, FileInv, VerifiedImage, LabTestsConnect, files,
         DropletInv, TestsOwnVm
<1> QED BY <1>1 DEF PlaceInv

\* The Droplet's last role, and the end of lab-up.
LEMMA InstallToolsIInv ==
  ASSUME IInv, InstallTools
  PROVE  IInv'
<1> USE DEF files
<1>1. /\ job.at = "tools" /\ droplet = "active" /\ tool' = TRUE /\ Leave(TRUE)
      /\ UNCHANGED <<mirror, files, keyFile, prep, code, vm, droplet, inventory, jobs, faults,
                     tested>>
  BY DEF InstallTools
<1>2. job.kind # "none" /\ prep.pc = "idle" /\ job.at \notin DownSteps
  BY <1>1, Facts DEF JobInv, BusyInv, DownSteps
<1>3. vm.by # 0 => faults > 0
  BY <1>1, Facts DEF VmInv
<1>4. job.kind = "lab" => ~out.is
  BY <1>1, Facts DEF SequenceInv
<1>5. /\ TRUE \in BOOLEAN /\ (tool => tool') /\ vm' \in {vm, NoVm} /\ faults' \in Nat
      /\ faults <= faults' /\ (vm'.by # 0 => faults' > 0)
  BY <1>1, <1>3, Facts
<1>6. CommandInv'
  BY <1>1, <1>2, <1>4, <1>5, LeaveCommand
<1>7. keyFile' \in BOOLEAN
  BY <1>1, Facts DEF ImageTypeOK
<1>8. PlaceInv'
  BY <1>1, <1>7, Facts, PlaceEquipped
<1> QED BY <1>6, <1>8 DEF IInv

\* lab-image pushes the tests with the key, and lab-up has installed the tool.
LEMMA PushTestsIInv ==
  ASSUME IInv, PushTests
  PROVE  IInv'
<1> USE DEF files
<1>1. /\ job.at = "push" /\ droplet = "active" /\ inventory /\ keyFile' = TRUE
      /\ UNCHANGED <<mirror, files, tool, prep, code, vm, droplet, inventory, jobs, faults, tested>>
      /\ StepTo("prepare")
  BY DEF PushTests
<1>2. job.kind # "none" /\ prep.pc = "idle"
  BY <1>1, Facts DEF JobInv, BusyInv, DownSteps
<1>3. /\ "prepare" \in Steps /\ "prepare" \notin DownSteps /\ job.at \notin DownSteps
      /\ "prepare" \notin TestSteps
  BY <1>1 DEF Steps, DownSteps, TestSteps
<1>4. job'.at = "prepare" /\ job'.kind = job.kind /\ job'.todo = job.todo
  BY <1>1, <1>3, Facts, StepToFields
<1>5. BusyInv' /\ DownInv' /\ SequenceInv'
  BY <1>1, <1>2, <1>4, Facts DEF BusyInv, DownInv, SequenceInv
<1>6. VmInv'
  BY <1>1, <1>4, Facts DEF VmInv
<1>7. CommandInv'
  BY <1>1, <1>2, <1>3, <1>5, <1>6, StepCommand
<1>8. tool' \in BOOLEAN
  BY <1>1, Facts DEF ImageTypeOK
<1>9. PlaceInv'
  BY <1>1, <1>8, Facts, PlaceEquipped
<1> QED BY <1>7, <1>9 DEF IInv

\* The preparation starts; in `lab' no image is in its way.
LEMMA RunPrepareImageIInv ==
  ASSUME IInv, RunPrepareImage
  PROVE  IInv'
<1> USE DEF files
<1>1. PICK customize \in BOOLEAN, force \in BOOLEAN :
        /\ job.at = "prepare" => customize /\ ~force
        /\ Prepare(customize, force)
  BY DEF RunPrepareImage
<1>2. /\ job.at \in {"prepare", "hand"} /\ droplet = "active"
      /\ UNCHANGED <<code, vm, droplet, inventory, jobs, faults, tested>>
      /\ UNCHANGED <<mirror, files, tool, keyFile>> /\ StepTo("preparing") /\ prep.pc = "idle"
  BY <1>1 DEF RunPrepareImage, Prepare
<1>3. /\ prep' \in Runs
      /\ prep'.pc \in {"idle", "sums"} /\ prep'.customize = customize
      /\ ~out.is => prep'.pc = "sums"
  <2>1. 0 \in 0 .. MaxRelease
    BY ReleaseAssumption
  <2> QED BY <1>1, <2>1 DEF Prepare, NoRun, Runs
<1>4. job.kind # "none"
  BY <1>2, Facts DEF JobInv
<1>5. /\ "preparing" \in Steps /\ "preparing" \notin DownSteps /\ job.at \notin DownSteps
      /\ "preparing" \notin TestSteps
  BY <1>2 DEF Steps, DownSteps, TestSteps
<1>6. job'.at = "preparing" /\ job'.kind = job.kind /\ job'.todo = job.todo
  BY <1>2, <1>5, Facts, StepToFields
<1>7. BusyInv' /\ DownInv'
  BY <1>6 DEF BusyInv, DownInv
<1>8. SequenceInv'
  <2>1. job.kind = "lab" => job.at = "prepare"
    BY <1>2, Facts DEF JobInv
  <2> QED BY <1>1, <1>2, <1>3, <1>6, <2>1, Facts DEF SequenceInv
<1>9. VmInv'
  BY <1>2, <1>6, Facts DEF VmInv
<1>10. CommandInv'
  BY <1>2, <1>4, <1>5, <1>7, <1>8, <1>9, StepCommand
<1>11. ImageTypeOK' /\ FileInv' /\ VerifiedImage' /\ LabTestsConnect' /\ DropletInv' /\ TestsOwnVm'
  BY <1>2, <1>3, Facts DEF PlaceInv, Runs, ImageTypeOK, FileInv, VerifiedImage, LabTestsConnect,
         DropletInv, TestsOwnVm
<1>12. PlaceInv'
  BY <1>2, <1>11, Facts DEF PlaceInv
<1> QED BY <1>10, <1>12 DEF IInv

\* A recipe other than lab-down is over, and changes nothing by that.
LEMMA LeaveIInv ==
  ASSUME IInv, NEW ok \in BOOLEAN, Leave(ok), job.kind # "none", job.at \notin DownSteps,
         prep.pc = "idle",
         UNCHANGED <<mirror, onDroplet, droplet, inventory, jobs, faults, tested>>,
         vm.by # 0 => faults > 0,
         ok /\ job.kind = "lab" => job.todo # <<"lab-image", "lab-test">>,
         ok /\ job.kind = "lab" /\ job.todo = <<"lab-test">> => (out.is => Good(out))
  PROVE  IInv'
<1>1. /\ (tool => tool') /\ vm' \in {vm, NoVm} /\ faults' \in Nat
      /\ faults <= faults' /\ (vm'.by # 0 => faults' > 0)
      /\ UNCHANGED <<files, prep, droplet, inventory, jobs>>
  BY Facts DEF onDroplet
<1>2. CommandInv'
  BY <1>1, LeaveCommand
<1>3. /\ PlaceInv /\ UNCHANGED <<mirror, files, tool, keyFile, prep, code, droplet, tested>>
      /\ inventory' \in BOOLEAN /\ jobs' \in 0 .. MaxJobs /\ faults' \in 0 .. MaxFaults
  BY Facts DEF onDroplet
<1>4. PlaceInv'
  BY <1>1, <1>3, PlaceKept
<1> QED BY <1>2, <1>4 DEF IInv

\* lab-image ends as its preparation did.
LEMMA ImageDoneIInv ==
  ASSUME IInv, ImageDone
  PROVE  IInv'
<1>1. /\ job.at = "preparing" /\ prep.pc = "idle"
      /\ UNCHANGED <<mirror, onDroplet, droplet, inventory, jobs, faults, tested>>
  BY DEF ImageDone
<1>2. PICK ok \in BOOLEAN : ok = (prep.result = "ready") /\ Leave(ok)
  BY DEF ImageDone
<1>3. /\ job.kind # "none" /\ job.at \notin DownSteps /\ (vm.by # 0 => faults > 0)
      /\ job.todo # <<"lab-image", "lab-test">>
  BY <1>1, Facts DEF JobInv, DownSteps, VmInv
<1>4. ok /\ job.kind = "lab" => Good(out)
  BY <1>1, <1>2, Facts DEF SequenceInv
<1> QED BY <1>1, <1>2, <1>3, <1>4, LeaveIInv

\* The tests are skipped.
LEMMA SkipTestsIInv ==
  ASSUME IInv, SkipTests
  PROVE  IInv'
<1>1. /\ job.at = "launch" /\ Leave(TRUE) /\ TRUE \in BOOLEAN
      /\ UNCHANGED <<mirror, onDroplet, droplet, inventory, jobs, faults, tested>>
  BY DEF SkipTests
<1>2. /\ job.kind # "none" /\ job.at \notin DownSteps /\ (vm.by # 0 => faults > 0)
      /\ job.todo = <<>> /\ prep.pc = "idle"
  BY <1>1, Facts DEF JobInv, BusyInv, DownSteps, TestSteps, VmInv
<1> QED BY <1>1, <1>2, LeaveIInv, TodosDiffer

\* A step fails.
LEMMA StepFailsIInv ==
  ASSUME IInv, StepFails
  PROVE  IInv'
<1>1. /\ job.at \in Failing /\ FALSE \in BOOLEAN
      /\ UNCHANGED <<mirror, onDroplet, droplet, inventory, jobs, faults, tested>>
  BY DEF StepFails
<1>2. CASE job.at \in DownSteps
  <2>1. DownEnds(FALSE)
    BY <1>2 DEF StepFails
  <2>2. CommandInv'
    BY <1>1, <1>2, <2>1, DownEndsCommand
  <2>3. /\ PlaceInv /\ UNCHANGED <<mirror, files, tool, keyFile, prep, code, droplet, tested>>
        /\ vm' \in {vm, NoVm} /\ faults <= faults'
        /\ inventory' \in BOOLEAN /\ jobs' \in 0 .. MaxJobs /\ faults' \in 0 .. MaxFaults
    BY <1>1, Facts DEF onDroplet
  <2>4. PlaceInv'
    BY <2>3, PlaceKept
  <2> QED BY <2>2, <2>4 DEF IInv
<1>3. CASE job.at \notin DownSteps
  <2>1. Leave(FALSE)
    BY <1>3 DEF StepFails
  <2>2. /\ job.at \notin {"-", "preparing", "testing", "shutdown", "kill"}
    BY <1>1 DEF Failing, Steps, TestSteps, DownSteps
  <2>3. job.kind # "none" /\ prep.pc = "idle" /\ (vm.by # 0 => faults > 0)
    BY <1>3, <2>2, Facts DEF JobInv, BusyInv, VmInv
  <2> QED BY <1>1, <1>3, <2>1, <2>3, LeaveIInv
<1> QED BY <1>2, <1>3

\* The API is asked; lab-down is over.
LEMMA AssertNoResidualIInv ==
  ASSUME IInv, AssertNoResidual
  PROVE  IInv'
<1>1. /\ job.at = "verify"
      /\ UNCHANGED <<mirror, onDroplet, droplet, inventory, jobs, faults, tested>>
  BY DEF AssertNoResidual
<1>2. PICK ok \in BOOLEAN : ok = (droplet = "none") /\ DownEnds(ok)
  BY DEF AssertNoResidual
<1>3. job.at \in DownSteps /\ ~inventory
  BY <1>1, Facts DEF DownSteps, DownInv
<1>4. CommandInv'
  BY <1>1, <1>2, <1>3, DownEndsCommand
<1>5. /\ PlaceInv /\ UNCHANGED <<mirror, files, tool, keyFile, prep, code, droplet, tested>>
      /\ vm' \in {vm, NoVm} /\ faults <= faults'
      /\ inventory' \in BOOLEAN /\ jobs' \in 0 .. MaxJobs /\ faults' \in 0 .. MaxFaults
  BY <1>1, Facts DEF onDroplet
<1>6. PlaceInv'
  BY <1>5, PlaceKept
<1> QED BY <1>4, <1>6 DEF IInv

\* lab-test's guard lets only an image through, and in `lab' that is a good one.
LEMMA GuardImageIInv ==
  ASSUME IInv, GuardImage
  PROVE  IInv'
<1> USE DEF files
<1>1. /\ job.at = "guard" /\ droplet = "active" /\ keyFile' = TRUE
      /\ UNCHANGED <<mirror, files, tool, prep, code, vm, droplet, inventory, jobs, faults, tested>>
  BY DEF GuardImage
<1>2. /\ job.kind # "none" /\ prep.pc = "idle" /\ job.at \notin DownSteps
      /\ (vm.by # 0 => faults > 0) /\ tool' \in BOOLEAN
  BY <1>1, Facts DEF JobInv, BusyInv, DownSteps, VmInv, ImageTypeOK
<1>3. PlaceInv'
  BY <1>1, <1>2, Facts, PlaceEquipped
<1>4. CASE out.is
  <2>1. StepTo("launch")
    BY <1>4 DEF GuardImage
  <2>2. /\ "launch" \in Steps /\ "launch" \notin DownSteps /\ "launch" \in TestSteps
    BY DEF Steps, DownSteps, TestSteps
  <2>3. job'.at = "launch" /\ job'.kind = job.kind /\ job'.todo = job.todo
    BY <2>1, <2>2, Facts, StepToFields
  <2>4. BusyInv' /\ DownInv' /\ SequenceInv'
    BY <1>1, <1>2, <1>4, <2>3, Facts DEF BusyInv, DownInv, SequenceInv, Good
  <2>5. VmInv'
    BY <1>1, <2>3, Facts DEF VmInv
  <2>6. CommandInv'
    BY <1>1, <1>2, <2>1, <2>2, <2>4, <2>5, StepCommand
  <2> QED BY <1>3, <2>6 DEF IInv
<1>5. CASE ~out.is
  <2>1. Leave(FALSE) /\ FALSE \in BOOLEAN
    BY <1>5 DEF GuardImage
  <2>2. /\ (tool => tool') /\ vm' \in {vm, NoVm} /\ faults' \in Nat
        /\ faults <= faults' /\ (vm'.by # 0 => faults' > 0)
    BY <1>1, <1>2, Facts
  <2>3. CommandInv'
    BY <1>1, <1>2, <2>1, <2>2, LeaveCommand
  <2> QED BY <1>3, <2>3 DEF IInv
<1> QED BY <1>4, <1>5

\* A VM is launched, or is not because another holds its port.
LEMMA LaunchHostIInv ==
  ASSUME IInv, LaunchHost
  PROVE  IInv'
<1> USE DEF files
<1>1. /\ job.at = "launch" /\ droplet = "active" /\ StepTo("testing")
      /\ UNCHANGED <<mirror, files, tool, keyFile, prep, code, droplet, inventory, jobs, faults,
                     tested>>
  BY DEF LaunchHost
<1>2. /\ job.kind # "none" /\ prep.pc = "idle" /\ job.at \notin DownSteps /\ job.todo = <<>>
      /\ vm.by < jobs /\ (vm.by # 0 => faults > 0)
  BY <1>1, Facts DEF JobInv, BusyInv, DownSteps, TestSteps, VmInv
<1>3. /\ "testing" \in Steps /\ "testing" \notin DownSteps /\ "testing" \in TestSteps
      /\ "launch" \in TestSteps
  BY DEF Steps, DownSteps, TestSteps
<1>4. job'.at = "testing" /\ job'.kind = job.kind /\ job'.todo = job.todo
  BY <1>1, <1>3, Facts, StepToFields
<1>5. \/ vm'.by = jobs /\ vm'.image = out /\ vm' \in [by : 0 .. MaxJobs, image : FileSet]
      \/ vm' = vm
  BY <1>1, Facts DEF LaunchHost, ImageTypeOK
<1>6. BusyInv' /\ DownInv'
  BY <1>1, <1>2, <1>4 DEF BusyInv, DownInv
<1>7. VmInv'
  BY <1>1, <1>2, <1>4, <1>5, Facts DEF VmInv
<1>8. SequenceInv'
  <2>1. CASE vm'.by = jobs /\ vm'.image = out
    BY <1>1, <1>4, <2>1, Facts DEF SequenceInv, Good
  <2>2. CASE vm' = vm
    <3>1. vm'.by # jobs'
      BY <1>1, <1>2, <2>2, Facts
    <3> QED BY <1>4, <3>1 DEF SequenceInv
  <2> QED BY <1>5, <2>1, <2>2
<1>9. CommandInv'
  BY <1>1, <1>2, <1>3, <1>6, <1>7, <1>8, StepCommand
<1>10. vm' \in [by : 0 .. MaxJobs, image : FileSet]
  BY <1>5, Facts DEF PlaceInv
<1>11. ImageTypeOK' /\ FileInv' /\ VerifiedImage' /\ LabTestsConnect' /\ DropletInv' /\ TestsOwnVm'
  BY <1>1, Facts DEF PlaceInv, ImageTypeOK, FileInv, VerifiedImage, LabTestsConnect,
         DropletInv, TestsOwnVm
<1>12. PlaceInv'
  BY <1>1, <1>10, <1>11, Facts DEF PlaceInv
<1> QED BY <1>9, <1>12 DEF IInv

\* The session's tests: a good image answers, and no one else's VM but after a
\* fault.
LEMMA RunTestsIInv ==
  ASSUME IInv, RunTests
  PROVE  IInv'
<1> USE DEF onDroplet, files
<1>1. /\ job.at = "testing" /\ StepTo("shutdown")
      /\ UNCHANGED <<mirror, onDroplet, droplet, inventory, jobs, faults>>
  BY DEF RunTests
<1>2. PICK login \in {vm.image.keyed} \cup IF vm.image.data = "torn" THEN {FALSE} ELSE {} :
        tested' = [kind |-> job.kind, by |-> Answers, login |-> login]
  BY DEF RunTests
<1>3. /\ job.kind # "none" /\ prep.pc = "idle" /\ job.at \notin DownSteps /\ job.kind \in Kinds
  BY <1>1, Facts DEF JobInv, JobSet, BusyInv, DownSteps
<1>4. /\ "shutdown" \in Steps /\ "shutdown" \notin DownSteps /\ "testing" \in TestSteps
  BY DEF Steps, DownSteps, TestSteps
<1>5. job'.at = "shutdown" /\ job'.kind = job.kind /\ job'.todo = job.todo
  BY <1>1, <1>4, Facts, StepToFields
<1>6. BusyInv' /\ DownInv' /\ SequenceInv'
  BY <1>1, <1>3, <1>5 DEF BusyInv, DownInv, SequenceInv
<1>7. VmInv'
  BY <1>1, <1>5, Facts DEF VmInv
<1>8. CommandInv'
  BY <1>1, <1>3, <1>4, <1>6, <1>7, StepCommand
<1>9. vm \in [by : 0 .. MaxJobs, image : FileSet] /\ vm.image.keyed \in BOOLEAN
  <2>1. ASSUME NEW file \in FileSet PROVE file.keyed \in BOOLEAN
    <3>1. CASE file = NoFile
      <4>1. file.keyed = FALSE
        BY <3>1 DEF NoFile
      <4> QED BY <4>1
    <3>2. CASE file # NoFile
      BY <3>2 DEF FileSet
    <3> QED BY <3>1, <3>2
  <2>2. vm \in [by : 0 .. MaxJobs, image : FileSet]
    BY Facts DEF PlaceInv
  <2> QED BY <2>1, <2>2
<1>10. login \in BOOLEAN
  BY <1>9
<1>11. /\ Answers \in {"nobody", "own", "other"} /\ (Answers = "own" => vm.by = jobs)
       /\ Answers = "other" => vm.by # 0 /\ vm.by # jobs
  BY DEF Answers
<1>12. /\ tested' \in [kind : Kinds \cup {"none"}, by : {"nobody", "own", "other"}, login : BOOLEAN]
       /\ tested'.kind = job.kind /\ tested'.by = Answers /\ tested'.login = login
  BY <1>2, <1>3, <1>10, <1>11
<1>13. LabTestsConnect'
  <2>1. SUFFICES ASSUME job.kind = "lab", vm.by = jobs PROVE login
    BY <1>11, <1>12 DEF LabTestsConnect
  <2>2. vm.image.keyed /\ vm.image.data = "whole"
    BY <1>1, <2>1, Facts DEF SequenceInv, Good
  <2> QED BY <2>2
<1>14. TestsOwnVm'
  BY <1>1, <1>11, <1>12, Facts DEF TestsOwnVm, VmInv
<1>15. ImageTypeOK' /\ FileInv' /\ VerifiedImage' /\ DropletInv'
  BY <1>1, Facts DEF PlaceInv, ImageTypeOK, FileInv, VerifiedImage, DropletInv
<1>16. PlaceInv'
  BY <1>1, <1>12, <1>13, <1>14, <1>15, Facts DEF PlaceInv
<1> QED BY <1>8, <1>16 DEF IInv

\* The session is over.
LEMMA LeaveVmIInv ==
  ASSUME IInv, NEW ok \in BOOLEAN, Leave(ok), job.at \in {"shutdown", "kill"},
         vm' \in {vm, NoVm}, faults' \in 0 .. MaxFaults, faults <= faults',
         vm'.by # 0 => faults' > 0,
         UNCHANGED <<mirror, files, tool, keyFile, prep, code, droplet, inventory, jobs, tested>>
  PROVE  IInv'
<1>1. /\ job.kind # "none" /\ prep.pc = "idle" /\ job.at \notin DownSteps /\ job.todo = <<>>
  BY Facts DEF JobInv, BusyInv, DownSteps, TestSteps
<1>2. (tool => tool') /\ faults' \in Nat /\ UNCHANGED <<files, prep, droplet, inventory, jobs>>
  BY LabAssumption
<1>3. CommandInv'
  BY <1>1, <1>2, LeaveCommand, TodosDiffer
<1>4. PlaceInv /\ inventory' \in BOOLEAN /\ jobs' \in 0 .. MaxJobs
  BY Facts
<1>5. PlaceInv'
  BY <1>4, PlaceKept
<1> QED BY <1>3, <1>5 DEF IInv

\* It has ended without a VM of its own.
LEMMA ShutdownIInv ==
  ASSUME IInv, WasDead \/ PowersOff \/ Destroy
  PROVE  IInv'
<1> USE DEF onDroplet
<1>1. job.at \in {"shutdown", "kill"} /\ job.at \notin DownSteps
  BY DEF WasDead, PowersOff, Destroy, DownSteps
<1>2. tested.login \in BOOLEAN /\ NoVm.by = 0
  BY Facts DEF PlaceInv, NoVm
<1>3. PICK ok \in BOOLEAN : Leave(ok)
  BY <1>2 DEF WasDead, PowersOff, Destroy, LeaveVm, Verdict
<1>4. /\ UNCHANGED <<mirror, files, tool, keyFile, prep, code, droplet, inventory, jobs, tested>>
      /\ vm' \in {vm, NoVm}
  BY DEF WasDead, PowersOff, Destroy, LeaveVm
<1>5. \/ faults' = faults /\ vm' = NoVm
      \/ faults' = faults /\ vm' = vm /\ WasDead
      \/ faults < MaxFaults /\ faults' = faults + 1
  BY DEF WasDead, PowersOff, Destroy, LeaveVm
<1>6. faults' \in 0 .. MaxFaults /\ faults <= faults'
  BY <1>5, Facts, LabAssumption
<1>7. vm'.by # 0 => faults' > 0
  <2>1. CASE WasDead
    BY <2>1, Facts DEF WasDead, LeaveVm, VmInv
  <2>2. CASE vm' = NoVm
    BY <1>2, <2>2
  <2>3. CASE faults' = faults + 1
    BY <2>3, Facts
  <2> QED BY <1>5, <2>1, <2>2, <2>3
<1> QED BY <1>1, <1>3, <1>4, <1>6, <1>7, LeaveVmIInv

\* The guest does not power off in time.
LEMMA ShutdownTimesOutIInv ==
  ASSUME IInv, ShutdownTimesOut
  PROVE  IInv'
<1> USE DEF onDroplet
<1>1. /\ job.at = "shutdown" /\ StepTo("kill")
      /\ UNCHANGED <<mirror, onDroplet, droplet, inventory, jobs, faults, tested>>
  BY DEF ShutdownTimesOut
<1>2. /\ job.kind # "none" /\ prep.pc = "idle" /\ job.at \notin DownSteps
  BY <1>1, Facts DEF JobInv, BusyInv, DownSteps
<1>3. /\ "kill" \in Steps /\ "kill" \notin DownSteps /\ "kill" \in TestSteps
      /\ "shutdown" \in TestSteps
  BY DEF Steps, DownSteps, TestSteps
<1>4. job'.at = "kill" /\ job'.kind = job.kind /\ job'.todo = job.todo
  BY <1>1, <1>3, Facts, StepToFields
<1>5. BusyInv' /\ DownInv' /\ SequenceInv'
  BY <1>1, <1>2, <1>4 DEF BusyInv, DownInv, SequenceInv
<1>6. VmInv'
  BY <1>1, <1>4, Facts DEF VmInv
<1>7. CommandInv'
  BY <1>1, <1>2, <1>3, <1>5, <1>6, StepCommand
<1>8. /\ PlaceInv /\ UNCHANGED <<mirror, files, tool, keyFile, prep, code, droplet, tested>>
      /\ vm' \in {vm, NoVm} /\ faults <= faults'
      /\ inventory' \in BOOLEAN /\ jobs' \in 0 .. MaxJobs /\ faults' \in 0 .. MaxFaults
  BY <1>1, Facts
<1>9. PlaceInv'
  BY <1>8, PlaceKept
<1> QED BY <1>7, <1>9 DEF IInv

\* The cloud deletes the Droplet, with all that is on it, or does not.
LEMMA DeleteDropletIInv ==
  ASSUME IInv, DeleteDroplet
  PROVE  IInv'
<1> USE DEF onDroplet, files
<1>1. /\ job.at = "delete" /\ StepTo("forget")
      /\ UNCHANGED <<mirror, inventory, jobs, faults, tested>>
  BY DEF DeleteDroplet
<1>2. job.kind # "none" /\ job.at \in DownSteps
  BY <1>1, Facts DEF JobInv, DownSteps
<1>3. "forget" \in Steps /\ "forget" \in DownSteps /\ "forget" \notin TestSteps
  BY DEF Steps, DownSteps, TestSteps
<1>4. job'.at = "forget" /\ job'.kind = job.kind /\ job'.todo = job.todo
  BY <1>1, <1>3, Facts, StepToFields
<1>5. DownInv' /\ SequenceInv'
  BY <1>4 DEF DownInv, SequenceInv
<1>6. /\ (job.todo # <<>> => vm.by < jobs) /\ (vm.by # 0 => faults > 0) /\ vm.by <= jobs
      /\ (prep.pc # "idle" => job.todo = <<>>)
  BY <1>1, Facts DEF VmInv, BusyInv
<1>7. CASE /\ droplet' = "none"
           /\ out' = NoFile /\ tmp' = NoFile /\ tool' = FALSE /\ keyFile' = FALSE
           /\ prep' = NoRun /\ code' = FALSE /\ vm' = NoVm
  <2>1. /\ prep'.pc = "idle" /\ vm'.by = 0 /\ NoFile \in FileSet /\ ~NoFile.is
    BY <1>7 DEF NoRun, NoVm, FileSet, NoFile
  <2>2. BusyInv' /\ VmInv'
    BY <1>1, <1>4, <1>6, <2>1, Facts DEF BusyInv, VmInv
  <2>3. CommandInv'
    BY <1>1, <1>2, <1>3, <1>5, <2>2, StepCommand
  <2>4. prep' \in Runs
    <3>1. 0 \in 0 .. MaxRelease
      BY ReleaseAssumption
    <3> QED BY <1>7, <3>1 DEF NoRun, Runs
  <2>5. ImageTypeOK'
    BY <1>1, <1>7, <2>1, <2>4, Facts DEF ImageTypeOK, Runs
  <2>6. FileInv' /\ VerifiedImage' /\ DropletInv'
    BY <1>7, <2>1 DEF FileInv, VerifiedImage, DropletInv
  <2>7. vm' \in [by : 0 .. MaxJobs, image : FileSet]
    <3>1. 0 \in 0 .. MaxJobs
      BY LabAssumption
    <3> QED BY <1>7, <2>1, <3>1 DEF NoVm
  <2>8. LabTestsConnect' /\ TestsOwnVm'
    BY <1>1, Facts DEF PlaceInv, LabTestsConnect, TestsOwnVm
  <2>9. PlaceInv'
    BY <1>1, <1>7, <2>5, <2>6, <2>7, <2>8, Facts DEF PlaceInv
  <2> QED BY <2>3, <2>9 DEF IInv
<1>8. CASE UNCHANGED <<droplet, onDroplet>>
  <2>1. BusyInv' /\ VmInv'
    BY <1>1, <1>3, <1>4, <1>6, <1>8, Facts DEF BusyInv, VmInv
  <2>2. CommandInv'
    BY <1>1, <1>2, <1>3, <1>5, <2>1, StepCommand
  <2>3. /\ PlaceInv /\ UNCHANGED <<mirror, files, tool, keyFile, prep, code, droplet, tested>>
        /\ vm' \in {vm, NoVm} /\ faults <= faults'
        /\ inventory' \in BOOLEAN /\ jobs' \in 0 .. MaxJobs /\ faults' \in 0 .. MaxFaults
    BY <1>1, <1>8, Facts
  <2>4. PlaceInv'
    BY <2>3, PlaceKept
  <2> QED BY <2>2, <2>4 DEF IInv
<1> QED BY <1>7, <1>8 DEF DeleteDroplet

\* The inventory is removed.
LEMMA RemoveInventoryIInv ==
  ASSUME IInv, RemoveInventory
  PROVE  IInv'
<1> USE DEF onDroplet
<1>1. /\ job.at = "forget" /\ StepTo("verify") /\ inventory' = FALSE
      /\ UNCHANGED <<mirror, onDroplet, droplet, jobs, faults, tested>>
  BY DEF RemoveInventory
<1>2. job.kind # "none" /\ job.at \in DownSteps
  BY <1>1, Facts DEF JobInv, DownSteps
<1>3. "verify" \in Steps /\ "verify" \in DownSteps /\ "verify" \notin TestSteps
  BY DEF Steps, DownSteps, TestSteps
<1>4. job'.at = "verify" /\ job'.kind = job.kind /\ job'.todo = job.todo
  BY <1>1, <1>3, Facts, StepToFields
<1>5. DownInv' /\ SequenceInv'
  BY <1>1, <1>4 DEF DownInv, SequenceInv
<1>6. BusyInv' /\ VmInv'
  BY <1>1, <1>3, <1>4, Facts DEF BusyInv, VmInv
<1>7. CommandInv'
  BY <1>1, <1>2, <1>3, <1>5, <1>6, StepCommand
<1>8. /\ PlaceInv /\ UNCHANGED <<mirror, files, tool, keyFile, prep, code, droplet, tested>>
      /\ vm' \in {vm, NoVm} /\ faults <= faults'
      /\ jobs' \in 0 .. MaxJobs /\ faults' \in 0 .. MaxFaults
  BY <1>1, Facts
<1>9. inventory' \in BOOLEAN
  BY <1>1
<1>10. PlaceInv'
  BY <1>8, <1>9, PlaceKept
<1> QED BY <1>7, <1>10 DEF IInv

\* The operator starts a command.
LEMMA StartJobIInv ==
  ASSUME IInv, NEW kind \in Kinds, StartJob(kind)
  PROVE  IInv'
<1> USE DEF onDroplet
<1>1. /\ job.kind = "none" /\ prep.pc = "idle" /\ jobs < MaxJobs /\ jobs' = jobs + 1
      /\ UNCHANGED <<mirror, onDroplet, droplet, inventory, last, faults, tested>>
  BY DEF StartJob
<1>2. /\ job \in JobSet /\ ~job.term /\ job.at = "-" /\ (vm.by # 0 => faults > 0) /\ vm.by < jobs'
  BY <1>1, Facts DEF JobInv, VmInv
<1>3. 0 \in 0 .. 2
  OBVIOUS
<1>4. PlaceInv'
  <2>1. /\ PlaceInv /\ UNCHANGED <<mirror, files, tool, keyFile, prep, code, droplet, tested>>
        /\ vm' \in {vm, NoVm} /\ faults <= faults'
        /\ inventory' \in BOOLEAN /\ jobs' \in 0 .. MaxJobs /\ faults' \in 0 .. MaxFaults
    BY <1>1, Facts, LabAssumption
  <2> QED BY <2>1, PlaceKept
<1>5. CASE kind = "lab"
  <2>1. job' = [Begin(<<"lab-up", "lab-image", "lab-test">>) EXCEPT !.kind = kind]
    BY <1>5 DEF StartJob
  <2>2. /\ Tail(<<"lab-up", "lab-image", "lab-test">>) = <<"lab-image", "lab-test">>
        /\ Head(<<"lab-up", "lab-image", "lab-test">>) = "lab-up"
        /\ <<"lab-image", "lab-test">> \in Todos
    BY DEF Todos
  <2>3. FirstStep["lab-up"] = "create" /\ "create" \in Steps /\ kind \in Kinds \cup {"none"}
    BY DEF FirstStep, Recipes, Steps
  <2>4. /\ job' \in JobSet /\ job'.kind = "lab" /\ job'.at = "create" /\ job'.term = job.term
    BY <1>2, <1>3, <1>5, <2>1, <2>2, <2>3 DEF Begin, JobSet
  <2>5. JobInv'
    BY <2>4 DEF JobInv, DownSteps, TestSteps
  <2>6. BusyInv' /\ SequenceInv' /\ DownInv' /\ NoResidual'
    BY <1>1, <2>4 DEF BusyInv, SequenceInv, DownInv, NoResidual
  <2>7. VmInv'
    BY <1>1, <1>2, Facts DEF VmInv
  <2> QED BY <1>1, <2>5, <2>6, <2>7, <1>4, Facts DEF CommandInv, IInv
<1>6. CASE kind # "lab"
  <2>1. job' = [Begin(<<kind>>) EXCEPT !.kind = kind]
    BY <1>6 DEF StartJob
  <2>2. Tail(<<kind>>) = <<>> /\ Head(<<kind>>) = kind /\ <<>> \in Todos
    BY DEF Todos
  <2>3. /\ kind \in Recipes /\ FirstStep[kind] \in {"create", "push", "guard", "delete", "hand"}
        /\ kind = "lab-down" <=> FirstStep[kind] = "delete"
    BY <1>6 DEF FirstStep, Recipes, Kinds
  <2>4. FirstStep[kind] \in Steps /\ kind \in Kinds \cup {"none"}
    BY <2>3 DEF Steps, DownSteps
  <2>5. /\ job' \in JobSet /\ job'.kind = kind /\ job'.at = FirstStep[kind]
        /\ job'.term = job.term /\ job'.todo = <<>> /\ job'.traps = 0
    BY <1>2, <1>3, <1>6, <2>1, <2>2, <2>4 DEF Begin, JobSet
  <2>6. kind # "none"
    BY DEF Kinds, Recipes
  <2>7. JobInv'
    BY <1>2, <1>6, <2>3, <2>5, <2>6, TodosDiffer DEF JobInv, DownSteps, TestSteps
  <2>8. BusyInv' /\ SequenceInv' /\ DownInv' /\ NoResidual'
    BY <1>1, <1>6, <2>3, <2>5, <2>6 DEF BusyInv, SequenceInv, DownInv, NoResidual
  <2>9. VmInv'
    BY <1>1, <1>2, Facts DEF VmInv
  <2> QED BY <1>1, <2>7, <2>8, <2>9, <1>4, Facts DEF CommandInv, IInv
<1> QED BY <1>5, <1>6

\* The command loses its connection to the Droplet.
LEMMA DisconnectPlace ==
  ASSUME IInv, Disconnect
  PROVE  /\ PlaceInv' /\ job.kind # "none" /\ vm' \in {vm, NoVm}
         /\ faults' \in Nat /\ faults' > 0
         /\ UNCHANGED <<mirror, files, tool, keyFile, prep, code, droplet, inventory, jobs, tested>>
<1>1. /\ job.kind # "none" /\ faults < MaxFaults /\ faults' = faults + 1 /\ vm' \in {vm, NoVm}
      /\ UNCHANGED <<mirror, files, tool, keyFile, prep, code, droplet, inventory, jobs, tested>>
  BY DEF Disconnect
<1>2. /\ PlaceInv /\ faults <= faults' /\ faults' \in 0 .. MaxFaults /\ faults' > 0
      /\ faults' \in Nat /\ inventory' \in BOOLEAN /\ jobs' \in 0 .. MaxJobs
  BY <1>1, Facts, LabAssumption
<1>3. PlaceInv'
  BY <1>1, <1>2, PlaceKept
<1> QED BY <1>1, <1>2, <1>3

\* It ends there, and has said that it failed or was killed.
LEMMA CutOffIInv ==
  ASSUME IInv, Disconnect, NEW how \in {"failed", "killed"}, NEW down \in {"none", "failed"},
         EndJob(how, down),
         job.kind \in {"lab", "lab-down"} => how = "killed" \/ down = "failed"
  PROVE  IInv'
<1>1. /\ job' \in JobSet /\ job'.kind = "none" /\ job'.at = "-" /\ job'.todo = <<>>
      /\ job'.traps = 0 /\ ~job'.term
      /\ last' = [kind |-> job.kind, how |-> how, down |-> down]
  BY EndJobFields
<1>2. JobInv'
  BY <1>1 DEF JobInv, DownSteps, TestSteps
<1>3. last'.kind = job.kind /\ last'.how = how /\ last'.down = down
  BY <1>1
<1>4. NoResidual'
  BY <1>3 DEF NoResidual
<1>5. BusyInv' /\ DownInv' /\ SequenceInv'
  BY <1>1 DEF BusyInv, DownInv, SequenceInv
<1>6. vm'.by <= jobs' /\ faults' > 0
  BY DisconnectPlace, Facts DEF VmInv, NoVm
<1>7. VmInv'
  BY <1>1, <1>6 DEF VmInv
<1>8. job.kind \in Kinds \cup {"none"}
  BY Facts DEF JobSet
<1>9. last' \in [kind : Kinds \cup {"none"}, how : {"none", "ok", "failed", "killed"},
                 down : {"none", "ok", "failed"}]
  BY <1>1, <1>8
<1> QED BY <1>2, <1>4, <1>5, <1>7, <1>9, DisconnectPlace DEF IInv, CommandInv

\* Ctrl-C.
LEMMA InterruptIInv ==
  ASSUME IInv, Interrupt
  PROVE  IInv'
<1>1. Disconnect
  BY DEF Interrupt
<1>2. CASE job.kind = "lab" /\ RunTrap(<<>>, IF job.traps = 1 THEN 1 ELSE 2)
  <2>1. PICK n \in 1 .. 2 : RunTrap(<<>>, n)
    BY <1>2
  <2>2. <<>> \in Todos
    BY DEF Todos
  <2>3. /\ job' \in JobSet /\ job'.at = "delete" /\ last' = last
        /\ job'.kind = job.kind /\ job'.todo = <<>> /\ job'.traps # 0 /\ ~job'.term
    BY <2>1, <2>2, Facts, RunTrapFields
  <2>4. JobInv'
    BY <1>2, <2>3 DEF JobInv, DownSteps, TestSteps
  <2>5. BusyInv' /\ DownInv' /\ SequenceInv' /\ NoResidual'
    BY <1>2, <2>3 DEF BusyInv, DownInv, SequenceInv, NoResidual, DownSteps
  <2>6. vm'.by <= jobs' /\ faults' > 0
    BY <1>1, DisconnectPlace, Facts DEF VmInv, NoVm
  <2>7. VmInv'
    BY <2>3, <2>6 DEF VmInv
  <2> QED BY <1>1, <2>3, <2>4, <2>5, <2>7, DisconnectPlace, Facts DEF IInv, CommandInv
<1>3. CASE job.kind = "lab" /\ job.traps = 1 /\ EndJob("failed", "failed")
  BY <1>1, <1>3, CutOffIInv
<1>4. CASE job.kind # "lab" /\ EndJob("failed", IF job.kind = "lab-down" THEN "failed" ELSE "none")
  <2>1. CASE job.kind = "lab-down"
    <3>1. EndJob("failed", "failed")
      BY <1>4, <2>1
    <3> QED BY <1>1, <3>1, CutOffIInv
  <2>2. CASE job.kind # "lab-down"
    <3>1. EndJob("failed", "none")
      BY <1>4, <2>2
    <3> QED BY <1>1, <1>4, <2>2, <3>1, CutOffIInv
  <2> QED BY <2>1, <2>2
<1> QED BY <1>2, <1>3, <1>4 DEF Interrupt

\* SIGKILL.
LEMMA KilledIInv ==
  ASSUME IInv, Killed
  PROVE  IInv'
BY CutOffIInv DEF Killed

\* TERM waits for the recipe.
LEMMA TerminateIInv ==
  ASSUME IInv, Terminate
  PROVE  IInv'
<1> USE DEF onDroplet, files
<1>1. /\ job.kind = "lab" /\ job.traps = 0 /\ faults < MaxFaults /\ faults' = faults + 1
      /\ job' = [job EXCEPT !.term = TRUE]
      /\ UNCHANGED <<mirror, onDroplet, droplet, inventory, last, jobs, tested>>
  BY DEF Terminate
<1>2. /\ job' \in JobSet /\ job'.at = job.at /\ job'.kind = job.kind /\ job'.todo = job.todo
      /\ job'.traps = job.traps
  BY <1>1, Facts DEF JobSet
<1>3. JobInv'
  BY <1>1, <1>2, Facts DEF JobInv
<1>4. BusyInv' /\ DownInv' /\ SequenceInv' /\ NoResidual'
  BY <1>1, <1>2, Facts DEF BusyInv, DownInv, SequenceInv, NoResidual, Good
<1>5. faults' \in Nat /\ faults' > 0 /\ faults' \in 0 .. MaxFaults /\ faults <= faults'
  BY <1>1, Facts, LabAssumption
<1>6. VmInv'
  BY <1>1, <1>2, <1>5, Facts DEF VmInv
<1>7. /\ PlaceInv /\ UNCHANGED <<mirror, files, tool, keyFile, prep, code, droplet, tested>>
      /\ vm' \in {vm, NoVm} /\ inventory' \in BOOLEAN /\ jobs' \in 0 .. MaxJobs
  BY <1>1, Facts
<1>8. PlaceInv'
  BY <1>5, <1>7, PlaceKept
<1> QED BY <1>1, <1>3, <1>4, <1>6, <1>8, Facts DEF IInv, CommandInv

\* The Droplet comes up, empty.
LEMMA DropletBootsIInv ==
  ASSUME IInv, DropletBoots
  PROVE  IInv'
<1> USE DEF onDroplet, files
<1>1. /\ droplet = "new" /\ droplet' = "active"
      /\ UNCHANGED <<mirror, onDroplet, inventory, job, last, jobs, faults, tested>>
  BY DEF DropletBoots
<1>2. JobInv' /\ BusyInv' /\ DownInv' /\ SequenceInv' /\ VmInv'
  BY <1>1, Facts DEF JobInv, BusyInv, DownInv, SequenceInv, VmInv, Good
<1>3. NoResidual'
  BY <1>1, Facts DEF NoResidual
<1>4. DropletInv' /\ LabTestsConnect' /\ TestsOwnVm'
  BY <1>1, Facts DEF PlaceInv, DropletInv, LabTestsConnect, TestsOwnVm
<1>5. ImageTypeOK' /\ FileInv' /\ VerifiedImage'
  BY <1>1, Facts DEF PlaceInv, ImageTypeOK, FileInv, VerifiedImage
<1>6. PlaceInv'
  BY <1>1, <1>4, <1>5, Facts DEF PlaceInv
<1> QED BY <1>1, <1>2, <1>3, <1>6, Facts DEF IInv, CommandInv

\* The mirror has a new release.
LEMMA PublishingIInv ==
  ASSUME IInv, Publishing
  PROVE  IInv'
<1> USE DEF files
<1>1. /\ mirror < MaxRelease /\ mirror' = mirror + 1 /\ UNCHANGED <<files, tool, keyFile, prep>>
      /\ UNCHANGED <<code, vm, droplet, inventory, job, last, jobs, faults, tested>>
  BY DEF Publishing, NewRelease
<1>2. mirror' \in Releases
  BY <1>1, Facts, ReleaseAssumption DEF ImageTypeOK, Releases
<1>3. CommandInv'
  BY <1>1, Facts DEF CommandInv, JobInv, BusyInv, DownInv, SequenceInv, VmInv, Good, NoResidual
<1>4. ImageTypeOK' /\ FileInv' /\ VerifiedImage' /\ DropletInv' /\ LabTestsConnect' /\ TestsOwnVm'
  BY <1>1, <1>2, Facts DEF PlaceInv, ImageTypeOK, FileInv, VerifiedImage, DropletInv,
         LabTestsConnect, TestsOwnVm
<1>5. PlaceInv'
  BY <1>1, <1>4, Facts DEF PlaceInv
<1> QED BY <1>3, <1>5 DEF IInv

-----------------------------------------------------------------------------
(***************************************************************************)
(* The preparation.                                                        *)
(***************************************************************************)
\* It goes on, or returns.
LEMMA GotoFields ==
  ASSUME prep \in Runs,
         NEW pc \in {"idle", "sums", "open", "copy", "verify", "rename", "customize", "retry"},
         Goto(pc)
  PROVE  prep' \in Runs /\ prep'.pc = pc /\ prep'.customize = prep.customize
BY DEF Goto, Runs

\* It returns.
LEMMA ReturnsFields ==
  ASSUME prep \in Runs, NEW res \in {"ready", "failed", "died"}, Returns(res)
  PROVE  /\ prep' \in Runs /\ prep'.pc = "idle" /\ prep'.result = res
         /\ prep'.customize = prep.customize
<1>1. 0 \in 0 .. MaxRelease
  BY ReleaseAssumption
<1> QED BY <1>1 DEF Returns, Runs

\* A file that is there.
LEMMA FileThere ==
  ASSUME NEW file \in FileSet, file.is
  PROVE  file \in [is : {TRUE}, rel : Releases, data : {"part", "whole", "torn"}, keyed : BOOLEAN]
<1>1. ~NoFile.is
  BY DEF NoFile
<1>2. file # NoFile
  BY <1>1
<1> QED BY <1>2 DEF FileSet

\* It may be written to, ...
LEMMA FileWritten ==
  ASSUME NEW file \in FileSet, file.is, NEW d \in {"part", "whole"}
  PROVE  [file EXCEPT !.data = d] \in FileSet /\ [file EXCEPT !.data = d].is
BY FileThere DEF FileSet

\* ... be given the key, ...
LEMMA FileKeyed ==
  ASSUME NEW file \in FileSet, file.is, NEW k \in BOOLEAN
  PROVE  /\ [file EXCEPT !.keyed = k] \in FileSet /\ [file EXCEPT !.keyed = k].is
         /\ [file EXCEPT !.keyed = k].data = file.data /\ [file EXCEPT !.keyed = k].keyed = k
BY FileThere DEF FileSet

\* ... and be torn.
LEMMA FileTorn ==
  ASSUME NEW file \in FileSet, file.is, NEW k \in BOOLEAN
  PROVE  /\ [file EXCEPT !.data = "torn", !.keyed = k] \in FileSet
         /\ [file EXCEPT !.data = "torn", !.keyed = k].data = "torn"
BY FileThere DEF FileSet

\* What one step of a preparation, or its death, does: it has checked what it
\* renames, and what it says it has prepared has the key.
PrepKept ==
  /\ prep.pc # "idle" /\ UNCHANGED <<mirror, tool, keyFile>>
  /\ out' \in FileSet /\ tmp' \in FileSet /\ prep' \in Runs /\ prep'.customize = prep.customize
  /\ FileInv' /\ VerifiedImage'
  /\ prep'.pc = "idle" /\ prep'.result = "ready" /\ prep.customize /\ tool /\ keyFile => Good(out')

\* The download.
LEMMA DownloadKept ==
  ASSUME ImageTypeOK, FileInv, VerifiedImage, FetchSums \/ OpenTmp \/ EndCopy \/ DownloadFails
  PROVE  PrepKept
<1> USE DEF files
<1>1. prep \in Runs /\ out \in FileSet /\ tmp \in FileSet /\ mirror \in Releases
  BY DEF ImageTypeOK, Runs
<1>2. CASE FetchSums
  <2>1. mirror \in 0 .. MaxRelease
    BY <1>1, ReleaseAssumption DEF Releases
  <2>2. prep' \in Runs /\ prep'.pc = "open" /\ prep'.customize = prep.customize
    BY <1>1, <1>2, <2>1 DEF FetchSums, Runs
  <2>3. prep.pc # "idle" /\ UNCHANGED <<mirror, out, tmp, tool, keyFile>>
    BY <1>2 DEF FetchSums
  <2>4. FileInv' /\ VerifiedImage'
    BY <2>2, <2>3 DEF FileInv, VerifiedImage
  <2> QED BY <1>1, <2>2, <2>3, <2>4 DEF PrepKept
<1>3. CASE OpenTmp
  <2>1. prep' \in Runs /\ prep'.pc = "copy" /\ prep'.customize = prep.customize
    BY <1>1, <1>3, GotoFields DEF OpenTmp
  <2>2. prep.pc # "idle" /\ UNCHANGED <<mirror, out, tool, keyFile>>
    BY <1>3 DEF OpenTmp
  <2>3. tmp' \in FileSet /\ tmp'.is
    BY <1>1, <1>3 DEF OpenTmp, FileSet
  <2>4. FileInv' /\ VerifiedImage'
    BY <2>1, <2>2, <2>3 DEF FileInv, VerifiedImage
  <2> QED BY <1>1, <2>1, <2>2, <2>3, <2>4 DEF PrepKept
<1>4. CASE EndCopy
  <2>1. prep' \in Runs /\ prep'.pc = "verify" /\ prep'.customize = prep.customize
    BY <1>1, <1>4, GotoFields DEF EndCopy
  <2>2. prep.pc = "copy" /\ UNCHANGED <<mirror, out, tool, keyFile>>
    BY <1>4 DEF EndCopy
  <2>3. PICK d \in {"part", "whole"} : tmp' = [tmp EXCEPT !.data = d]
    BY <1>4 DEF EndCopy
  <2>4. tmp.is
    BY <2>2 DEF FileInv
  <2>5. tmp' \in FileSet /\ tmp'.is
    BY <1>1, <2>3, <2>4, FileWritten
  <2>6. FileInv' /\ VerifiedImage'
    BY <2>1, <2>2, <2>5 DEF FileInv, VerifiedImage
  <2> QED BY <1>1, <2>1, <2>2, <2>5, <2>6 DEF PrepKept
<1>5. CASE DownloadFails
  <2>1. /\ prep' \in Runs /\ prep'.pc = "idle" /\ prep'.result = "failed"
        /\ prep'.customize = prep.customize
    BY <1>1, <1>5, ReturnsFields DEF DownloadFails
  <2>2. prep.pc # "idle" /\ UNCHANGED <<mirror, out, tool, keyFile>>
    BY <1>5 DEF DownloadFails
  <2>3. tmp' \in FileSet
    BY <1>1, <1>5 DEF DownloadFails, FileSet
  <2>4. FileInv' /\ VerifiedImage'
    BY <2>1, <2>2 DEF FileInv, VerifiedImage
  <2> QED BY <1>1, <2>1, <2>2, <2>3, <2>4 DEF PrepKept
<1> QED BY <1>2, <1>3, <1>4, <1>5

\* The digest and the rename.
LEMMA PlacingKept ==
  ASSUME ImageTypeOK, FileInv, VerifiedImage, VerifyDigest \/ Rename
  PROVE  PrepKept
<1>1. prep \in Runs /\ out \in FileSet /\ tmp \in FileSet /\ NoFile \in FileSet
  BY DEF ImageTypeOK, Runs, FileSet
<1>2. CASE VerifyDigest /\ DigestMatches /\ Goto("rename") /\ UNCHANGED tmp
  <2>1. prep' \in Runs /\ prep'.pc = "rename" /\ prep'.customize = prep.customize
    BY <1>1, <1>2, GotoFields
  <2>2. prep.pc # "idle" /\ UNCHANGED <<mirror, out, tmp, tool, keyFile>>
    BY <1>2 DEF VerifyDigest
  <2>3. FileInv' /\ VerifiedImage'
    BY <1>2, <2>1, <2>2 DEF FileInv, VerifiedImage, DigestMatches
  <2> QED BY <1>1, <2>1, <2>2, <2>3 DEF PrepKept
<1>3. CASE VerifyDigest /\ Returns("failed") /\ tmp' = NoFile
  <2>1. /\ prep' \in Runs /\ prep'.pc = "idle" /\ prep'.result = "failed"
        /\ prep'.customize = prep.customize
    BY <1>1, <1>3, ReturnsFields
  <2>2. prep.pc # "idle" /\ UNCHANGED <<mirror, out, tool, keyFile>>
    BY <1>3 DEF VerifyDigest
  <2>3. FileInv' /\ VerifiedImage'
    BY <2>1, <2>2 DEF FileInv, VerifiedImage
  <2> QED BY <1>1, <1>3, <2>1, <2>2, <2>3 DEF PrepKept
<1>4. CASE Rename
  <2>1. prep.pc = "rename" /\ out' = tmp /\ tmp' = NoFile /\ UNCHANGED <<mirror, tool, keyFile>>
    BY <1>4 DEF Rename
  <2>2. out'.is /\ out'.data = "whole"
    BY <2>1 DEF FileInv
  <2>3. VerifiedImage'
    BY <2>2 DEF VerifiedImage
  <2>4. CASE prep.customize
    <3>1. prep' \in Runs /\ prep'.pc = "customize" /\ prep'.customize = prep.customize
      BY <1>1, <1>4, <2>4, GotoFields DEF Rename
    <3>2. FileInv'
      BY <2>2, <3>1 DEF FileInv
    <3> QED BY <1>1, <2>1, <2>3, <3>1, <3>2 DEF PrepKept
  <2>5. CASE ~prep.customize
    <3>1. /\ prep' \in Runs /\ prep'.pc = "idle" /\ prep'.customize = prep.customize
      BY <1>1, <1>4, <2>5, ReturnsFields DEF Rename
    <3>2. FileInv'
      BY <3>1 DEF FileInv
    <3> QED BY <1>1, <2>1, <2>3, <2>5, <3>1, <3>2 DEF PrepKept
  <2> QED BY <2>4, <2>5
<1> QED BY <1>2, <1>3, <1>4 DEF VerifyDigest

\* virt-customize: a call that succeeds has put the key in.
LEMMA CustomizingKept ==
  ASSUME ImageTypeOK, FileInv, VerifiedImage, VirtCustomize
  PROVE  PrepKept
<1>1. /\ prep \in Runs /\ out \in FileSet /\ tmp \in FileSet
      /\ prep.pc \in {"customize", "retry"} /\ out.is /\ out.data = "whole"
      /\ UNCHANGED <<mirror, tmp, tool, keyFile>>
  BY DEF ImageTypeOK, Runs, VirtCustomize, FileInv
<1>2. PICK k \in BOOLEAN : k = (out.keyed \/ keyFile)
  OBVIOUS
<1>3. ASSUME NEW ok \in BOOLEAN, Customized(ok)
      PROVE  out' \in FileSet /\ out'.is /\ out'.data = "whole" /\ (ok /\ keyFile => out'.keyed)
  <2>1. CASE out' = [out EXCEPT !.keyed = @ \/ keyFile]
    <3>1. out' = [out EXCEPT !.keyed = k]
      BY <1>2, <2>1
    <3> QED BY <1>1, <1>2, <3>1, FileKeyed
  <2>2. CASE ~ok /\ UNCHANGED out
    BY <1>1, <2>2
  <2> QED BY <1>3, <2>1, <2>2 DEF Customized
<1>4. CASE ~tool /\ Returns("ready") /\ UNCHANGED out
  <2>1. /\ prep' \in Runs /\ prep'.pc = "idle" /\ prep'.customize = prep.customize
    BY <1>1, <1>4, ReturnsFields
  <2>2. FileInv' /\ VerifiedImage'
    BY <1>1, <1>4, <2>1 DEF FileInv, VerifiedImage
  <2> QED BY <1>1, <1>4, <2>1, <2>2 DEF PrepKept
<1>5. CASE tool /\ Customized(TRUE) /\ Returns("ready")
  <2>1. /\ prep' \in Runs /\ prep'.pc = "idle" /\ prep'.customize = prep.customize
    BY <1>1, <1>5, ReturnsFields
  <2>2. out' \in FileSet /\ out'.is /\ out'.data = "whole" /\ (keyFile => out'.keyed)
    BY <1>3, <1>5
  <2>3. FileInv' /\ VerifiedImage'
    BY <2>1, <2>2 DEF FileInv, VerifiedImage
  <2> QED BY <1>1, <2>1, <2>2, <2>3 DEF PrepKept, Good
<1>6. CASE /\ Customized(FALSE)
           /\ IF prep.pc = "customize" THEN Goto("retry") ELSE Returns("failed")
  <2>1. out' \in FileSet /\ out'.is /\ out'.data = "whole"
    BY <1>3, <1>6
  <2>2. CASE Goto("retry")
    <3>1. prep' \in Runs /\ prep'.pc = "retry" /\ prep'.customize = prep.customize
      BY <1>1, <2>2, GotoFields
    <3>2. FileInv' /\ VerifiedImage'
      BY <2>1, <3>1 DEF FileInv, VerifiedImage
    <3> QED BY <1>1, <2>1, <3>1, <3>2 DEF PrepKept
  <2>3. CASE Returns("failed")
    <3>1. /\ prep' \in Runs /\ prep'.pc = "idle" /\ prep'.result = "failed"
          /\ prep'.customize = prep.customize
      BY <1>1, <2>3, ReturnsFields
    <3>2. FileInv' /\ VerifiedImage'
      BY <2>1, <3>1 DEF FileInv, VerifiedImage
    <3> QED BY <1>1, <2>1, <3>1, <3>2 DEF PrepKept
  <2> QED BY <1>6, <2>2, <2>3
<1> QED BY <1>4, <1>5, <1>6 DEF VirtCustomize

\* Its death leaves at worst a torn image, and never says that it is ready.
LEMMA DieKept ==
  ASSUME ImageTypeOK, FileInv, VerifiedImage, Die
  PROVE  PrepKept
<1>1. /\ prep \in Runs /\ out \in FileSet /\ tmp \in FileSet /\ prep.pc # "idle"
      /\ UNCHANGED <<mirror, tmp, tool, keyFile>>
  BY DEF ImageTypeOK, Runs, Die
<1>2. /\ prep' \in Runs /\ prep'.pc = "idle" /\ prep'.result = "died"
      /\ prep'.customize = prep.customize
  BY <1>1, ReturnsFields DEF Die
<1>3. FileInv'
  BY <1>2 DEF FileInv
<1>4. CASE UNCHANGED out
  <2>1. VerifiedImage'
    BY <1>4 DEF VerifiedImage
  <2> QED BY <1>1, <1>2, <1>3, <1>4, <2>1 DEF PrepKept
<1>5. CASE /\ prep.pc \in {"customize", "retry"}
           /\ \E k \in {out.keyed, out.keyed \/ keyFile} :
                out' = [out EXCEPT !.data = "torn", !.keyed = k]
  <2>1. out.is /\ out.keyed \in BOOLEAN
    <3>1. out.is
      BY <1>5 DEF FileInv
    <3> QED BY <1>1, <3>1, FileThere
  <2>2. PICK k \in BOOLEAN : out' = [out EXCEPT !.data = "torn", !.keyed = k]
    BY <1>5, <2>1
  <2>3. out' \in FileSet /\ out'.data = "torn"
    BY <1>1, <2>1, <2>2, FileTorn
  <2>4. VerifiedImage'
    BY <2>3 DEF VerifiedImage
  <2> QED BY <1>1, <1>2, <1>3, <2>3, <2>4 DEF PrepKept
<1> QED BY <1>4, <1>5 DEF Die

\* So the invariant is kept: no command but the preparation's own, or one that
\* came after it was cut off, looks at the image meanwhile.
LEMMA PrepIInv ==
  ASSUME IInv, PrepKept, faults' \in 0 .. MaxFaults, faults <= faults',
         UNCHANGED <<code, vm, droplet, inventory, job, last, jobs, tested>>
  PROVE  IInv'
<1>1. /\ prep.pc # "idle" /\ UNCHANGED <<mirror, tool, keyFile>>
      /\ out' \in FileSet /\ tmp' \in FileSet /\ prep' \in Runs
      /\ prep'.customize = prep.customize /\ FileInv' /\ VerifiedImage'
  BY DEF PrepKept
<1>2. /\ job.at \in {"preparing", "-"} \/ (job.at \in DownSteps /\ job.todo = <<>>)
      /\ droplet = "active"
      /\ job.at \notin {"tools", "push", "prepare", "guard", "launch", "testing"}
  BY <1>1, Facts DEF BusyInv, DropletInv, DownSteps
<1>3. JobInv' /\ DownInv' /\ NoResidual'
  BY Facts DEF JobInv, DownInv, NoResidual
<1>4. BusyInv'
  BY <1>2 DEF BusyInv
<1>5. VmInv'
  <2>1. faults' \in Nat
    BY LabAssumption
  <2> QED BY <2>1, Facts DEF VmInv
<1>6. SequenceInv'
  <2>1. job.kind = "lab" /\ job.at = "preparing" => tool /\ keyFile /\ prep.customize
    BY Facts DEF SequenceInv
  <2> QED BY <1>1, <1>2, <2>1 DEF SequenceInv, PrepKept, Good
<1>7. CommandInv'
  BY <1>3, <1>4, <1>5, <1>6, Facts DEF CommandInv
<1>8. ImageTypeOK'
  BY <1>1, Facts DEF ImageTypeOK, Runs
<1>9. DropletInv' /\ LabTestsConnect'
  BY <1>2, Facts DEF DropletInv, PlaceInv, LabTestsConnect
<1>10. TestsOwnVm'
  <2>1. faults' \in Nat
    BY LabAssumption
  <2> QED BY <2>1, Facts DEF PlaceInv, TestsOwnVm
<1>11. PlaceInv'
  BY <1>1, <1>8, <1>9, <1>10, Facts DEF PlaceInv
<1> QED BY <1>7, <1>11 DEF IInv

\* Every step of a preparation, in these words.
LEMMA PrepStepKept ==
  ASSUME IInv, Preparing \/ PrepareDies
  PROVE  PrepKept
<1>1. ImageTypeOK /\ FileInv /\ VerifiedImage
  BY Facts DEF PlaceInv
<1> QED BY <1>1, DownloadKept, PlacingKept, CustomizingKept, DieKept
        DEF Preparing, PrepareDies, PrepStep

-----------------------------------------------------------------------------
(***************************************************************************)
(* The theorems.                                                           *)
(***************************************************************************)

\* Nothing is there at first.
LEMMA InitIInv ==
  ASSUME LabInit
  PROVE  IInv
<1> USE LabAssumption, ReleaseAssumption
<1>1. 0 \in 0 .. MaxJobs /\ 0 \in 0 .. MaxFaults /\ 0 \in 0 .. MaxRelease /\ 1 \in Releases
  BY DEF Releases
<1>2. NoFile \in FileSet /\ ~NoFile.is /\ NoVm.by = 0 /\ NoRun.pc = "idle"
  BY DEF FileSet, NoFile, NoVm, NoRun
<1>3. NoVm \in [by : 0 .. MaxJobs, image : FileSet]
  BY <1>1, <1>2 DEF NoVm
<1>4. ImageTypeOK
  BY <1>1, <1>2 DEF LabInit, ImageInit, ImageTypeOK, NoRun
<1>5. FileInv /\ DropletInv /\ VerifiedImage
  BY <1>2 DEF LabInit, ImageInit, FileInv, DropletInv, VerifiedImage
<1>6. /\ tested \in [kind : Kinds \cup {"none"}, by : {"nobody", "own", "other"}, login : BOOLEAN]
      /\ tested.kind = "none" /\ tested.by = "nobody"
  BY DEF LabInit
<1>7. PlaceInv
  BY <1>1, <1>3, <1>4, <1>5, <1>6 DEF LabInit, PlaceInv, LabTestsConnect, TestsOwnVm
<1>8. /\ job \in JobSet /\ job.kind = "none" /\ job.at = "-" /\ job.todo = <<>> /\ ~job.term
      /\ job.traps = 0
  BY DEF LabInit, NoJob, JobSet, Todos
<1>9. JobInv
  BY <1>8 DEF JobInv, DownSteps, TestSteps
<1>10. BusyInv /\ SequenceInv /\ DownInv
  BY <1>8 DEF BusyInv, SequenceInv, DownInv
<1>11. VmInv
  BY <1>2, <1>8 DEF LabInit, VmInv
<1>12. /\ last \in [kind : Kinds \cup {"none"}, how : {"none", "ok", "failed", "killed"},
                    down : {"none", "ok", "failed"}]
       /\ last.kind = "none"
  BY DEF LabInit
<1> QED BY <1>7, <1>9, <1>10, <1>11, <1>12 DEF IInv, CommandInv, NoResidual

\* Every step keeps the invariant.
LEMMA NextIInv ==
  ASSUME IInv, [LabNext]_labVars
  PROVE  IInv'
<1>1. CASE UNCHANGED labVars
  <2>1. UNCHANGED <<mirror, out, tmp, tool, keyFile, prep, code, vm, droplet, inventory, job, last,
                    jobs, faults, tested>>
    BY <1>1 DEF labVars, onDroplet, files
  <2>2. CommandInv'
    BY <2>1, Facts DEF CommandInv, JobInv, BusyInv, VmInv, SequenceInv, DownInv, NoResidual, Good
  <2>3. PlaceInv'
    BY <2>1, Facts DEF PlaceInv, ImageTypeOK, FileInv, DropletInv, VerifiedImage, LabTestsConnect,
                       TestsOwnVm
  <2> QED BY <2>2, <2>3 DEF IInv
<1>2. CASE \E kind \in Kinds : StartJob(kind)
  BY <1>2, StartJobIInv
<1>3. CASE JobStep
  BY <1>3, UpIInv, DeployIInv, InstallToolsIInv, PushTestsIInv, RunPrepareImageIInv, ImageDoneIInv,
     GuardImageIInv, SkipTestsIInv, LaunchHostIInv, RunTestsIInv, ShutdownIInv,
     ShutdownTimesOutIInv, DeleteDropletIInv, RemoveInventoryIInv, AssertNoResidualIInv,
     StepFailsIInv
     DEF JobStep
<1>4. CASE Preparing \/ PrepareDies
  <2>1. /\ faults' \in 0 .. MaxFaults /\ faults <= faults'
        /\ UNCHANGED <<code, vm, droplet, inventory, job, last, jobs, tested>>
    BY <1>4, Facts, LabAssumption DEF Preparing, PrepareDies
  <2> QED BY <1>4, <2>1, PrepStepKept, PrepIInv
<1> QED BY <1>1, <1>2, <1>3, <1>4, ShutdownIInv, InterruptIInv, TerminateIInv, KilledIInv,
           DropletBootsIInv, PublishingIInv
           DEF LabNext

\* The invariant, for every number of commands, faults and releases.
THEOREM Invariance == LabSpec => []IInv
<1>1. LabInit => IInv
  BY InitIInv
<1>2. IInv /\ [LabNext]_labVars => IInv'
  BY NextIInv
<1> QED BY <1>1, <1>2, PTL DEF LabSpec

\* Type correctness.
THEOREM TypeCorrect == LabSpec => []LabTypeOK
<1>1. IInv => LabTypeOK
  BY DEF IInv, PlaceInv, CommandInv, JobInv, JobSet, Todos, LabTypeOK
<1> QED BY <1>1, Invariance, PTL

\* prepare() downloads beside the image's place, compares the digest and renames:
\* what is in place is never part of a release.
THEOREM ImageIsVerified == LabSpec => []VerifiedImage
<1>1. IInv => VerifiedImage
  BY DEF IInv, PlaceInv
<1> QED BY <1>1, Invariance, PTL

\* The recipes that `just lab' runs in sequence give its own tests an image they
\* can log in to.
THEOREM LabImageHasKey == LabSpec => []LabTestsConnect
<1>1. IInv => LabTestsConnect
  BY DEF IInv, PlaceInv
<1> QED BY <1>1, Invariance, PTL

\* VMHandle.shutdown and destroy leave no VM for a later session's tests.
THEOREM NoVmIsLeft == LabSpec => []TestsOwnVm
<1>1. IInv => TestsOwnVm
  BY DEF IInv, PlaceInv
<1> QED BY <1>1, Invariance, PTL

\* The trap of `just lab', and destroy.yml, leave no Droplet that nobody reports.
THEOREM NothingIsLeft == LabSpec => []NoResidual
<1>1. IInv => NoResidual
  BY DEF IInv, CommandInv
<1> QED BY <1>1, Invariance, PTL

\* Only a preparation's own steps, and the Droplet's deletion, end a preparation.
LEMMA PrepEnds ==
  ASSUME IInv, [LabNext]_labVars, prep.pc # "idle", prep'.pc = "idle", prep'.result = "ready"
  PROVE  Preparing \/ PrepareDies
<1> USE DEF onDroplet
<1>1. ~(prep' = NoRun) /\ ~(UNCHANGED prep)
  BY DEF NoRun
<1>2. ASSUME UNCHANGED labVars PROVE FALSE
  BY <1>1, <1>2 DEF labVars
<1>3. ASSUME \E kind \in Kinds : StartJob(kind) PROVE FALSE
  BY <1>1, <1>3 DEF StartJob
<1>4. ASSUME JobStep PROVE FALSE
  <2>1. ASSUME CreateDroplet \/ DropletActive \/ WriteInventory \/ Deploy \/ InstallTools
        PROVE  FALSE
    BY <1>1, <2>1 DEF CreateDroplet, DropletActive, WriteInventory, Deploy, InstallTools
  <2>2. ASSUME PushTests \/ RunPrepareImage \/ ImageDone PROVE FALSE
    BY <1>1, <2>2 DEF PushTests, RunPrepareImage, Prepare, ImageDone
  <2>3. ASSUME GuardImage \/ SkipTests \/ LaunchHost \/ RunTests PROVE FALSE
    BY <1>1, <2>3 DEF GuardImage, SkipTests, LaunchHost, RunTests
  <2>4. ASSUME WasDead \/ ShutdownTimesOut \/ Destroy PROVE FALSE
    BY <1>1, <2>4 DEF WasDead, ShutdownTimesOut, Destroy, LeaveVm
  <2>5. ASSUME DeleteDroplet \/ RemoveInventory \/ AssertNoResidual \/ StepFails PROVE FALSE
    BY <1>1, <2>5 DEF DeleteDroplet, RemoveInventory, AssertNoResidual, StepFails
  <2> QED BY <1>4, <2>1, <2>2, <2>3, <2>4, <2>5 DEF JobStep
<1>5. ASSUME PowersOff \/ Interrupt \/ Terminate \/ Killed \/ DropletBoots \/ Publishing PROVE FALSE
  BY <1>1, <1>5 DEF PowersOff, LeaveVm, Interrupt, Disconnect, Terminate, Killed, DropletBoots,
                    Publishing, NewRelease
<1> QED BY <1>2, <1>3, <1>4, <1>5 DEF LabNext

\* A preparation that says it is ready, and had tool and key, has put the key into
\* a whole image, whatever the recipes, the mirror and the faults did meanwhile.
THEOREM KeyIsInjected == LabSpec => PreparedHasKey
<1> DEFINE Keyed == /\ prep.pc # "idle" /\ prep'.pc = "idle" /\ prep'.result = "ready"
                    /\ prep.customize /\ tool /\ keyFile
                    => out'.keyed /\ out'.data = "whole"
<1>1. IInv /\ [LabNext]_labVars => [Keyed]_imageVars
  BY PrepEnds, PrepStepKept DEF PrepKept, Good
<1> QED BY <1>1, Invariance, PTL DEF LabSpec, PreparedHasKey
=============================================================================
