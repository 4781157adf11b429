--------------------------- MODULE VAppLifecycle ---------------------------
(***************************************************************************)
(* The life of one vApp: createInstance (src/vcd.go) with createRawVApp    *)
(* (src/vcd_create.go), then deleteInstance or cleanUpInstanceByName, as   *)
(* often as the reconciler repeats them.                                   *)
(*                                                                         *)
(* vCD works on a vApp in tasks, one at a time: it rejects a request while *)
(* a task runs. A task goes on when nobody waits for it any more, because  *)
(* the waiter's context ended, its polls failed or its process died.       *)
(***************************************************************************)
EXTENDS Naturals

CONSTANT MaxFaults    \* bound: lost or failed calls, failed tasks, timeouts

ASSUME LifecycleAssumption == MaxFaults \in Nat

VARIABLES
    vapp,      \* what vCD holds
    task,      \* the vApp's last task
    create,    \* where createInstance is
    delete,    \* where the delete is, and what it has read
    faults     \* faults so far

vars == <<vapp, task, create, delete, faults>>

Settings == {"credentials", "tpm", "cpuAndMemory", "disk"}

VApp == [there : {"absent", "late", "yes"},    \* "late": a POST still to be committed
         tagged : BOOLEAN,                     \* has it the group's metadata?
         vms : 0 .. 1,
         settings : SUBSET Settings,           \* of the VM, as configured
         on : BOOLEAN,
         deployed : BOOLEAN]

NoVApp == [there |-> "absent", tagged |-> FALSE, vms |-> 0, settings |-> {},
           on |-> FALSE, deployed |-> FALSE]

Task == [what : {"none", "compose", "network", "addVM", "powerOn", "powerOff",
                 "undeploy", "delete"} \cup Settings,
         status : {"running", "success", "error"}]

PostPcs == {"template", "storage", "post", "recover", "composeWait", "refresh"}
BuildPcs == {"network", "networkWait", "policy", "addVM", "addVMWait", "countVMs",
             "waitVM", "credentials", "tpm", "tpmWait", "size", "disk", "address",
             "powerOn", "powerOnWait", "status", "ssh"}
\* "unnamed": failed before the vApp had a name. "forgotten": failed, and the
\* reconciler has given up the name.
EndPcs == {"created", "failed", "unnamed", "crashed", "forgotten"}

DeletePcs == {"lookup", "refresh", "refreshVM", "waitTasks", "powerOff", "powerOffWait",
              "undeploy", "undeployWait", "delete", "deleteWait"}

Init ==
    /\ vapp = NoVApp
    /\ task = [what |-> "none", status |-> "success"]
    /\ create = "template"
    /\ delete = [pc |-> "no", busy |-> FALSE, tried |-> FALSE]
    /\ faults = 0

-----------------------------------------------------------------------------
(* vCD, and calls to it.                                                   *)

There == vapp.there = "yes"

Busy == task.status = "running"

Fault ==
    /\ faults < MaxFaults
    /\ faults' = faults + 1

NoFault == UNCHANGED faults

Accepts(what) ==
    /\ There
    /\ ~Busy
    /\ CASE what = "powerOn" -> vapp.vms > 0 /\ ~vapp.on
         [] what = "powerOff" -> vapp.on
         [] what = "undeploy" -> vapp.deployed
         [] what = "delete" -> ~vapp.deployed
         [] OTHER -> TRUE

\* A request that starts a task. An error may hide that vCD accepted it.
Request(what, ok) ==
    /\ \/ Accepts(what) /\ task' = [what |-> what, status |-> "running"]
       \/ ~ok /\ UNCHANGED task
    /\ IF ok \/ (~Accepts(what) /\ task' = task) THEN NoFault ELSE Fault
    /\ UNCHANGED vapp

\* A call that reads what cond says, or fails.
Read(cond, ok) ==
    /\ IF ok THEN cond /\ NoFault ELSE Fault
    /\ UNCHANGED <<vapp, task>>

\* waitTaskCompletion: the task ended, or its polls or the wait did.
waitTaskCompletion(ok) ==
    /\ IF ok THEN task.status = "success" ELSE TRUE
    /\ IF ok \/ task.status = "error" THEN NoFault ELSE Fault
    /\ UNCHANGED <<vapp, task>>

Effect(what) ==
    CASE what \in Settings -> [vapp EXCEPT !.settings = @ \cup {what}]
      [] what = "addVM" -> [vapp EXCEPT !.vms = @ + 1]
      [] what = "powerOn" -> [vapp EXCEPT !.on = TRUE, !.deployed = TRUE]
      [] what = "powerOff" -> [vapp EXCEPT !.on = FALSE]
      [] what = "undeploy" -> [vapp EXCEPT !.on = FALSE, !.deployed = FALSE]
      [] what = "delete" -> NoVApp
      [] OTHER -> vapp

\* A call of the SDK that starts a task and waits for it. An error leaves the
\* task unstarted, running or done.
Complete(what, ok) ==
    /\ \/ Accepts(what) /\ vapp' = Effect(what) /\ UNCHANGED task
       \/ ~ok /\ UNCHANGED <<vapp, task>>
       \/ ~ok /\ Accepts(what) /\ task' = [what |-> what, status |-> "running"] /\ UNCHANGED vapp
    /\ IF ok \/ ~Accepts(what) THEN NoFault ELSE Fault

TaskEnds(ok) ==
    /\ Busy
    /\ task' = [task EXCEPT !.status = IF ok THEN "success" ELSE "error"]
    /\ vapp' = IF ok THEN Effect(task.what) ELSE vapp
    /\ IF ok THEN NoFault ELSE Fault
    /\ UNCHANGED <<create, delete>>

LateCommit ==
    /\ vapp.there = "late"
    /\ vapp' = [vapp EXCEPT !.there = "yes"]
    /\ task' = [what |-> "compose", status |-> "running"]
    /\ UNCHANGED <<create, delete, faults>>

-----------------------------------------------------------------------------
(* createInstance.                                                         *)

CreateGoto(from, ok, to) ==
    /\ create = from
    /\ create' = IF ok THEN to ELSE "failed"
    /\ UNCHANGED delete

\* What a vApp is made from is looked up first. Without a name there is nothing
\* to clean up.
Lookup(from, ok, to) ==
    /\ create = from
    /\ create' = IF ok THEN to ELSE "unnamed"
    /\ Read(TRUE, ok)
    /\ UNCHANGED delete

\* A template that is not ready is an error too.
getVAppTemplate(ok) == Lookup("template", ok, "storage")

getStorageProfile(ok) == Lookup("storage", ok, "post")

\* The one POST. A permanent error that does not say "already exists" is final.
PostVApp(there, next) ==
    /\ create = "post"
    /\ CASE next = "composeWait" -> there = "yes" /\ NoFault
         [] next = "recover" -> Fault
         [] next = "failed" -> there = "absent" /\ Fault
    /\ vapp' = [vapp EXCEPT !.there = there]
    /\ task' = IF there = "yes" THEN [what |-> "compose", status |-> "running"] ELSE task
    /\ create' = next
    /\ UNCHANGED delete

\* After an ambiguous error the vApp is looked up by name.
RecoverVApp(ok) ==
    /\ CreateGoto("recover", ok, "composeWait")
    /\ ok => There
    /\ IF ok \/ ~There THEN NoFault ELSE Fault
    /\ UNCHANGED <<vapp, task>>

AwaitCompose(ok) ==
    CreateGoto("composeWait", ok, "refresh") /\ waitTaskCompletion(ok)

RefreshCreated(ok) ==
    CreateGoto("refresh", ok, "meta") /\ Read(vapp.vms = 0, ok)

\* The SDK waits for the metadata's task itself.
AddMetadata(ok, tagged) ==
    /\ CreateGoto("meta", ok, "network")
    /\ ok => tagged
    /\ vapp' = [vapp EXCEPT !.tagged = tagged]
    /\ IF ok THEN NoFault ELSE Fault
    /\ UNCHANGED task

AddNetwork(ok) ==
    \/ CreateGoto("network", ok, "networkWait") /\ Request("network", ok)
    \/ CreateGoto("networkWait", ok, "policy") /\ waitTaskCompletion(ok)

\* Without a default policy, or when it cannot be read, the VM gets none.
getDefaultComputePolicy(ok) == CreateGoto("policy", TRUE, "addVM") /\ Read(TRUE, ok)

\* A lost answer makes the call a second time.
AddVMReplays(ok) ==
    \/ CreateGoto("addVM", ok, "addVMWait") /\ Request("addVM", ok)
    \/ create = "addVM" /\ ok /\ Request("addVM", FALSE) /\ UNCHANGED <<create, delete>>
    \/ CreateGoto("addVMWait", ok, "countVMs") /\ waitTaskCompletion(ok)

\* singleVCDCall: no second VM, whatever the answer.
AddVM(ok) ==
    \/ CreateGoto("addVM", ok, "addVMWait") /\ Request("addVM", ok)
    \/ CreateGoto("addVMWait", ok, "countVMs") /\ waitTaskCompletion(ok)

CountVMs(ok) ==
    /\ CreateGoto("countVMs", ok, "waitVM")
    /\ IF ok THEN vapp.vms = 1 ELSE TRUE
    /\ IF ok \/ vapp.vms # 1 THEN NoFault ELSE Fault
    /\ UNCHANGED <<vapp, task>>

\* Powered off, and no task left.
waitForVMCreation(ok) ==
    CreateGoto("waitVM", ok, "credentials") /\ Read(~vapp.on /\ ~Busy, ok)

injectCredentials(ok) == CreateGoto("credentials", ok, "tpm") /\ Complete("credentials", ok)

\* Only a Windows 11 template needs a TPM.
changeVMTpm(ok) ==
    \/ CreateGoto("tpm", TRUE, "size") /\ ok /\ NoFault /\ UNCHANGED <<vapp, task>>
    \/ CreateGoto("tpm", ok, "tpmWait") /\ Request("tpm", ok)
    \/ CreateGoto("tpmWait", ok, "size") /\ waitTaskCompletion(ok)

ChangeCPUAndMemory(ok) == CreateGoto("size", ok, "disk") /\ Complete("cpuAndMemory", ok)

\* A disk that is large enough stays as it is.
changeDiskSize(ok) ==
    /\ CreateGoto("disk", ok, "address")
    /\ \/ Complete("disk", ok)
       \/ ok /\ vapp' = Effect("disk") /\ NoFault /\ UNCHANGED task

\* The VM is read once more; without an address the create fails.
getPrimaryIPAddress(ok) == CreateGoto("address", ok, "powerOn") /\ Read(TRUE, ok)

\* The task is not waited for.
PowerOnForgets(ok) ==
    CreateGoto("powerOn", ok, "ssh") /\ Request("powerOn", ok)

PowerOn(ok) ==
    \/ CreateGoto("powerOn", ok, "powerOnWait") /\ Request("powerOn", ok)
    \/ CreateGoto("powerOnWait", ok, "status") /\ waitTaskCompletion(ok)

CheckStatus(ok) == CreateGoto("status", ok, "ssh") /\ Read(vapp.on, ok)

\* With no credentials to try there is no check, so the VM need not answer.
waitForSSHReadiness(ok) == CreateGoto("ssh", ok, "created") /\ Read(TRUE, ok)

createInstance ==
    \/ \E there \in {"absent", "late", "yes"}, next \in {"composeWait", "recover", "failed"} :
          PostVApp(there, next)
    \/ \E ok \in BOOLEAN :
          \/ getVAppTemplate(ok)
          \/ getStorageProfile(ok)
          \/ RecoverVApp(ok)
          \/ AwaitCompose(ok)
          \/ RefreshCreated(ok)
          \/ \E tagged \in BOOLEAN : AddMetadata(ok, tagged)
          \/ AddNetwork(ok)
          \/ getDefaultComputePolicy(ok)
          \/ AddVM(ok)
          \/ CountVMs(ok)
          \/ waitForVMCreation(ok)
          \/ injectCredentials(ok)
          \/ changeVMTpm(ok)
          \/ ChangeCPUAndMemory(ok)
          \/ changeDiskSize(ok)
          \/ getPrimaryIPAddress(ok)
          \/ PowerOn(ok)
          \/ CheckStatus(ok)
          \/ waitForSSHReadiness(ok)

-----------------------------------------------------------------------------
(* cleanUpInstanceByName and deleteInstance.                               *)

DeleteGoto(from, to) ==
    /\ delete.pc = from
    /\ delete' = [delete EXCEPT !.pc = to]
    /\ UNCHANGED create

\* The reconciler deletes by name what a create of this run left, and by HREF
\* what it has in the store: instances, and vApps that the search returned.
BeginDelete ==
    /\ delete.pc \in {"no", "failed"}
    /\ \/ create \in {"created", "failed"}
       \/ create \in {"crashed", "forgotten"} /\ vapp.tagged
    /\ delete' = [pc |-> IF create = "failed" THEN "lookup" ELSE "refresh",
                  busy |-> FALSE, tried |-> TRUE]
    /\ UNCHANGED <<vapp, task, create, faults>>

\* A name that vCD does not know: the reconciler tries again until
\* safeCallMaxElapsedTime has passed, by when no POST is on its way.
cleanUpInstanceByName(next) ==
    /\ DeleteGoto("lookup", next)
    /\ CASE next = "refresh" -> There /\ NoFault
         [] next = "deleted" -> vapp.there = "absent" /\ NoFault
         [] next = "failed" -> IF vapp.there = "late" THEN NoFault ELSE Fault
    /\ UNCHANGED <<vapp, task>>

\* The org or the VDC is not found for as long. The reconciler cannot tell this
\* from a name that vCD does not know, and gives up the name.
LookupMisleads ==
    /\ delete.pc = "lookup"
    /\ There
    /\ Fault
    /\ delete' = [delete EXCEPT !.pc = "failed"]
    /\ create' = "forgotten"
    /\ UNCHANGED <<vapp, task>>

\* Any error of the read counts as "already deleted".
RefreshVAppHopeful(next) ==
    /\ delete.pc = "refresh"
    /\ CASE next = "deleted" -> IF There THEN Fault ELSE NoFault
         [] next = "delete" -> There /\ vapp.vms = 0 /\ NoFault
         [] next = "refreshVM" -> There /\ vapp.vms = 1 /\ NoFault
         [] next = "failed" -> There /\ vapp.vms > 1 /\ NoFault
    /\ delete' = [delete EXCEPT !.pc = next, !.busy = Busy]
    /\ UNCHANGED <<vapp, task, create>>

\* Not found means deleted already; an empty vApp is deleted at once; more
\* than one VM is an error.
RefreshVApp(next) ==
    /\ delete.pc = "refresh"
    /\ CASE next = "deleted" -> ~There /\ NoFault
         [] next = "delete" -> There /\ vapp.vms = 0 /\ NoFault
         [] next = "refreshVM" -> There /\ vapp.vms = 1 /\ NoFault
         [] next = "failed" -> IF There /\ vapp.vms > 1 THEN NoFault ELSE Fault
    /\ delete' = [delete EXCEPT !.pc = next, !.busy = Busy]
    /\ UNCHANGED <<vapp, task, create>>

\* When the VM cannot be read the vApp is deleted as it is.
RefreshVM(ok) ==
    /\ DeleteGoto("refreshVM", IF ok THEN "waitTasks" ELSE "delete")
    /\ IF There /\ ~ok THEN Fault ELSE NoFault
    /\ ok => There
    /\ UNCHANGED <<vapp, task>>

\* As read last; each round reads again.
waitForTasksCompletion(next) ==
    /\ delete.pc = "waitTasks"
    /\ CASE next = "powerOff" -> ~delete.busy /\ NoFault
         [] next = "waitTasks" -> delete.busy /\ ~Busy /\ There /\ NoFault
         [] next = "failed" -> delete.busy /\ IF There THEN Fault ELSE NoFault
    /\ delete' = [delete EXCEPT !.pc = next, !.busy = FALSE]
    /\ UNCHANGED <<vapp, task, create>>

\* A request that vCD refuses, as there is nothing to undeploy, ends the delete.
UndeployStrict(ok) ==
    \/ DeleteGoto("undeploy", IF ok THEN "undeployWait" ELSE "failed") /\ Request("undeploy", ok)
    \/ DeleteGoto("undeployWait", IF ok THEN "delete" ELSE "failed") /\ waitTaskCompletion(ok)

\* An error of either request is ignored: the vApp may be off already.
PowerOff(ok) ==
    \/ DeleteGoto("powerOff", IF ok THEN "powerOffWait" ELSE "undeploy") /\ Request("powerOff", ok)
    \/ DeleteGoto("powerOffWait", IF ok THEN "undeploy" ELSE "failed") /\ waitTaskCompletion(ok)

Undeploy(ok) ==
    \/ DeleteGoto("undeploy", IF ok THEN "undeployWait" ELSE "delete") /\ Request("undeploy", ok)
    \/ DeleteGoto("undeployWait", IF ok THEN "delete" ELSE "failed") /\ waitTaskCompletion(ok)

DeleteVApp(ok) ==
    \/ DeleteGoto("delete", IF ok THEN "deleteWait" ELSE "failed") /\ Request("delete", ok)
    \/ DeleteGoto("deleteWait", IF ok THEN "deleted" ELSE "failed") /\ waitTaskCompletion(ok)

deleteInstance ==
    \/ \E next \in {"refresh", "deleted", "failed"} : cleanUpInstanceByName(next)
    \/ LookupMisleads
    \/ \E next \in {"deleted", "delete", "refreshVM", "failed"} : RefreshVApp(next)
    \/ \E next \in {"powerOff", "waitTasks", "failed"} : waitForTasksCompletion(next)
    \/ \E ok \in BOOLEAN : RefreshVM(ok) \/ PowerOff(ok) \/ Undeploy(ok) \/ DeleteVApp(ok)

-----------------------------------------------------------------------------

\* The process dies; a request on its way may still be carried out.
Crash(sent) ==
    /\ Fault
    /\ create' = IF create = "created" THEN create ELSE "crashed"
    /\ delete' = [delete EXCEPT !.pc = IF @ \in DeletePcs THEN "failed" ELSE @]
    /\ vapp' = IF ~sent THEN vapp
               ELSE IF create = "post" THEN [vapp EXCEPT !.there = "late"]
               ELSE [vapp EXCEPT !.tagged = TRUE]
    /\ sent => create \in {"post", "meta"}
    /\ UNCHANGED task

\* Without the name in memory the vApp can only be found by its label.
Unlabelled == create \in {"crashed", "forgotten"} /\ ~vapp.tagged

\* The vApp is deleted, or there is none and nobody will look for one.
Finished ==
    /\ \/ delete.pc = "deleted"
       \/ create = "unnamed"
       \/ Unlabelled /\ delete.pc \in {"no", "failed"} /\ ~Busy
    /\ UNCHANGED vars

Next ==
    \/ createInstance
    \/ BeginDelete
    \/ deleteInstance
    \/ \E ok \in BOOLEAN : TaskEnds(ok)
    \/ LateCommit
    \/ \E sent \in BOOLEAN : Crash(sent)
    \/ Finished

Spec == Init /\ [][Next]_vars

\* Goroutines go on, the reconciler repeats a failed delete, and vCD ends every
\* task and commits what it will commit.
FairSpec ==
    /\ Spec
    /\ WF_vars(createInstance)
    /\ WF_vars(BeginDelete)
    /\ WF_vars(deleteInstance)
    /\ WF_vars(\E ok \in BOOLEAN : TaskEnds(ok))
    /\ WF_vars(LateCommit)

-----------------------------------------------------------------------------
(* Properties.                                                             *)

\* The variables keep their types; in particular no replay adds a second VM,
\* which deleteInstance would refuse to delete for ever.
TypeOK ==
    /\ vapp \in VApp
    /\ task \in Task
    /\ create \in PostPcs \cup {"meta"} \cup BuildPcs \cup EndPcs
    /\ delete \in [pc : DeletePcs \cup {"no", "deleted", "failed"},
                   busy : BOOLEAN, tried : BOOLEAN]
    /\ faults \in 0 .. MaxFaults

\* A create that reports success leaves a vApp that the search returns, with one
\* configured VM that is on and no task that could still change it.
CreatedIsReady ==
    create = "created" /\ ~delete.tried =>
       /\ There /\ vapp.tagged /\ vapp.vms = 1 /\ vapp.on /\ vapp.deployed
       /\ Settings \ {"tpm"} \subseteq vapp.settings
       /\ ~Busy

\* Reconciler's steps. Until createRawVApp returns, nobody else can know what
\* the POST did.
Contract == INSTANCE VAppContract
    WITH state <- IF create \in PostPcs \/ vapp.there = "absent" THEN "absent"
                  ELSE IF vapp.there = "late" THEN "late"
                  ELSE IF vapp.tagged THEN "tagged" ELSE "bare",
         creating <- CASE create \in PostPcs -> "post"
                       [] create \in BuildPcs -> "build"
                       [] create = "unnamed" -> "failed"
                       [] OTHER -> create,
         deleting <- IF delete.pc \in DeletePcs THEN "yes" ELSE delete.pc,
         tried <- delete.tried

\* The calls and waits within a create and a delete come to no more than the
\* steps of Reconciler: in particular a delete counts as done only when the vApp
\* is gone or the org or the VDC was not found, and a vApp in use does not vanish
\* before a delete was tried.
KeepsContract == Contract!ContractSpec

\* Whatever a create left behind, repeated deletes remove, unless it is unlabelled
\* and a crash, or a cleanup that found no org or VDC, lost its name: also while
\* its tasks still run, with or without a VM, powered on or never deployed.
EventuallyDeleted ==
    create \in EndPcs ~> vapp.there = "absent" \/ Unlabelled

=============================================================================
