----------------------------- MODULE VAppProofs -----------------------------
(***************************************************************************)
(* Proofs about the life of one vApp, for every number of faults: its      *)
(* types (no second VM), what a successful create leaves, and that         *)
(* createInstance and deleteInstance keep VAppContract, on which           *)
(* Reconciler rests.                                                       *)
(***************************************************************************)
EXTENDS VAppLifecycle, TLAPS

-----------------------------------------------------------------------------
(* The inductive invariant: what createInstance has established when it is *)
(* at a call, and what deleteInstance has.                                 *)

ActivePcs == PostPcs \cup {"meta"} \cup BuildPcs

\* createRawVApp knows of the vApp from here on.
NamedPcs == {"composeWait", "refresh", "meta"} \cup BuildPcs

BeforeVMPcs == PostPcs \cup {"meta", "network", "networkWait", "policy", "addVM"}

WaitPcs == {"networkWait", "addVMWait", "tpmWait", "powerOnWait"}

\* Where the last task has been waited for.
QuietPcs == {"refresh", "meta"} \cup (BuildPcs \ WaitPcs)

FromStatus == {"status", "ssh"}
FromPowerOn == {"powerOn", "powerOnWait"} \cup FromStatus
FromAddress == {"address"} \cup FromPowerOn
FromDisk == {"disk"} \cup FromAddress
FromTpm == {"tpm", "tpmWait", "size"} \cup FromDisk
FromVM == {"waitVM", "credentials"} \cup FromTpm

\* A delete begins only when the create has ended, and only a delete asks vCD to
\* take the vApp down.
DeletesComeLast ==
    /\ create \in ActivePcs \cup {"unnamed"} => delete.pc = "no"
    /\ delete.pc = "no" <=> ~delete.tried
    /\ delete.pc = "lookup" => create = "failed"
    /\ task.what \in {"powerOff", "undeploy", "delete"} => delete.tried

\* A task runs on a vApp that exists, and metadata hangs on one.
TasksAreOnVApps ==
    /\ Busy => There
    /\ vapp.tagged => There

\* What is known of the vApp while createRawVApp runs and once it has returned.
PostedOnce ==
    /\ create \in {"template", "storage", "post", "unnamed"} => vapp.there = "absent"
    /\ vapp.there = "late" => create \in {"recover", "failed", "crashed"}
    /\ create \in PostPcs => ~vapp.tagged
    /\ create \in NamedPcs => There
    /\ create \in BuildPcs => vapp.tagged
    /\ create \in QuietPcs => ~Busy

\* The VM is asked for once, on an empty vApp.
OneVM ==
    /\ create \in BeforeVMPcs =>
          vapp.vms = 0 /\ task.what \in {"none", "compose", "network"}
    /\ task.what = "addVM" /\ Busy => vapp.vms = 0
    /\ create \in FromVM => vapp.vms = 1

\* What createInstance has configured so far.
Configured ==
    /\ create \in FromTpm => "credentials" \in vapp.settings
    /\ create \in FromDisk => "cpuAndMemory" \in vapp.settings
    /\ create \in FromAddress => "disk" \in vapp.settings
    /\ create = "powerOnWait" =>
          task.what = "powerOn" /\ (task.status = "success" => vapp.on /\ vapp.deployed)
    /\ create \in FromStatus => vapp.on /\ vapp.deployed

\* A delete by HREF is of a vApp that was there: no POST can bring it back.
DeletesAreFinal ==
    /\ delete.pc \in DeletePcs \ {"lookup"} => vapp.there # "late"
    /\ delete.pc = "deleted" => vapp.there = "absent"
    /\ delete.pc = "deleteWait" => task.what = "delete"
    /\ task.what = "delete" /\ task.status = "success" => vapp.there = "absent"

IInv ==
    /\ TypeOK
    /\ DeletesComeLast
    /\ TasksAreOnVApps
    /\ PostedOnce
    /\ OneVM
    /\ Configured
    /\ DeletesAreFinal
    /\ CreatedIsReady

-----------------------------------------------------------------------------
(* Every action preserves it.                                              *)

\* Before anything happens.
LEMMA InitInv == Init => IInv
<1> USE DEF ActivePcs, NamedPcs, BeforeVMPcs, WaitPcs, QuietPcs, FromStatus, FromPowerOn,
            FromAddress, FromDisk, FromTpm, FromVM, PostPcs, BuildPcs, EndPcs, DeletePcs
<1> QED
    BY LifecycleAssumption
    DEF Init, IInv, TypeOK, VApp, NoVApp, Task, Settings, DeletesComeLast,
        TasksAreOnVApps, PostedOnce, OneVM, Configured, DeletesAreFinal, CreatedIsReady,
        There, Busy

\* createRawVApp: the lookups, the one POST, its recovery and its task.
LEMMA PostStep ==
    ASSUME IInv, NEW there \in {"absent", "late", "yes"},
           NEW next \in {"composeWait", "recover", "failed"}, PostVApp(there, next)
    PROVE  IInv'
<1> USE LifecycleAssumption
    DEF ActivePcs, NamedPcs, BeforeVMPcs, WaitPcs, QuietPcs, FromStatus, FromPowerOn,
        FromAddress, FromDisk, FromTpm, FromVM, PostPcs, BuildPcs, EndPcs, DeletePcs,
        IInv, TypeOK, VApp, NoVApp, Task, Settings, DeletesComeLast, TasksAreOnVApps,
        PostedOnce, OneVM, Configured, DeletesAreFinal, CreatedIsReady, There, Busy,
        Fault, NoFault
<1>1. create = "post" /\ vapp.there = "absent" /\ ~Busy /\ delete.pc = "no"
    BY DEF PostVApp
<1>2. vapp' = [vapp EXCEPT !.there = there] /\ create' = next /\ delete' = delete
    BY DEF PostVApp
<1>3. NoFault \/ Fault
    BY DEF PostVApp
<1>6. TypeOK' BY <1>1, <1>2, <1>3 DEF PostVApp
<1>4. CASE there = "yes"
    BY <1>1, <1>2, <1>6, <1>4 DEF PostVApp
<1>5. CASE there # "yes"
    BY <1>1, <1>2, <1>6, <1>5 DEF PostVApp
<1> QED BY <1>4, <1>5

\* The requests of createInstance preserve it.
LEMMA CreateStep ==
    ASSUME IInv, createInstance
    PROVE  IInv'
<1> USE LifecycleAssumption
    DEF ActivePcs, NamedPcs, BeforeVMPcs, WaitPcs, QuietPcs, FromStatus, FromPowerOn,
        FromAddress, FromDisk, FromTpm, FromVM, PostPcs, BuildPcs, EndPcs, DeletePcs,
        IInv, TypeOK, VApp, NoVApp, Task, Settings, DeletesComeLast, TasksAreOnVApps,
        PostedOnce, OneVM, Configured, DeletesAreFinal, CreatedIsReady, There, Busy,
        Fault, NoFault
<1>1. CASE \E there \in {"absent", "late", "yes"}, next \in {"composeWait", "recover", "failed"} :
                PostVApp(there, next)
    BY <1>1, PostStep
<1>2. SUFFICES ASSUME NEW ok \in BOOLEAN,
                      \/ getVAppTemplate(ok) \/ getStorageProfile(ok) \/ RecoverVApp(ok)
                      \/ AwaitCompose(ok) \/ RefreshCreated(ok)
                      \/ \E tagged \in BOOLEAN : AddMetadata(ok, tagged)
                      \/ AddNetwork(ok) \/ getDefaultComputePolicy(ok) \/ AddVM(ok)
                      \/ CountVMs(ok) \/ waitForVMCreation(ok) \/ injectCredentials(ok)
                      \/ changeVMTpm(ok) \/ ChangeCPUAndMemory(ok) \/ changeDiskSize(ok)
                      \/ getPrimaryIPAddress(ok) \/ PowerOn(ok) \/ CheckStatus(ok)
                      \/ waitForSSHReadiness(ok)
               PROVE  IInv'
    BY <1>1 DEF createInstance
<1>3. CASE getVAppTemplate(ok)
    BY <1>3 DEF getVAppTemplate, Lookup, Read
<1>4. CASE getStorageProfile(ok)
    BY <1>4 DEF getStorageProfile, Lookup, Read
<1>5. CASE RecoverVApp(ok)
    BY <1>5 DEF RecoverVApp, CreateGoto
<1>6. CASE AwaitCompose(ok)
    BY <1>6 DEF AwaitCompose, CreateGoto, waitTaskCompletion
<1>7. CASE RefreshCreated(ok)
    BY <1>7 DEF RefreshCreated, CreateGoto, Read
<1>8. CASE \E tagged \in BOOLEAN : AddMetadata(ok, tagged)
    <2>1. PICK tagged \in BOOLEAN : AddMetadata(ok, tagged)
        BY <1>8
    <2> QED BY <2>1 DEF AddMetadata, CreateGoto
<1>9. CASE AddNetwork(ok)
    BY <1>9 DEF AddNetwork, CreateGoto, Request, Accepts, waitTaskCompletion
<1>10. CASE getDefaultComputePolicy(ok)
    BY <1>10 DEF getDefaultComputePolicy, CreateGoto, Read
<1>11. CASE AddVM(ok)
    BY <1>11 DEF AddVM, CreateGoto, Request, Accepts, waitTaskCompletion
<1>12. CASE CountVMs(ok)
    BY <1>12 DEF CountVMs, CreateGoto
<1>13. CASE waitForVMCreation(ok)
    BY <1>13 DEF waitForVMCreation, CreateGoto, Read
<1>14. CASE injectCredentials(ok)
    BY <1>14 DEF injectCredentials, CreateGoto, Complete, Accepts, Effect
<1>15. CASE changeVMTpm(ok)
    BY <1>15 DEF changeVMTpm, CreateGoto, Request, Accepts, waitTaskCompletion
<1>16. CASE ChangeCPUAndMemory(ok)
    BY <1>16 DEF ChangeCPUAndMemory, CreateGoto, Complete, Accepts, Effect
<1>17. CASE changeDiskSize(ok)
    BY <1>17 DEF changeDiskSize, CreateGoto, Complete, Accepts, Effect
<1>18. CASE getPrimaryIPAddress(ok)
    BY <1>18 DEF getPrimaryIPAddress, CreateGoto, Read
<1>19. CASE PowerOn(ok)
    BY <1>19 DEF PowerOn, CreateGoto, Request, Accepts, waitTaskCompletion
<1>20. CASE CheckStatus(ok)
    BY <1>20 DEF CheckStatus, CreateGoto, Read
<1>21. CASE waitForSSHReadiness(ok)
    BY <1>21 DEF waitForSSHReadiness, CreateGoto, Read
<1> HIDE DEF IInv
<1> QED BY <1>2, <1>3, <1>4, <1>5, <1>6, <1>7, <1>8, <1>9, <1>10, <1>11, <1>12, <1>13, <1>14, <1>15, <1>16, <1>17, <1>18, <1>19, <1>20, <1>21

DeleteRecord == [pc : DeletePcs \cup {"no", "deleted", "failed"},
                 busy : BOOLEAN, tried : BOOLEAN]

\* A step of deleteInstance that remembers whether a task ran.
LEMMA BusyUpdate ==
    ASSUME NEW d \in DeleteRecord, NEW b \in BOOLEAN,
           NEW pc \in DeletePcs \cup {"no", "deleted", "failed"}
    PROVE  LET e == [d EXCEPT !.pc = pc, !.busy = b]
           IN  e \in DeleteRecord /\ e.pc = pc /\ e.tried = d.tried
BY DEF DeleteRecord

\* The requests of deleteInstance and of the cleanup preserve it.
LEMMA DeleteStep ==
    ASSUME IInv, deleteInstance
    PROVE  IInv'
<1> USE LifecycleAssumption
    DEF ActivePcs, NamedPcs, BeforeVMPcs, WaitPcs, QuietPcs, FromStatus, FromPowerOn,
        FromAddress, FromDisk, FromTpm, FromVM, PostPcs, BuildPcs, EndPcs, DeletePcs,
        IInv, TypeOK, VApp, NoVApp, Task, Settings, DeletesComeLast, TasksAreOnVApps,
        PostedOnce, OneVM, Configured, DeletesAreFinal, CreatedIsReady, There, Busy,
        Fault, NoFault
<1>1. CASE \E next \in {"refresh", "deleted", "failed"} : cleanUpInstanceByName(next)
    <2>1. PICK next \in {"refresh", "deleted", "failed"} : cleanUpInstanceByName(next)
        BY <1>1
    <2>2. CASE next = "refresh"
        BY <2>1, <2>2 DEF cleanUpInstanceByName, DeleteGoto
    <2>3. CASE next = "deleted"
        BY <2>1, <2>3 DEF cleanUpInstanceByName, DeleteGoto
    <2>4. CASE next = "failed"
        BY <2>1, <2>4 DEF cleanUpInstanceByName, DeleteGoto
    <2> QED BY <2>2, <2>3, <2>4
<1>2. CASE \E next \in {"deleted", "delete", "refreshVM", "failed"} : RefreshVApp(next)
    <2>1. PICK next \in {"deleted", "delete", "refreshVM", "failed"} : RefreshVApp(next)
        BY <1>2
    <2>2. PICK b \in BOOLEAN : delete' = [delete EXCEPT !.pc = next, !.busy = b]
        <3>1. Busy \in BOOLEAN
            BY DEF Busy
        <3> QED BY <2>1, <3>1 DEF RefreshVApp
    <2>3. delete' \in DeleteRecord /\ delete'.pc = next /\ delete'.tried = delete.tried
        <3>1. delete \in DeleteRecord /\ next \in DeletePcs \cup {"no", "deleted", "failed"}
            BY DEF DeleteRecord
        <3> QED BY <3>1, <2>2, BusyUpdate
    <2>4. UNCHANGED <<vapp, task, create>> /\ delete.pc = "refresh"
        BY <2>1 DEF RefreshVApp
    <2>5. NoFault \/ Fault
        BY <2>1 DEF RefreshVApp
    <2>6. next = "deleted" => ~There
        BY <2>1 DEF RefreshVApp
    <2> QED BY <2>3, <2>4, <2>5, <2>6 DEF DeleteRecord
<1>3. CASE \E next \in {"powerOff", "waitTasks", "failed"} : waitForTasksCompletion(next)
    <2>1. PICK next \in {"powerOff", "waitTasks", "failed"} : waitForTasksCompletion(next)
        BY <1>3
    <2>2. PICK b \in BOOLEAN : delete' = [delete EXCEPT !.pc = next, !.busy = b]
        <3>1. Busy \in BOOLEAN
            BY DEF Busy
        <3> QED BY <2>1, <3>1 DEF waitForTasksCompletion
    <2>3. delete' \in DeleteRecord /\ delete'.pc = next /\ delete'.tried = delete.tried
        <3>1. delete \in DeleteRecord /\ next \in DeletePcs \cup {"no", "deleted", "failed"}
            BY DEF DeleteRecord
        <3> QED BY <3>1, <2>2, BusyUpdate
    <2>4. UNCHANGED <<vapp, task, create>> /\ delete.pc = "waitTasks"
        BY <2>1 DEF waitForTasksCompletion
    <2>5. NoFault \/ Fault
        BY <2>1 DEF waitForTasksCompletion
    <2> QED BY <2>3, <2>4, <2>5 DEF DeleteRecord
<1>4. ASSUME NEW ok \in BOOLEAN, RefreshVM(ok)
      PROVE  IInv'
    BY <1>4 DEF RefreshVM, DeleteGoto
<1>5. ASSUME NEW ok \in BOOLEAN, PowerOff(ok)
      PROVE  IInv'
    BY <1>5 DEF PowerOff, DeleteGoto, Request, Accepts, waitTaskCompletion
<1>6. ASSUME NEW ok \in BOOLEAN, Undeploy(ok)
      PROVE  IInv'
    BY <1>6 DEF Undeploy, DeleteGoto, Request, Accepts, waitTaskCompletion
<1>7. ASSUME NEW ok \in BOOLEAN, DeleteVApp(ok)
      PROVE  IInv'
    BY <1>7 DEF DeleteVApp, DeleteGoto, Request, Accepts, waitTaskCompletion
<1>8. CASE LookupMisleads
    BY <1>8 DEF LookupMisleads
<1> HIDE DEF IInv
<1> QED BY <1>1, <1>2, <1>3, <1>4, <1>5, <1>6, <1>7, <1>8 DEF deleteInstance

\* So do the tasks of vCD that end, late or not.
LEMMA TaskStep ==
    ASSUME IInv, NEW ok \in BOOLEAN, TaskEnds(ok)
    PROVE  IInv'
<1> USE LifecycleAssumption
    DEF ActivePcs, NamedPcs, BeforeVMPcs, WaitPcs, QuietPcs, FromStatus, FromPowerOn,
        FromAddress, FromDisk, FromTpm, FromVM, PostPcs, BuildPcs, EndPcs, DeletePcs,
        IInv, TypeOK, VApp, NoVApp, Task, Settings, DeletesComeLast, TasksAreOnVApps,
        PostedOnce, OneVM, Configured, DeletesAreFinal, CreatedIsReady, There, Busy,
        Fault, NoFault
<1>1. CASE ~ok
    BY <1>1 DEF TaskEnds
<1>2. CASE ok
    <2>1. task' = [task EXCEPT !.status = "success"] /\ vapp' = Effect(task.what)
          /\ UNCHANGED <<create, delete, faults>> /\ Busy
        BY <1>2 DEF TaskEnds
    <2>2. CASE task.what \in Settings
        BY <2>1, <2>2 DEF Effect
    <2>3. CASE task.what = "addVM"
        BY <2>1, <2>3 DEF Effect
    <2>4. CASE task.what = "powerOn"
        <3>1. PICK on \in BOOLEAN, deployed \in BOOLEAN :
                 on /\ deployed /\ vapp' = [vapp EXCEPT !.on = on, !.deployed = deployed]
            BY <2>1, <2>4 DEF Effect
        <3>2. vapp' \in VApp /\ vapp'.there = vapp.there /\ vapp'.tagged = vapp.tagged
              /\ vapp'.vms = vapp.vms /\ vapp'.settings = vapp.settings
              /\ vapp'.on /\ vapp'.deployed
            BY <3>1
        <3> QED BY <2>1, <2>4, <3>2
    <2>7. CASE task.what = "powerOff"
        <3>1. PICK on \in BOOLEAN : ~on /\ vapp' = [vapp EXCEPT !.on = on]
            BY <2>1, <2>7 DEF Effect
        <3>2. vapp' \in VApp /\ vapp'.there = vapp.there /\ vapp'.tagged = vapp.tagged
              /\ vapp'.vms = vapp.vms /\ vapp'.settings = vapp.settings
              /\ ~vapp'.on /\ vapp'.deployed = vapp.deployed
            BY <3>1
        <3> QED BY <2>1, <2>7, <3>2
    <2>8. CASE task.what = "undeploy"
        <3>1. PICK on \in BOOLEAN, deployed \in BOOLEAN :
                 ~on /\ ~deployed /\ vapp' = [vapp EXCEPT !.on = on, !.deployed = deployed]
            BY <2>1, <2>8 DEF Effect
        <3>2. vapp' \in VApp /\ vapp'.there = vapp.there /\ vapp'.tagged = vapp.tagged
              /\ vapp'.vms = vapp.vms /\ vapp'.settings = vapp.settings
              /\ ~vapp'.on /\ ~vapp'.deployed
            BY <3>1
        <3> QED BY <2>1, <2>8, <3>2
    <2>5. CASE task.what = "delete"
        BY <2>1, <2>5 DEF Effect
    <2>6. CASE task.what \in {"none", "compose", "network"}
        BY <2>1, <2>6 DEF Effect
    <2> QED BY <2>2, <2>3, <2>4, <2>5, <2>6, <2>7, <2>8
<1> QED BY <1>1, <1>2

\* And so does every step.
LEMMA NextStep ==
    IInv /\ [Next]_vars => IInv'
<1> USE LifecycleAssumption
    DEF ActivePcs, NamedPcs, BeforeVMPcs, WaitPcs, QuietPcs, FromStatus, FromPowerOn,
        FromAddress, FromDisk, FromTpm, FromVM, PostPcs, BuildPcs, EndPcs, DeletePcs,
        IInv, TypeOK, VApp, NoVApp, Task, Settings, DeletesComeLast, TasksAreOnVApps,
        PostedOnce, OneVM, Configured, DeletesAreFinal, CreatedIsReady, There, Busy,
        Fault, NoFault
<1> SUFFICES ASSUME IInv, [Next]_vars
             PROVE  IInv'
    OBVIOUS
<1>1. CASE createInstance
    BY <1>1, CreateStep
<1>2. CASE BeginDelete
    BY <1>2 DEF BeginDelete
<1>3. CASE deleteInstance
    BY <1>3, DeleteStep
<1>4. CASE \E ok \in BOOLEAN : TaskEnds(ok)
    BY <1>4, TaskStep
<1>5. CASE LateCommit
    BY <1>5 DEF LateCommit
<1>6. ASSUME NEW sent \in BOOLEAN, Crash(sent)
      PROVE  IInv'
    <2>1. CASE ~sent
        BY <1>6, <2>1 DEF Crash
    <2>2. CASE sent
        <3>1. delete.pc = "no" /\ create \in {"post", "meta"} /\ create' = "crashed"
            BY <1>6, <2>2 DEF Crash
        <3>2. delete' = delete
            BY <1>6, <3>1 DEF Crash
        <3>3. CASE create = "post"
            BY <1>6, <2>2, <3>1, <3>2, <3>3 DEF Crash
        <3>4. CASE create = "meta"
            <4>1. task' = task /\ There /\ Fault
                BY <1>6, <2>2, <3>4 DEF Crash
            <4>2. PICK tagged \in BOOLEAN : vapp' = [vapp EXCEPT !.tagged = tagged]
                BY <1>6, <2>2, <3>4 DEF Crash
            <4>3. vapp' \in VApp /\ vapp'.there = "yes" /\ vapp'.vms = vapp.vms
                BY <4>1, <4>2
            <4> QED BY <4>1, <4>3, <3>1, <3>2
        <3> QED BY <3>1, <3>3, <3>4
    <2> QED BY <2>1, <2>2
<1>7. CASE Finished \/ UNCHANGED vars
    BY <1>7 DEF Finished, vars
<1> HIDE DEF IInv
<1> QED BY <1>1, <1>2, <1>3, <1>4, <1>5, <1>6, <1>7 DEF Next

-----------------------------------------------------------------------------
(* The results.                                                            *)

\* The inductive invariant holds whatever faults vCD shows and wherever a create or a
\* delete gives up.
THEOREM LifecycleInvariant == Spec => []IInv
BY InitInv, NextStep, PTL DEF Spec

\* The types hold; above all a vApp never has a second VM, since addVM is a
\* singleVCDCall, which is not replayed.
THEOREM LifecycleTypes == Spec => []TypeOK
<1>1. IInv => TypeOK
    BY DEF IInv
<1> QED BY <1>1, LifecycleInvariant, PTL

\* When createInstance reports success, the vApp is labelled, its only VM is
\* configured and on, and no task is left that could change it.
THEOREM CreateLeavesItReady == Spec => []CreatedIsReady
<1>1. IInv => CreatedIsReady
    BY DEF IInv
<1> QED BY <1>1, LifecycleInvariant, PTL

-----------------------------------------------------------------------------
(* The contract, step by step.                                             *)

ContractStep == Contract!ContractNext \/ UNCHANGED Contract!contractVars

\* The initial states correspond.
LEMMA ContractInitially == Init => Contract!ContractInit
<1> SUFFICES ASSUME Init
             PROVE  Contract!ContractInit
    OBVIOUS
<1>1. create = "template" /\ delete.pc = "no" /\ delete.tried = FALSE
    BY DEF Init
<1> QED BY <1>1 DEF Contract!ContractInit, PostPcs, BuildPcs, DeletePcs

\* createInstance: what happens before createRawVApp returns is its one step,
\* what happens after the metadata is BuildVM.
LEMMA CreateKeepsContract ==
    ASSUME IInv, createInstance
    PROVE  ContractStep
<1> USE DEF IInv, TypeOK, VApp, Task, PostPcs, BuildPcs, NamedPcs, ActivePcs, EndPcs, DeletePcs,
            PostedOnce, DeletesComeLast, TasksAreOnVApps, DeletesAreFinal, There, Busy
<1> USE DEF ContractStep, Contract!ContractNext, Contract!contractVars
<1>1. ASSUME NEW there \in {"absent", "late", "yes"},
             NEW next \in {"composeWait", "recover", "failed"}, PostVApp(there, next)
      PROVE  ContractStep
    <2>1. create = "post" /\ create' = next /\ vapp'.there = there /\ delete' = delete
          /\ vapp'.tagged = vapp.tagged /\ ~vapp.tagged
        BY <1>1 DEF PostVApp
    <2>2. CASE next = "failed"
        BY <2>1, <2>2 DEF Contract!createRawVApp
    <2>3. CASE next # "failed"
        BY <2>1, <2>3
    <2> QED BY <2>2, <2>3
<1>2. ASSUME NEW ok \in BOOLEAN, getVAppTemplate(ok)
      PROVE  ContractStep
    BY <1>2 DEF getVAppTemplate, Lookup, Read, Contract!createRawVApp
<1>3. ASSUME NEW ok \in BOOLEAN, getStorageProfile(ok)
      PROVE  ContractStep
    BY <1>3 DEF getStorageProfile, Lookup, Read, Contract!createRawVApp
<1>4. ASSUME NEW ok \in BOOLEAN, RecoverVApp(ok)
      PROVE  ContractStep
    BY <1>4 DEF RecoverVApp, CreateGoto, Contract!createRawVApp
<1>5. ASSUME NEW ok \in BOOLEAN, AwaitCompose(ok)
      PROVE  ContractStep
    BY <1>5 DEF AwaitCompose, CreateGoto, waitTaskCompletion, Contract!createRawVApp
<1>6. ASSUME NEW ok \in BOOLEAN, RefreshCreated(ok)
      PROVE  ContractStep
    BY <1>6 DEF RefreshCreated, CreateGoto, Read, Contract!createRawVApp
<1>7. ASSUME NEW ok \in BOOLEAN, NEW tagged \in BOOLEAN, AddMetadata(ok, tagged)
      PROVE  ContractStep
    BY <1>7 DEF AddMetadata, CreateGoto, Contract!AddMetadata
<1>8. ASSUME NEW ok \in BOOLEAN, AddNetwork(ok)
      PROVE  ContractStep
    BY <1>8 DEF AddNetwork, CreateGoto, Request, waitTaskCompletion, Contract!BuildVM
<1>9. ASSUME NEW ok \in BOOLEAN, getDefaultComputePolicy(ok)
      PROVE  ContractStep
    BY <1>9 DEF getDefaultComputePolicy, CreateGoto, Read
<1>10. ASSUME NEW ok \in BOOLEAN, AddVM(ok)
      PROVE  ContractStep
    BY <1>10 DEF AddVM, CreateGoto, Request, waitTaskCompletion, Contract!BuildVM
<1>11. ASSUME NEW ok \in BOOLEAN, CountVMs(ok)
      PROVE  ContractStep
    BY <1>11 DEF CountVMs, CreateGoto, Contract!BuildVM
<1>12. ASSUME NEW ok \in BOOLEAN, waitForVMCreation(ok)
      PROVE  ContractStep
    BY <1>12 DEF waitForVMCreation, CreateGoto, Read, Contract!BuildVM
<1>13. ASSUME NEW ok \in BOOLEAN, injectCredentials(ok)
      PROVE  ContractStep
    BY <1>13 DEF injectCredentials, CreateGoto, Complete, Effect, Contract!BuildVM
<1>14. ASSUME NEW ok \in BOOLEAN, changeVMTpm(ok)
      PROVE  ContractStep
    BY <1>14 DEF changeVMTpm, CreateGoto, Request, waitTaskCompletion, Contract!BuildVM
<1>15. ASSUME NEW ok \in BOOLEAN, ChangeCPUAndMemory(ok)
      PROVE  ContractStep
    BY <1>15 DEF ChangeCPUAndMemory, CreateGoto, Complete, Effect, Contract!BuildVM
<1>16. ASSUME NEW ok \in BOOLEAN, changeDiskSize(ok)
      PROVE  ContractStep
    BY <1>16 DEF changeDiskSize, CreateGoto, Complete, Effect, Contract!BuildVM
<1>17. ASSUME NEW ok \in BOOLEAN, getPrimaryIPAddress(ok)
      PROVE  ContractStep
    BY <1>17 DEF getPrimaryIPAddress, CreateGoto, Read, Contract!BuildVM
<1>18. ASSUME NEW ok \in BOOLEAN, PowerOn(ok)
      PROVE  ContractStep
    BY <1>18 DEF PowerOn, CreateGoto, Request, waitTaskCompletion, Contract!BuildVM
<1>19. ASSUME NEW ok \in BOOLEAN, CheckStatus(ok)
      PROVE  ContractStep
    BY <1>19 DEF CheckStatus, CreateGoto, Read, Contract!BuildVM
<1>20. ASSUME NEW ok \in BOOLEAN, waitForSSHReadiness(ok)
      PROVE  ContractStep
    BY <1>20 DEF waitForSSHReadiness, CreateGoto, Read, Contract!BuildVM
<1> HIDE DEF IInv, ContractStep
<1> QED BY <1>1, <1>2, <1>3, <1>4, <1>5, <1>6, <1>7, <1>8, <1>9, <1>10, <1>11, <1>12, 
           <1>13, <1>14, <1>15, <1>16, <1>17, <1>18, <1>19, <1>20
    DEF createInstance

\* deleteInstance: only its end is a step of the contract, success needs the vApp
\* to be gone, and a cleanup may give up the name of a failed create.
LEMMA DeleteKeepsContract ==
    ASSUME IInv, deleteInstance
    PROVE  ContractStep
<1> USE DEF IInv, TypeOK, VApp, Task, PostPcs, BuildPcs, NamedPcs, ActivePcs, EndPcs, DeletePcs,
            PostedOnce, DeletesComeLast, TasksAreOnVApps, DeletesAreFinal, There, Busy
<1> USE DEF ContractStep, Contract!ContractNext, Contract!contractVars, Contract!DeleteEnds
<1>1. ASSUME NEW next \in {"refresh", "deleted", "failed"}, cleanUpInstanceByName(next)
      PROVE  ContractStep
    BY <1>1 DEF cleanUpInstanceByName, DeleteGoto
<1>2. ASSUME NEW next \in {"deleted", "delete", "refreshVM", "failed"}, RefreshVApp(next)
      PROVE  ContractStep
    <2>1. delete.pc = "refresh" /\ delete'.pc = next /\ delete'.tried = delete.tried
          /\ UNCHANGED <<vapp, create>>
        BY <1>2 DEF RefreshVApp
    <2>2. next = "deleted" => vapp.there = "absent"
        BY <1>2 DEF RefreshVApp
    <2> QED BY <2>1, <2>2
<1>3. ASSUME NEW next \in {"powerOff", "waitTasks", "failed"}, waitForTasksCompletion(next)
      PROVE  ContractStep
    <2>1. delete.pc = "waitTasks" /\ delete'.pc = next /\ delete'.tried = delete.tried
          /\ UNCHANGED <<vapp, create>>
        BY <1>3 DEF waitForTasksCompletion
    <2> QED BY <2>1
<1>4. ASSUME NEW ok \in BOOLEAN, RefreshVM(ok)
      PROVE  ContractStep
    BY <1>4 DEF RefreshVM, DeleteGoto
<1>5. ASSUME NEW ok \in BOOLEAN, PowerOff(ok)
      PROVE  ContractStep
    BY <1>5 DEF PowerOff, DeleteGoto, Request, waitTaskCompletion
<1>6. ASSUME NEW ok \in BOOLEAN, Undeploy(ok)
      PROVE  ContractStep
    BY <1>6 DEF Undeploy, DeleteGoto, Request, waitTaskCompletion
<1>7. ASSUME NEW ok \in BOOLEAN, DeleteVApp(ok)
      PROVE  ContractStep
    BY <1>7 DEF DeleteVApp, DeleteGoto, Request, waitTaskCompletion
<1>8. CASE LookupMisleads
    BY <1>8 DEF LookupMisleads, Contract!Forget, Contract!Exists
<1> HIDE DEF IInv, ContractStep
<1> QED BY <1>1, <1>2, <1>3, <1>4, <1>5, <1>6, <1>7, <1>8 DEF deleteInstance

\* A task that ends is invisible, but for a delete that vCD had accepted.
LEMMA TaskKeepsContract ==
    ASSUME IInv, NEW ok \in BOOLEAN, TaskEnds(ok)
    PROVE  ContractStep
<1> USE DEF IInv, TypeOK, VApp, Task, PostPcs, BuildPcs, NamedPcs, ActivePcs, EndPcs, DeletePcs,
            PostedOnce, DeletesComeLast, TasksAreOnVApps, DeletesAreFinal, There, Busy
<1> USE DEF ContractStep, Contract!ContractNext, Contract!contractVars
<1>1. UNCHANGED <<create, delete>> /\ Busy
    BY DEF TaskEnds
<1>2. CASE ok /\ task.what = "delete"
    <2>1. vapp'.there = "absent" /\ delete.tried /\ create \notin PostPcs /\ vapp.there = "yes"
        BY <1>1, <1>2 DEF TaskEnds, Effect, NoVApp
    <2> QED BY <1>1, <2>1 DEF Contract!Vanish, Contract!Exists
<1>3. CASE ~(ok /\ task.what = "delete")
    <2>1. vapp'.there = vapp.there /\ vapp'.tagged = vapp.tagged
        BY <1>1, <1>3 DEF TaskEnds, Effect
    <2> QED BY <1>1, <2>1
<1> QED BY <1>2, <1>3

\* Every step is one of the contract or leaves its state alone.
LEMMA NextKeepsContract ==
    IInv /\ [Next]_vars => ContractStep
<1> SUFFICES ASSUME IInv, [Next]_vars
             PROVE  ContractStep
    OBVIOUS
<1> USE DEF IInv, TypeOK, VApp, Task, PostPcs, BuildPcs, NamedPcs, ActivePcs, EndPcs, DeletePcs,
            PostedOnce, DeletesComeLast, TasksAreOnVApps, DeletesAreFinal, There, Busy
<1> USE DEF ContractStep, Contract!ContractNext, Contract!contractVars
<1>1. CASE createInstance
    BY <1>1, CreateKeepsContract
<1>2. CASE BeginDelete
    BY <1>2 DEF BeginDelete, Contract!BeginDelete
<1>3. CASE deleteInstance
    BY <1>3, DeleteKeepsContract
<1>4. CASE \E ok \in BOOLEAN : TaskEnds(ok)
    BY <1>4, TaskKeepsContract
<1>5. CASE LateCommit
    BY <1>5 DEF LateCommit, Contract!LateCommit
<1>6. ASSUME NEW sent \in BOOLEAN, Crash(sent)
      PROVE  ContractStep
    BY <1>6 DEF Crash, Contract!Crash
<1>7. CASE Finished \/ UNCHANGED vars
    BY <1>7 DEF Finished, vars
<1> HIDE DEF IInv, ContractStep
<1> QED BY <1>1, <1>2, <1>3, <1>4, <1>5, <1>6, <1>7 DEF Next

\* createInstance and deleteInstance, with all their calls, waits, lost answers,
\* failed tasks and crashes, come to no more than the steps that Reconciler takes
\* them for.
THEOREM LifecycleKeepsContract == Spec => KeepsContract
<1>1. IInv /\ [Next]_vars => [Contract!ContractNext]_Contract!contractVars
    BY NextKeepsContract DEF ContractStep
<1> QED BY <1>1, ContractInitially, LifecycleInvariant, PTL
    DEF Spec, KeepsContract, Contract!ContractSpec

=============================================================================
