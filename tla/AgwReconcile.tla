---------------------------- MODULE AgwReconcile ----------------------------
(***************************************************************************)
(* The control flow of MagmaAGWReconciler.Reconcile for one MagmaAGW       *)
(* object: the work queue that starts a pass, the ordered phases of a      *)
(* pass, its early returns, the status write that ends it, and the         *)
(* finalizer-driven deletion.                                              *)
(*                                                                         *)
(* A pass reads the object once, from the informer cache, and works on     *)
(* that copy until it writes the status back.  Between two phases anything *)
(* else may happen: the user edits, deletes or recreates the object, the   *)
(* cache catches up, the gate ConfigMap changes, the manager crashes.      *)
(*                                                                         *)
(* What the sub-handlers (identity, trust bundle, gateway registration and *)
(* deregistration, simulator validation) find in the cluster is the        *)
(* variable "handlers"; what they do there is the subject of the modules   *)
(* about them.                                                             *)
(***************************************************************************)
EXTENDS Naturals

CONSTANTS
    Specs,          \* the specs a user may give the object
    Volatile,       \* the sub-handlers that are not ready from the start on
    MaxGeneration,  \* bound on metadata.generation (edits and the deletion)
    MaxFaults       \* bound on failed API calls, crashes and setbacks

(***************************************************************************)
(* The fields of MagmaAGWSpec that Reconcile branches on.  "selector" says *)
(* whether the merged node selector is non-empty, "ueransim" combines      *)
(* enableUERANSIM with the start policy.                                   *)
(***************************************************************************)
SpecType == [datapath : BOOLEAN, selector : BOOLEAN, registration : BOOLEAN,
             ueransim : {"Off", "Immediate", "AfterAGWReady"},
             validation : BOOLEAN, deleteOnRemoval : BOOLEAN,
             deletePVC : BOOLEAN, deleteIdentitySecret : BOOLEAN]

ASSUME SpecsAssumption == Specs \subseteq SpecType /\ Specs # {}
HandlerNames   == {"identity", "lifecycle", "register", "validate", "deregister"}
HandlerResults == {"ready", "waiting", "failing"}

ASSUME VolatileAssumption == Volatile \subseteq HandlerNames
ASSUME BoundsAssumption == MaxGeneration \in Nat \ {0, 1} /\ MaxFaults \in Nat

VARIABLES
    api,           \* the MagmaAGW object in the API server
    cache,         \* the informer's copy of it
    cacheCurrent,  \* the copy has the API server's resourceVersion
    mem,           \* the copy the running pass works on
    memCurrent,    \* ... has the API server's resourceVersion
    pc,            \* the next phase of the running pass, or "idle"
    local,         \* the pass's local variables
    result,        \* the Ready condition and requeue the pass ends with
    queued,        \* the object's key is in the work queue
    timer,         \* a delayed re-add (RequeueAfter or back-off) is pending
    handlers,      \* what each sub-handler finds in the cluster
    native,        \* the groups of rendered manifest objects that exist
    prepReady,     \* the agw-node-prep DaemonSet reports all pods ready
    labelled,      \* the selected nodes carry the datapath-ready label
    idSecret,      \* the identity Secret and its owner reference
    gate,          \* the UERANSIM gate ConfigMap says ready=true
    gateCache,     \* the informer's copy of that
    faults         \* faults so far

objectVars == <<api, cache, cacheCurrent>>
passVars   == <<mem, memCurrent, pc, local, result>>
queueVars  == <<queued, timer>>
worldVars  == <<native, prepReady, labelled, idSecret>>
gateVars   == <<gate, gateCache>>
vars == <<objectVars, passVars, queueVars, handlers, worldVars, gateVars, faults>>

-----------------------------------------------------------------------------
(* Objects and conditions *)

CondTypes  == {"Ready", "IdentityReady", "DatapathReady", "TrustBundleSynced",
               "GatewayRegistered", "UERANSIMValidated"}
CondStatus == {"None", "True", "False", "Unknown"}
Reasons    == {"None", "Failed", "Waiting", "DatapathReady",
               "WaitingForUERANSIMGate", "NativeResourcesReady"}
Groups     == {"pvc", "nodePrep", "workloads", "simulator"}

Object == [exists : BOOLEAN, gen : 0..MaxGeneration, spec : Specs,
           deleting : BOOLEAN, finalizer : BOOLEAN,
           obs : 0..MaxGeneration, conds : [CondTypes -> CondStatus],
           reason : Reasons, registered : BOOLEAN]

NewObject(s) ==
    [exists |-> TRUE, gen |-> 1, spec |-> s, deleting |-> FALSE,
     finalizer |-> FALSE, obs |-> 0,
     conds |-> [c \in CondTypes |-> "None"], reason |-> "None",
     registered |-> FALSE]

NoObject == [NewObject(CHOOSE s \in Specs : TRUE) EXCEPT !.exists = FALSE, !.gen = 0]

Local   == [datapathReady : BOOLEAN, simulator : BOOLEAN, gatePending : BOOLEAN]
NoLocal == [datapathReady |-> TRUE, simulator |-> FALSE, gatePending |-> FALSE]

Result   == [ready : {"True", "False"}, reason : Reasons, requeue : BOOLEAN]
NoResult == [ready |-> "False", reason |-> "None", requeue |-> FALSE]

Phases == {"idle", "addFinalizer", "identity", "datapath", "lifecycle",
           "register", "ueransim", "native", "rollout", "labels", "validate",
           "status", "deregister", "deleteNative", "unlabel", "cleanup",
           "removeFinalizer"}

(* setAGWCondition and removeAGWCondition on the pass's copy. *)
setAGWCondition(o, type, status) == [o EXCEPT !.conds = [@ EXCEPT ![type] = status]]
removeAGWCondition(o, type) == setAGWCondition(o, type, "None")

(* updateAGWStatusDetails: the status fields that come from the identity. *)
updateAGWStatusDetails(o, registered) == [o EXCEPT !.registered = registered]

(* What the API server makes of an object. *)
WithFinalizer(o, b) == [o EXCEPT !.finalizer = b]
WithSpec(o, s)      == [o EXCEPT !.spec = s, !.gen = @ + 1]
Terminating(o)      == [o EXCEPT !.deleting = TRUE, !.gen = @ + 1]
WithStatus(o, gen, conds, reason, registered) ==
    [o EXCEPT !.obs = gen, !.conds = conds, !.reason = reason, !.registered = registered]

(* What agwDatapathNodesReady and ueransimStartGateReady leave in the pass. *)
WithDatapath(l, ready) == [l EXCEPT !.datapathReady = ready]
WithGate(l, simulator, pending) ==
    [l EXCEPT !.simulator = simulator, !.gatePending = pending]

ObjectsOK ==
    /\ api \in Object
    /\ cache \in Object
    /\ cacheCurrent \in BOOLEAN

PassOK ==
    /\ mem \in Object
    /\ memCurrent \in BOOLEAN
    /\ pc \in Phases
    /\ local \in Local
    /\ result \in Result

QueueOK == queued \in BOOLEAN /\ timer \in BOOLEAN

WorldOK ==
    /\ handlers \in [HandlerNames -> HandlerResults]
    /\ native \subseteq Groups
    /\ prepReady \in BOOLEAN
    /\ labelled \in BOOLEAN
    /\ idSecret \in {"none", "owned", "dangling"}
    /\ gate \in BOOLEAN
    /\ gateCache \in BOOLEAN
    /\ faults \in 0..MaxFaults

TypeOK == ObjectsOK /\ PassOK /\ QueueOK /\ WorldOK

-----------------------------------------------------------------------------
Init ==
    /\ api = NoObject
    /\ cache = NoObject
    /\ cacheCurrent = TRUE
    /\ mem = NoObject
    /\ memCurrent = FALSE
    /\ pc = "idle"
    /\ local = NoLocal
    /\ result = NoResult
    /\ queued = FALSE
    /\ timer = FALSE
    /\ handlers = [h \in HandlerNames |-> IF h \in Volatile \ {"identity"} THEN "waiting" ELSE "ready"]
    /\ native = {}
    /\ prepReady = FALSE
    /\ labelled = FALSE
    /\ idSecret = "none"
    /\ gate = FALSE
    /\ gateCache = FALSE
    /\ faults = 0

Fault   == faults < MaxFaults /\ faults' = faults + 1
NoFault == UNCHANGED faults

(* A write to the API server: both copies of the old version become stale. *)
Write(o) ==
    /\ api' = o
    /\ cacheCurrent' = FALSE
    /\ UNCHANGED cache

(* Reconcile returns; "again" when with an error or a RequeueAfter. *)
Return(again) ==
    /\ pc' = "idle"
    /\ mem' = NoObject
    /\ memCurrent' = FALSE
    /\ local' = NoLocal
    /\ result' = NoResult
    /\ timer' = (timer \/ again)
    /\ UNCHANGED queued

(* The pass goes on with phase "next" and its copy is now "o". *)
Continue(next, o) ==
    /\ pc' = next
    /\ mem' = o
    /\ UNCHANGED <<memCurrent, result, queueVars, objectVars>>

(* The pass ends by writing the status: the arguments of updateAGWStatus. *)
Finish(o, ready, reason, requeue) ==
    /\ pc' = "status"
    /\ mem' = o
    /\ result' = [ready |-> ready, reason |-> reason, requeue |-> requeue]
    /\ UNCHANGED <<memCurrent, local, queueVars, objectVars>>

(* Mutant: a pass that is not ready leaves no requeue behind. *)
updateAGWStatusNoRequeue(o, reason) == Finish(o, "False", reason, FALSE)

updateAGWStatus(o, reason) == Finish(o, "False", reason, TRUE)

-----------------------------------------------------------------------------
(* The pass *)

(* Mutant: workloads are applied before the object holds the finalizer. *)
FirstPhaseNoFinalizer(o) == IF o.deleting THEN "deregister" ELSE "identity"

FirstPhase(o) ==
    CASE o.deleting -> "deregister"
      [] ~o.deleting /\ ~o.finalizer -> "addFinalizer"
      [] OTHER -> "identity"

(* Reconcile up to its first branch: take the key, read the object. *)
Get ==
    /\ pc = "idle"
    /\ queued
    /\ queued' = FALSE
    /\ \/ /\ cache.exists
          /\ cache.deleting => cache.finalizer
          /\ pc' = FirstPhase(cache)
          /\ mem' = cache
          /\ memCurrent' = cacheCurrent
       \/ /\ ~cache.exists \/ (cache.deleting /\ ~cache.finalizer)
          /\ UNCHANGED <<pc, mem, memCurrent>>
    /\ UNCHANGED <<objectVars, local, result, timer, handlers, worldVars, gateVars, faults>>

(* The merge patch names the object and carries no resourceVersion. *)
AddFinalizer ==
    /\ pc = "addFinalizer"
    /\ \/ api.exists /\ ~api.finalizer /\ Write(WithFinalizer(api, TRUE)) /\ NoFault
       \/ ~(api.exists /\ ~api.finalizer) /\ UNCHANGED objectVars /\ NoFault
       \/ UNCHANGED objectVars /\ Fault
    /\ Return(TRUE)
    /\ UNCHANGED <<handlers, worldVars, gateVars>>

(* reconcileAGWIdentity creates or updates the Secret and makes the object *)
(* its controller; updateAGWStatusDetails resets gatewayRegistered.        *)
ReconcileIdentity ==
    /\ pc = "identity"
    /\ \/ /\ handlers["identity"] = "ready"
          /\ idSecret' = "owned"
          /\ Continue("datapath",
                updateAGWStatusDetails(setAGWCondition(mem, "IdentityReady", "True"), FALSE))
          /\ NoFault
          /\ UNCHANGED local
       \/ /\ \/ handlers["identity"] = "failing" /\ NoFault /\ UNCHANGED idSecret
             \/ Fault /\ idSecret' \in {idSecret, "owned"}
          /\ updateAGWStatus(setAGWCondition(mem, "IdentityReady", "False"), "Failed")
    /\ UNCHANGED <<handlers, native, prepReady, labelled, gateVars>>

NodesPrepared == "nodePrep" \in native /\ prepReady

(* agwDatapathNodesReady: every selected node labelled, DaemonSet ready. *)
agwDatapathNodesReady == labelled /\ NodesPrepared

CheckDatapath ==
    /\ pc = "datapath"
    /\ \/ /\ ~mem.spec.datapath
          /\ Continue("lifecycle", mem)
          /\ local' = WithDatapath(local, TRUE)
          /\ NoFault
       \/ /\ mem.spec.datapath /\ ~mem.spec.selector
          /\ updateAGWStatus(mem, "Failed")
          /\ NoFault
       \/ /\ mem.spec.datapath /\ mem.spec.selector
          /\ Continue("lifecycle",
                setAGWCondition(mem, "DatapathReady",
                                IF agwDatapathNodesReady THEN "True" ELSE "False"))
          /\ local' = WithDatapath(local, agwDatapathNodesReady)
          /\ NoFault
       \/ /\ mem.spec.datapath /\ mem.spec.selector
          /\ updateAGWStatus(setAGWCondition(mem, "DatapathReady", "False"), "Failed")
          /\ Fault
    /\ UNCHANGED <<handlers, worldVars, gateVars>>

ReconcileLifecycle ==
    /\ pc = "lifecycle"
    /\ \/ /\ handlers["lifecycle"] = "ready"
          /\ Continue("register", setAGWCondition(mem, "TrustBundleSynced", "True"))
          /\ NoFault
          /\ UNCHANGED local
       \/ /\ handlers["lifecycle"] = "waiting"
          /\ updateAGWStatus(setAGWCondition(mem, "TrustBundleSynced", "False"), "Waiting")
          /\ NoFault
       \/ /\ (handlers["lifecycle"] = "failing" /\ NoFault) \/ Fault
          /\ updateAGWStatus(setAGWCondition(mem, "TrustBundleSynced", "False"), "Failed")
    /\ UNCHANGED <<handlers, worldVars, gateVars>>

ReconcileRegistration ==
    LET Registered(status) ==
            updateAGWStatusDetails(setAGWCondition(mem, "GatewayRegistered", status),
                                   status = "True")
    IN
    /\ pc = "register"
    /\ \/ /\ ~mem.spec.registration
          /\ Continue("ueransim", Registered("False"))
          /\ NoFault
          /\ UNCHANGED local
       \/ /\ mem.spec.registration /\ handlers["register"] = "ready"
          /\ Continue("ueransim", Registered("True"))
          /\ NoFault
          /\ UNCHANGED local
       \/ /\ mem.spec.registration /\ handlers["register"] = "waiting"
          /\ updateAGWStatus(Registered("False"), "Waiting")
          /\ NoFault
       \/ /\ mem.spec.registration
          /\ (handlers["register"] = "failing" /\ NoFault) \/ Fault
          /\ updateAGWStatus(setAGWCondition(mem, "GatewayRegistered", "False"), "Failed")
    /\ UNCHANGED <<handlers, worldVars, gateVars>>

(* Mutant: every start policy starts the simulator at once. *)
StartGateAnyPolicy ==
    /\ pc = "ueransim"
    /\ local' = WithGate(local, mem.spec.ueransim # "Off", FALSE)
    /\ Continue("native", mem)
    /\ NoFault
    /\ UNCHANGED <<handlers, worldVars, gateVars>>

(* ueransimStartGateReady reads the gate ConfigMap from the cache. *)
StartGate ==
    /\ pc = "ueransim"
    /\ \/ /\ Continue("native", mem)
          /\ LET gated == mem.spec.ueransim = "AfterAGWReady" IN
             local' = WithGate(local,
                               mem.spec.ueransim = "Immediate" \/ (gated /\ gateCache),
                               gated /\ ~gateCache)
          /\ NoFault
       \/ /\ mem.spec.ueransim = "AfterAGWReady"
          /\ updateAGWStatus(mem, "Failed")
          /\ Fault
    /\ UNCHANGED <<handlers, worldVars, gateVars>>

(* nativeAGWApplyFilter: the simulator's objects only when it is enabled. *)
nativeAGWApplyFilter == Groups \ (IF local.simulator THEN {} ELSE {"simulator"})

(* Mutant: an object the filter rejects is skipped. *)
ReleaseSkipping(done) == native \cup (nativeAGWApplyFilter \cap done)

(* The loop of reconcileNativeRelease over the groups "done": an object the *)
(* filter rejects is deleted, every other one applied.                      *)
Release(done) == (native \ done) \cup (nativeAGWApplyFilter \cap done)

(* An error leaves the objects the loop did not reach as they were. *)
ReconcileNative ==
    /\ pc = "native"
    /\ \/ /\ native' = Release(Groups)
          /\ Continue("rollout", mem)
          /\ NoFault
          /\ UNCHANGED local
       \/ /\ \E done \in SUBSET Groups : native' = Release(done)
          /\ updateAGWStatus(mem, "Failed")
          /\ Fault
    /\ UNCHANGED <<handlers, prepReady, labelled, idSecret, gateVars>>

(* annotateAGWCoreDeploymentsForRootCA and cleanupStaleAGWPods. *)
Rollout ==
    /\ pc = "rollout"
    /\ \/ Continue("labels", mem) /\ NoFault /\ UNCHANGED local
       \/ updateAGWStatus(mem, "Failed") /\ Fault
    /\ UNCHANGED <<handlers, worldVars, gateVars>>

(* Mutant: the nodes are ready once the DaemonSet is, labelled or not. *)
DatapathPendingUnprepared == mem.spec.datapath /\ ~NodesPrepared

DatapathPending == mem.spec.datapath /\ ~local.datapathReady

(* reconcileAGWDatapathLabels when the nodes were not ready in this pass,  *)
(* then the return for a closed gate.                                      *)
ReconcileLabels ==
    /\ pc = "labels"
    /\ \/ /\ DatapathPending
          /\ labelled' = NodesPrepared
          /\ updateAGWStatus(mem, IF NodesPrepared THEN "DatapathReady" ELSE "Waiting")
          /\ NoFault
       \/ /\ DatapathPending
          /\ labelled' \in {labelled, NodesPrepared}
          /\ updateAGWStatus(mem, "Failed")
          /\ Fault
       \/ /\ ~DatapathPending /\ local.gatePending
          /\ updateAGWStatus(mem, "WaitingForUERANSIMGate")
          /\ NoFault
          /\ UNCHANGED labelled
       \/ /\ ~DatapathPending /\ ~local.gatePending
          /\ Continue("validate", mem)
          /\ NoFault
          /\ UNCHANGED <<local, labelled>>
    /\ UNCHANGED <<handlers, native, prepReady, idSecret, gateVars>>

(* reconcileUERANSIMValidation never withholds Ready=True. *)
Validate ==
    LET Done(status, requeue) ==
            Finish(setAGWCondition(mem, "UERANSIMValidated", status),
                   "True", "NativeResourcesReady", requeue)
    IN
    /\ pc = "validate"
    /\ \/ /\ ~mem.spec.validation
          /\ Finish(removeAGWCondition(mem, "UERANSIMValidated"),
                    "True", "NativeResourcesReady", FALSE)
          /\ NoFault
       \/ /\ mem.spec.validation /\ mem.spec.ueransim = "Off"
          /\ Finish(mem, "True", "NativeResourcesReady", FALSE)
          /\ NoFault
       \/ /\ mem.spec.validation /\ mem.spec.ueransim # "Off"
          /\ \/ handlers["validate"] = "ready"   /\ Done("True", FALSE)   /\ NoFault
             \/ handlers["validate"] = "failing" /\ Done("False", FALSE)  /\ NoFault
             \/ handlers["validate"] = "waiting" /\ Done("Unknown", TRUE) /\ NoFault
             \/ Done("False", TRUE) /\ Fault
    /\ UNCHANGED <<handlers, worldVars, gateVars>>

(* The status updateAGWStatusWithRequeue puts on o. *)
PassStatus(o, gen) ==
    WithStatus(o, gen, setAGWCondition(mem, "Ready", result.ready).conds,
               result.reason, mem.registered)

(* Mutant: the generation after the one the pass read. *)
StatusOfNextGeneration == PassStatus(api, mem.gen + 1)

NewStatus == PassStatus(api, mem.gen)

(* Mutant: on a conflict the status is put on the latest version. *)
UpdateStatusRetrying ==
    /\ pc = "status"
    /\ api.exists
    /\ Write(PassStatus(api, api.gen))
    /\ Return(result.requeue)
    /\ UNCHANGED <<handlers, worldVars, gateVars, faults>>

(* Status().Update succeeds only on the version the pass read.  An update  *)
(* that changes nothing is no write.                                       *)
UpdateStatus ==
    /\ pc = "status"
    /\ \/ /\ api.exists /\ memCurrent
          /\ IF NewStatus = api THEN UNCHANGED objectVars ELSE Write(NewStatus)
          /\ Return(result.requeue)
          /\ NoFault
       \/ /\ ~(api.exists /\ memCurrent)
          /\ UNCHANGED objectVars
          /\ Return(TRUE)
          /\ NoFault
       \/ /\ UNCHANGED objectVars
          /\ Return(TRUE)
          /\ Fault
    /\ UNCHANGED <<handlers, worldVars, gateVars>>

-----------------------------------------------------------------------------
(* reconcileAGWDeletion *)

(* Mutant: the identity Secret goes before the workloads that mount it. *)
DeregisterAndCleanup ==
    /\ pc = "deregister"
    /\ handlers["deregister"] = "ready"
    /\ idSecret' = IF mem.spec.deleteIdentitySecret THEN "none" ELSE idSecret
    /\ Continue("deleteNative", mem)
    /\ UNCHANGED <<local, handlers, native, prepReady, labelled, gateVars, faults>>

Deregister ==
    LET skipped == ~(mem.spec.deleteOnRemoval /\ mem.spec.registration) IN
    /\ pc = "deregister"
    /\ \/ /\ skipped \/ handlers["deregister"] = "ready"
          /\ Continue("deleteNative", mem)
          /\ NoFault
          /\ UNCHANGED local
       \/ /\ ~skipped /\ handlers["deregister"] = "waiting"
          /\ updateAGWStatus(mem, "Waiting")
          /\ NoFault
       \/ /\ ~skipped
          /\ (handlers["deregister"] = "failing" /\ NoFault) \/ Fault
          /\ updateAGWStatus(mem, "Failed")
    /\ UNCHANGED <<handlers, worldVars, gateVars>>

(* deleteNativeRelease deletes every object of agw.yaml, the PVC with them. *)
DeleteNative ==
    /\ pc = "deleteNative"
    /\ \/ /\ native' = {}
          /\ Continue("unlabel", mem)
          /\ NoFault
          /\ UNCHANGED local
       \/ /\ \E done \in SUBSET Groups : native' = native \ done
          /\ updateAGWStatus(mem, "Failed")
          /\ Fault
    /\ prepReady' = (prepReady /\ "nodePrep" \in native')
    /\ UNCHANGED <<handlers, labelled, idSecret, gateVars>>

(* removeAGWDatapathLabels on the nodes that match the selector now. *)
RemoveLabels ==
    /\ pc = "unlabel"
    /\ \/ /\ labelled' = (labelled /\ ~mem.spec.selector)
          /\ Continue("cleanup", mem)
          /\ NoFault
          /\ UNCHANGED local
       \/ /\ mem.spec.selector
          /\ labelled' \in {labelled, FALSE}
          /\ Return(TRUE)
          /\ Fault
          /\ UNCHANGED objectVars
    /\ UNCHANGED <<handlers, native, prepReady, idSecret, gateVars>>

cleanupAGWDurableState ==
    LET Deleted(pvc, secret) ==
            /\ native' = native \ (IF pvc THEN {"pvc"} ELSE {})
            /\ idSecret' = IF secret THEN "none" ELSE idSecret
    IN
    /\ pc = "cleanup"
    /\ \/ /\ Deleted(mem.spec.deletePVC, mem.spec.deleteIdentitySecret)
          /\ Continue("removeFinalizer", mem)
          /\ NoFault
          /\ UNCHANGED local
       \/ /\ mem.spec.deletePVC \/ mem.spec.deleteIdentitySecret
          /\ \E pvc, secret \in BOOLEAN :
                /\ pvc => mem.spec.deletePVC
                /\ secret => mem.spec.deleteIdentitySecret
                /\ Deleted(pvc, secret)
          /\ Return(TRUE)
          /\ Fault
          /\ UNCHANGED objectVars
    /\ UNCHANGED <<handlers, prepReady, labelled, gateVars>>

(* The last finalizer goes and the API server drops the object; the owner  *)
(* reference of the identity Secret then names nobody.                     *)
RemoveFinalizer ==
    /\ pc = "removeFinalizer"
    /\ \/ /\ api.exists /\ api.deleting
          /\ Write(NoObject)
          /\ idSecret' = IF idSecret = "owned" THEN "dangling" ELSE idSecret
          /\ Return(FALSE)
          /\ NoFault
       \/ /\ api.exists /\ ~api.deleting
          /\ IF api.finalizer THEN Write(WithFinalizer(api, FALSE))
                              ELSE UNCHANGED objectVars
          /\ Return(FALSE)
          /\ NoFault
          /\ UNCHANGED idSecret
       \/ /\ ~api.exists
          /\ UNCHANGED <<objectVars, idSecret>>
          /\ Return(TRUE)
          /\ NoFault
       \/ /\ UNCHANGED <<objectVars, idSecret>>
          /\ Return(TRUE)
          /\ Fault
    /\ UNCHANGED <<handlers, native, prepReady, labelled, gateVars>>

-----------------------------------------------------------------------------
(* The user, the API machinery and the cluster *)

UserCreate(s) ==
    /\ ~api.exists
    /\ Write(NewObject(s))
    /\ memCurrent' = FALSE
    /\ UNCHANGED <<mem, pc, local, result, queueVars, handlers, worldVars, gateVars, faults>>

UserEdit(s) ==
    /\ api.exists
    /\ s # api.spec
    /\ api.gen + 1 < MaxGeneration
    /\ Write(WithSpec(api, s))
    /\ memCurrent' = FALSE
    /\ UNCHANGED <<mem, pc, local, result, queueVars, handlers, worldVars, gateVars, faults>>

(* A finalizer holds the object: its deletion timestamp is a new generation. *)
UserDelete ==
    /\ api.exists
    /\ ~api.deleting
    /\ api.gen < MaxGeneration
    /\ Write(IF api.finalizer THEN Terminating(api) ELSE NoObject)
    /\ memCurrent' = FALSE
    /\ UNCHANGED <<mem, pc, local, result, queueVars, handlers, worldVars, gateVars, faults>>

(* The informer catches up; For() has no predicate, so every change of the *)
(* object puts its key in the queue.                                       *)
SyncCache ==
    /\ ~cacheCurrent
    /\ cache' = api
    /\ cacheCurrent' = TRUE
    /\ queued' = TRUE
    /\ UNCHANGED <<api, passVars, timer, handlers, worldVars, gateVars, faults>>

(* A gate that no spec reads stays as it is. *)
SetGate ==
    /\ \E s \in Specs : s.ueransim = "AfterAGWReady"
    /\ gate' = ~gate
    /\ UNCHANGED <<objectVars, passVars, queueVars, handlers, worldVars, gateCache, faults>>

(* The objects in the cache that name this gate. *)
mapUERANSIMGateConfigMap == cache.exists /\ cache.spec.ueransim # "Off"

(* Watches(ConfigMap): what the map function returns is queued. *)
SyncGate ==
    /\ gateCache # gate
    /\ gateCache' = gate
    /\ queued' = (queued \/ mapUERANSIMGateConfigMap)
    /\ UNCHANGED <<objectVars, passVars, timer, handlers, worldVars, gate, faults>>

TimerFires ==
    /\ timer
    /\ timer' = FALSE
    /\ queued' = TRUE
    /\ UNCHANGED <<objectVars, passVars, handlers, worldVars, gateVars, faults>>

(* The informer's periodic resync. *)
Resync ==
    /\ cache.exists
    /\ ~queued
    /\ queued' = TRUE
    /\ UNCHANGED <<objectVars, passVars, timer, handlers, worldVars, gateVars, faults>>

(* What a handler finds changes on its own; for the worse at most MaxFaults *)
(* times.  The identity handler waits for nothing.                          *)
HandlerChange(h, v) ==
    /\ v # handlers[h]
    /\ h = "identity" => v # "waiting"
    /\ IF v = "ready" THEN NoFault ELSE Fault
    /\ handlers' = [handlers EXCEPT ![h] = v]
    /\ UNCHANGED <<objectVars, passVars, queueVars, worldVars, gateVars>>

NodePrepStatus ==
    /\ "nodePrep" \in native
    /\ IF prepReady THEN Fault ELSE NoFault
    /\ prepReady' = ~prepReady
    /\ UNCHANGED <<objectVars, passVars, queueVars, handlers, native, labelled, idSecret, gateVars>>

(* An object whose owner reference names nobody is collected. *)
GarbageCollect ==
    /\ idSecret = "dangling"
    /\ idSecret' = "none"
    /\ UNCHANGED <<objectVars, passVars, queueVars, handlers, native, prepReady, labelled, gateVars, faults>>

(* The manager restarts: it lists every object afresh and queues it. *)
Crash ==
    /\ Fault
    /\ pc' = "idle"
    /\ mem' = NoObject
    /\ memCurrent' = FALSE
    /\ local' = NoLocal
    /\ result' = NoResult
    /\ timer' = FALSE
    /\ cache' = api
    /\ cacheCurrent' = TRUE
    /\ gateCache' = gate
    /\ queued' = api.exists
    /\ UNCHANGED <<api, handlers, worldVars, gate>>

-----------------------------------------------------------------------------
Reconcile ==
    \/ Get \/ AddFinalizer \/ ReconcileIdentity \/ CheckDatapath
    \/ ReconcileLifecycle \/ ReconcileRegistration \/ StartGate
    \/ ReconcileNative \/ Rollout \/ ReconcileLabels \/ Validate \/ UpdateStatus
    \/ Deregister \/ DeleteNative \/ RemoveLabels \/ cleanupAGWDurableState
    \/ RemoveFinalizer

User == UserDelete \/ \E s \in Specs : UserCreate(s) \/ UserEdit(s)

Environment ==
    \/ SyncCache \/ SetGate \/ SyncGate \/ TimerFires \/ Resync
    \/ NodePrepStatus \/ GarbageCollect \/ Crash
    \/ \E h \in Volatile, v \in HandlerResults : HandlerChange(h, v)

Next == Reconcile \/ User \/ Environment

(***************************************************************************)
(* The worker goroutine runs while there is a key in the queue, informers  *)
(* deliver what they watch, and a delayed re-add comes back.  Nothing is   *)
(* assumed of the user, the gate, the handlers' world or the resync.       *)
(***************************************************************************)
Fairness ==
    /\ WF_vars(Reconcile)
    /\ WF_vars(SyncCache)
    /\ WF_vars(SyncGate)
    /\ WF_vars(TimerFires)

Spec == Init /\ [][Next]_vars /\ Fairness

-----------------------------------------------------------------------------
(* Properties *)

(* Settled: the passes the docs tell an operator to wait for have run for   *)
(* the object's current generation.                                         *)
Settled ==
    /\ api.exists
    /\ api.obs = api.gen
    /\ api.reason \in {"NativeResourcesReady", "WaitingForUERANSIMGate"}

(***************************************************************************)
(* When the status of the current generation says the AGW is ready, or     *)
(* waits only for the UERANSIM gate, then every prerequisite of THAT       *)
(* generation's spec is reported as met and the AGW's objects are in the   *)
(* cluster -- whatever was edited while the pass ran.                      *)
(***************************************************************************)
SettledMeansReconciled ==
    Settled =>
        /\ api.conds["IdentityReady"] = "True"
        /\ api.spec.datapath => api.spec.selector /\ api.conds["DatapathReady"] = "True"
        /\ api.conds["TrustBundleSynced"] = "True"
        /\ api.spec.registration =>
              api.conds["GatewayRegistered"] = "True" /\ api.registered
        /\ ~api.deleting => {"pvc", "nodePrep", "workloads"} \subseteq native

(***************************************************************************)
(* A simulator never outlives the spec that asked for it: once the status  *)
(* has settled for a generation without UERANSIM, no simulator workload    *)
(* exists, and no pass that started from an older copy brings it back.     *)
(***************************************************************************)
SimulatorFollowsSpec ==
    Settled /\ api.spec.ueransim = "Off" => "simulator" \notin native

(***************************************************************************)
(* The finalizer's promise: as long as a rendered object is in the cluster *)
(* the MagmaAGW object exists and holds the finalizer, through races of    *)
(* edits, deletion, recreation, stale caches and crashes.                  *)
(***************************************************************************)
NoOrphans == native # {} => api.exists /\ api.finalizer

(* AGW workloads mount the identity Secret: it exists as long as they do.  *)
WorkloadsHaveIdentity == "workloads" \in native => idSecret = "owned"

(* The cluster lets a pass through to its end. *)
Favourable ==
    /\ api.exists /\ ~api.deleting
    /\ api.spec.datapath => api.spec.selector
    /\ \A h \in {"identity", "lifecycle", "register"} : handlers[h] = "ready"
    /\ "nodePrep" \in native => prepReady

(***************************************************************************)
(* If the cluster becomes and stays favourable, the status settles for the *)
(* last generation, however many passes failed before and whatever the     *)
(* manager missed: no early return of Reconcile goes without a requeue.    *)
(***************************************************************************)
Converges == <>[]Favourable => <>[]Settled

(***************************************************************************)
(* A deleted object goes once deregistration can succeed: no phase of the  *)
(* deletion waits for something that no event or requeue announces.        *)
(***************************************************************************)
DeletionCompletes ==
    [](api.deleting /\ [](handlers["deregister"] = "ready") => <>(~api.deleting))

(***************************************************************************)
(* Closing the gate stops the simulator although Ready=True leaves no      *)
(* requeue behind: the ConfigMap watch starts the pass.                    *)
(***************************************************************************)
GateCloses ==
    <>[](Favourable /\ ~gate /\ api.spec.ueransim = "AfterAGWReady")
        => <>[]("simulator" \notin native)

(***************************************************************************)
(* README.md: "The controller preserves the managed identity Secret and    *)
(* AGW PVC on CR deletion by default": the PVC goes only on request.       *)
(***************************************************************************)
PVCPreserved ==
    [][("pvc" \in native /\ "pvc" \notin native') => mem.spec.deletePVC]_vars

=============================================================================
