---------------------------- MODULE TrustBundle ----------------------------
(***************************************************************************)
(* reconcileAGWTrustBundle and what the rest of a pass does with its hash: *)
(* Orc8r's root CA goes from the Orc8r cert Secret into the AGW's cert     *)
(* Secret, from there through a one-shot Job into the AGW's volume, and    *)
(* then the AGW's Deployments are rolled.  The Job's pods, the manifest's  *)
(* own configuration Job, the informer caches, TTLs and a restart of the   *)
(* manager all run beside the pass.                                        *)
(*                                                                         *)
(* A CA (and its hash) is a number: Orc8r's CAs are 1, 2, ... in the order *)
(* in which they are generated, 0 is the placeholder in the manifest's     *)
(* Secret.  None stands for an absent object, key or annotation.  The      *)
(* release is called agwc, so that the names the code derives are the ones *)
(* in the manifest.                                                        *)
(***************************************************************************)
EXTENDS Integers

CONSTANTS
    MaxCA,     \* bound on the CAs Orc8r generates
    MaxFaults  \* bound on failed calls, failed pods and crashes

ASSUME BoundsAssumption == MaxCA \in Nat \ {0} /\ MaxFaults \in Nat

VARIABLES
    served,     \* rootCA.pem of the Orc8r cert Secret
    secret,     \* rootCA.pem of the AGW cert Secret the operator writes
    pvc,        \* the AGW's volume: root CA, and the CA its gateway.crt is from
    job,        \* the Job <release>-rootca-sync
    pod,        \* the pod of that Job
    orphans,    \* pods of sync Jobs that were deleted in the background
    config,     \* the manifest's Job <release>-config-1 and its pod
    deploy,     \* the AGW core Deployments' root-CA annotation
    cache,      \* the informers' copies
    pass,       \* the running pass
    status,     \* TrustBundleSynced, trustBundleHash and Ready in the status
    wake,       \* the object's key is queued, or will be by a timer
    delivered,  \* history: the newest CA copied to the volume, or found to
                \* need no copy because there was no volume
    jobSeen,    \* history: a pass has read that the sync Job succeeded
    faults

jobVars == <<job, jobSeen, pod, orphans>>
clusterVars == <<secret, pvc, jobVars, config, deploy>>
vars == <<served, clusterVars, cache, pass, status, wake, delivered, faults>>

None      == -1
NoPod     == -3
Pending   == -2        \* a pod that has not mounted the Secret yet
CA        == 1..MaxCA
Content   == {None, 0} \cup CA
PodState  == {NoPod, Pending} \cup Content
NoJob     == [hash |-> None, succeeded |-> FALSE, failed |-> 0]
Job       == [hash : Content, succeeded : BOOLEAN, failed : 0..2]
Phases    == {"idle", "secret", "job", "apply", "rollout", "status"}

TypeOK ==
    /\ served \in {None} \cup CA
    /\ secret \in Content
    /\ pvc \in [exists : BOOLEAN, ca : Content, gateway : {None} \cup CA]
    /\ job \in Job
    /\ pod \in PodState
    /\ orphans \subseteq PodState
    /\ config \in [state : {"none", "running", "finished"}, ca : PodState]
    /\ deploy \in [exists : BOOLEAN, hash : Content]
    /\ cache \in [served : {None} \cup CA, secret : Content, secretCurrent : BOOLEAN,
                  pvc : BOOLEAN, job : Job, deploy : [exists : BOOLEAN, hash : Content]]
    /\ pass \in [pc : Phases, hash : {None} \cup CA, synced : BOOLEAN, ready : BOOLEAN]
    /\ status \in [hash : {None} \cup CA, synced : BOOLEAN, ready : BOOLEAN]
    /\ wake \in BOOLEAN
    /\ delivered \in 0..MaxCA
    /\ jobSeen \in BOOLEAN
    /\ faults \in 0..MaxFaults

Idle == [pc |-> "idle", hash |-> None, synced |-> FALSE, ready |-> FALSE]

(* A first installation, or one that finds the volume of an earlier one. *)
Init ==
    /\ served = None
    /\ secret = None
    /\ pvc \in [exists : BOOLEAN, ca : {None, 0}, gateway : {None}]
    /\ pvc.exists <=> pvc.ca = 0
    /\ job = NoJob
    /\ pod = NoPod
    /\ orphans = {}
    /\ config = [state |-> "none", ca |-> NoPod]
    /\ deploy = [exists |-> FALSE, hash |-> None]
    /\ cache = [served |-> served, secret |-> None, secretCurrent |-> TRUE,
                pvc |-> pvc.exists, job |-> NoJob, deploy |-> deploy]
    /\ pass = Idle
    /\ status = [hash |-> None, synced |-> FALSE, ready |-> FALSE]
    /\ wake = TRUE
    /\ delivered = 0
    /\ jobSeen = FALSE
    /\ faults = 0

Fault   == faults < MaxFaults /\ faults' = faults + 1
NoFault == UNCHANGED faults
Newest(a, b) == IF a < b THEN b ELSE a

-----------------------------------------------------------------------------
(* The pass *)

Goto(phase)     == pass' = [pass EXCEPT !.pc = phase]
(* The pass ends by writing the status with TrustBundleSynced "synced". *)
End(synced)     == pass' = [pass EXCEPT !.pc = "status", !.synced = synced]
Unsynced        == End(FALSE)

(* A pass starts and reads the Orc8r cert Secret through the cache: it     *)
(* waits when the Secret or its rootCA.pem is missing.  An error may also  *)
(* come from the Service the host alias is for, which is read before.      *)
Start ==
    /\ pass.pc = "idle" /\ wake
    /\ wake' = FALSE
    /\ \/ /\ cache.served # None
          /\ pass' = [pass EXCEPT !.pc = "secret", !.hash = cache.served]
          /\ NoFault
       \/ cache.served = None /\ Unsynced /\ NoFault
       \/ Unsynced /\ Fault
    /\ UNCHANGED <<served, clusterVars, cache, status, delivered>>

(* controllerutil.CreateOrUpdate: Create when the cache has none, nothing  *)
(* when the cached copy is as wanted, else Update at the cached version.   *)
SyncSecret ==
    IF cache.secret = pass.hash
    THEN UNCHANGED <<secret, cache>> /\ Goto("job")
    ELSE IF IF cache.secret = None THEN secret = None ELSE cache.secretCurrent
    THEN secret' = pass.hash /\ cache' = [cache EXCEPT !.secretCurrent = FALSE] /\ Goto("job")
    ELSE UNCHANGED <<secret, cache>> /\ Unsynced

WriteAGWSecret ==
    /\ pass.pc = "secret"
    /\ \/ SyncSecret /\ NoFault
       \/ UNCHANGED <<secret, cache>> /\ Unsynced /\ Fault
    /\ UNCHANGED <<served, pvc, jobVars, config, deploy, status, wake, delivered>>

(* Background deletion by name: the Job is gone, its pod is left behind. *)
DeleteJob ==
    /\ job' = NoJob
    /\ jobSeen' = FALSE
    /\ pod' = NoPod
    /\ orphans' = IF pod = NoPod THEN orphans ELSE orphans \cup {pod}

(* Mutant: a Job that succeeded counts, whatever CA it was created for. *)
reconcileRootCASyncJobAnyHash ==
    \/ /\ cache.job.hash # None /\ cache.job.succeeded
       /\ Goto("apply") /\ UNCHANGED jobVars
    \/ /\ cache.job.hash # None /\ ~cache.job.succeeded
       /\ Unsynced /\ UNCHANGED jobVars
    \/ /\ cache.job.hash = None /\ job.hash = None
       /\ job' = [NoJob EXCEPT !.hash = pass.hash] /\ pod' = Pending
       /\ Unsynced /\ UNCHANGED <<jobSeen, orphans>>
    \/ /\ cache.job.hash = None /\ job.hash # None
       /\ Unsynced /\ UNCHANGED jobVars

(* The Job as cached: another hash, succeeded, failed or running, none. *)
reconcileRootCASyncJob ==
    \/ /\ cache.job.hash \notin {None, pass.hash}
       /\ DeleteJob
       /\ Unsynced
    \/ /\ cache.job.hash = pass.hash /\ cache.job.succeeded
       /\ Goto("apply")
       /\ jobSeen' = (jobSeen \/ job.succeeded)
       /\ UNCHANGED <<job, pod, orphans>>
    \/ /\ cache.job.hash = pass.hash /\ ~cache.job.succeeded
       /\ Unsynced
       /\ UNCHANGED jobVars
    \/ /\ cache.job.hash = None /\ job.hash = None
       /\ job' = [NoJob EXCEPT !.hash = pass.hash]
       /\ pod' = Pending
       /\ Unsynced
       /\ UNCHANGED <<jobSeen, orphans>>
    \/ /\ cache.job.hash = None /\ job.hash # None      \* AlreadyExists
       /\ Unsynced
       /\ UNCHANGED jobVars

PVCFound == cache.pvc

SyncVolume ==
    /\ pass.pc = "job"
    /\ \/ PVCFound /\ reconcileRootCASyncJob /\ NoFault /\ UNCHANGED delivered
       \/ /\ ~PVCFound
          /\ Goto("apply")
          /\ delivered' = Newest(delivered, pass.hash)
          /\ NoFault
          /\ UNCHANGED jobVars
       \/ Unsynced /\ Fault /\ UNCHANGED <<jobVars, delivered>>
    /\ UNCHANGED <<served, secret, pvc, config, deploy, cache, status, wake>>

(* reconcileNativeRelease: the Secret, written earlier in the pass, keeps  *)
(* its data (its metadata may be updated).  The volume and the Deployments *)
(* are applied, the config Job unless one is there.  The pass may also end *)
(* before, in the registration or the simulator's gate.                    *)
Apply ==
    /\ pass.pc = "apply"
    /\ \/ /\ \E current \in {cache.secretCurrent, FALSE} :
                cache' = [cache EXCEPT !.secretCurrent = current]
          /\ pvc' = [pvc EXCEPT !.exists = TRUE]
          /\ config' = IF config.state = "none"
                       THEN [state |-> "running", ca |-> Pending] ELSE config
          /\ deploy' = [deploy EXCEPT !.exists = TRUE]
          /\ Goto("rollout")
          /\ NoFault
       \/ End(TRUE) /\ Fault /\ UNCHANGED <<cache, pvc, config, deploy>>
    /\ UNCHANGED <<served, secret, jobVars, status, wake, delivered>>

(* Mutant: the CA is read once more for the rollout. *)
RolloutHashReread == cache.served

(* The hash of the Secret the pass synced, status.trustBundleHash. *)
RolloutHash == pass.hash

(* annotateAGWCoreDeploymentsForRootCA patches what the cache lists. *)
Rollout ==
    /\ pass.pc = "rollout"
    /\ \/ /\ IF cache.deploy.exists /\ cache.deploy.hash # RolloutHash
             THEN deploy' = [deploy EXCEPT !.hash = RolloutHash]
             ELSE UNCHANGED deploy
          /\ pass' = [pass EXCEPT !.pc = "status", !.synced = TRUE, !.ready = TRUE]
          /\ NoFault
       \/ End(TRUE) /\ Fault /\ UNCHANGED deploy
    /\ UNCHANGED <<served, secret, pvc, jobVars, config, cache, status, wake, delivered>>

(* The status write: a change comes back as an event, Ready=True asks for  *)
(* no requeue, a failed write and every other result do.                   *)
WriteStatus ==
    LET new == [hash |-> pass.hash, synced |-> pass.synced, ready |-> pass.ready] IN
    /\ pass.pc = "status"
    /\ \/ status' = new /\ wake' = (wake \/ ~new.ready \/ new # status) /\ NoFault
       \/ UNCHANGED status /\ wake' = TRUE /\ Fault
    /\ pass' = Idle
    /\ UNCHANGED <<served, clusterVars, cache, delivered>>

PassStep ==
    \/ WriteAGWSecret \/ SyncVolume \/ Apply \/ Rollout \/ WriteStatus

-----------------------------------------------------------------------------
(* The Jobs' pods *)

(* Mutant: the script keeps gateway.crt and gateway.key. *)
SyncScriptKeepsCerts(ca) ==
    /\ pvc' = [pvc EXCEPT !.ca = ca]
    /\ delivered' = Newest(delivered, ca)

(* The sync script: rm gateway and controller certificates, cp rootCA.pem. *)
SyncScript(ca) ==
    /\ pvc' = [pvc EXCEPT !.ca = ca, !.gateway = None]
    /\ delivered' = Newest(delivered, ca)

MountSync ==
    /\ pod = Pending /\ secret # None
    /\ pod' = secret
    /\ UNCHANGED <<served, secret, pvc, job, jobSeen, orphans, config, deploy, cache, pass, status, wake, delivered, faults>>

FinishSync ==
    /\ pod >= 0
    /\ SyncScript(pod)
    /\ job' = [job EXCEPT !.succeeded = TRUE]
    /\ pod' = NoPod
    /\ UNCHANGED <<served, secret, jobSeen, orphans, config, deploy, cache, pass, status, wake, faults>>

(* Mutant: no backoffLimit, pods are started for ever. *)
NextPodUnlimited == Pending

NextPod == IF job.failed = 0 THEN Pending ELSE NoPod

(* backoffLimit is 1: a second pod is started after the first failure.  A  *)
(* pod may fail between the script's rm and its cp.                        *)
FailSync ==
    /\ pod # NoPod
    /\ job' = [job EXCEPT !.failed = @ + 1]
    /\ pod' = NextPod
    /\ \/ UNCHANGED pvc
       \/ pod >= 0 /\ pvc' = [pvc EXCEPT !.gateway = None]
    /\ IF job.failed = 0 THEN Fault ELSE NoFault
    /\ UNCHANGED <<served, secret, jobSeen, orphans, config, deploy, cache, pass, status, wake, delivered>>

(* A pod without its Job runs on until the garbage collector reaches it. *)
OrphanFinishes ==
    /\ \E p \in orphans :
          /\ p >= 0
          /\ SyncScript(p)
          /\ orphans' = orphans \ {p}
    /\ UNCHANGED <<served, secret, job, jobSeen, pod, config, deploy, cache, pass, status, wake, faults>>

CollectOrphans ==
    /\ orphans # {}
    /\ orphans' = {}
    /\ UNCHANGED <<served, secret, pvc, job, jobSeen, pod, config, deploy, cache, pass, status, wake, delivered, faults>>

(* The config Job copies rootCA.pem too and leaves the certificates alone. *)
ConfigJob ==
    /\ config.state = "running"
    /\ \/ /\ config.ca = Pending /\ secret # None
          /\ config' = [config EXCEPT !.ca = secret]
          /\ UNCHANGED <<pvc, delivered, faults>>
       \/ /\ config.ca >= 0
          /\ pvc' = [pvc EXCEPT !.ca = config.ca]
          /\ delivered' = Newest(delivered, config.ca)
          /\ config' = [state |-> "finished", ca |-> NoPod]
          /\ UNCHANGED faults
       \/ /\ config' = [state |-> "finished", ca |-> NoPod]
          /\ Fault
          /\ UNCHANGED <<pvc, delivered>>
    /\ UNCHANGED <<served, secret, jobVars, deploy, cache, pass, status, wake>>

(* Mutant: the sync Job has no ttlSecondsAfterFinished. *)
SyncJobNeverExpires == FALSE

(* ttlSecondsAfterFinished: a finished Job is deleted an hour later.  That *)
(* is long enough for a pass, due every 20 s, to read that it succeeded.   *)
SyncJobExpires ==
    /\ jobSeen \/ job.failed = 2
    /\ job' = NoJob
    /\ jobSeen' = FALSE
    /\ UNCHANGED config

ConfigJobExpires ==
    /\ config.state = "finished"
    /\ config' = [state |-> "none", ca |-> NoPod]
    /\ UNCHANGED <<job, jobSeen>>

Expire ==
    /\ SyncJobExpires \/ ConfigJobExpires
    /\ UNCHANGED <<served, secret, pvc, pod, orphans, deploy, cache, pass, status, wake, delivered, faults>>

-----------------------------------------------------------------------------
(* The rest of the system *)

(* Orc8r's certificates are generated anew. *)
Regenerate ==
    /\ served # MaxCA
    /\ served' = Newest(served, 0) + 1
    /\ UNCHANGED <<clusterVars, cache, pass, status, wake, delivered, faults>>

(* magmad bootstraps against Orc8r when the root CA it has is the served one. *)
Bootstrap ==
    /\ deploy.exists /\ pvc.ca = served /\ pvc.gateway = None /\ served # None
    /\ pvc' = [pvc EXCEPT !.gateway = served]
    /\ UNCHANGED <<served, secret, jobVars, config, deploy, cache, pass, status, wake, delivered, faults>>

(* One informer catches up with the API server. *)
Informers == {"orc8rSecret", "secret", "pvc", "job", "deploy"}

CatchUp(i) ==
    /\ cache' = CASE i = "orc8rSecret" -> [cache EXCEPT !.served = served]
                  [] i = "secret" -> [cache EXCEPT !.secret = secret, !.secretCurrent = TRUE]
                  [] i = "pvc"    -> [cache EXCEPT !.pvc = pvc.exists]
                  [] i = "job"    -> [cache EXCEPT !.job = job]
                  [] i = "deploy" -> [cache EXCEPT !.deploy = deploy]
    /\ cache' # cache
    /\ UNCHANGED <<served, clusterVars, pass, status, wake, delivered, faults>>

(* The informer's periodic resync (SyncPeriod) queues every object again. *)
Resync ==
    /\ pass.pc = "idle" /\ ~wake
    /\ wake' = TRUE
    /\ UNCHANGED <<served, clusterVars, cache, pass, status, delivered, faults>>

(* The manager dies and comes back: fresh caches, every object queued. *)
Crash ==
    /\ pass' = Idle
    /\ wake' = TRUE
    /\ cache' = [served |-> served, secret |-> secret, secretCurrent |-> TRUE,
                 pvc |-> pvc.exists, job |-> job, deploy |-> deploy]
    /\ Fault
    /\ UNCHANGED <<served, clusterVars, status, delivered>>

Next ==
    \/ Start \/ PassStep
    \/ MountSync \/ FinishSync \/ FailSync \/ OrphanFinishes \/ CollectOrphans
    \/ ConfigJob \/ Expire
    \/ Regenerate \/ Bootstrap \/ (\E i \in Informers : CatchUp(i)) \/ Resync \/ Crash

(* The manager works, informers, kubelet, TTL controller and garbage       *)
(* collector make progress, the informers resync, magmad retries, and      *)
(* Orc8r's Secret comes into being.                                        *)
Fairness ==
    /\ WF_vars(Start) /\ WF_vars(PassStep)
    /\ WF_vars(MountSync) /\ WF_vars(FinishSync) /\ WF_vars(CollectOrphans)
    /\ WF_vars(ConfigJob) /\ WF_vars(Bootstrap)
    /\ WF_vars(SyncJobExpires /\ Expire) /\ WF_vars(ConfigJobExpires /\ Expire)
    /\ (\A i \in Informers : WF_vars(CatchUp(i))) /\ WF_vars(Resync)
    /\ WF_vars(served = None /\ Regenerate)

Spec == Init /\ [][Next]_vars /\ Fairness

-----------------------------------------------------------------------------
(* Properties *)

(* A status that says TrustBundleSynced names a CA that has been copied to *)
(* the volume (or for which a pass found no volume), however stale the     *)
(* caches were and however often the Job was replaced.                     *)
SyncedIsDelivered == status.synced => status.hash <= delivered

(* The handler implements TrustDelivery: the Deployments are rolled for a  *)
(* CA (annotateAGWCoreDeploymentsForRootCA) only after it was delivered,   *)
(* and never for an older one than before.                                 *)
D == INSTANCE TrustDelivery
        WITH served <- Newest(served, 0), announced <- Newest(deploy.hash, 0)
Delivery == D!Safety

(* The rest of TrustDelivery: once Orc8r's CA is stable the Deployments    *)
(* are rolled for it, although the rollout waits for a Job that may fail,  *)
(* expire or be replaced, and goes by lists from a lagging cache.          *)
DeliveryCatchesUp == D!CatchesUp

(* "copies the live Orc8r rootCA.pem into the AGW cert Secret and existing *)
(* AGW PVC when certificates are regenerated" (README): once Orc8r's CA is *)
(* stable the volume holds it, and no late pod of an older Job, placeholder *)
(* Secret or failed Job leaves another CA there for good.                  *)
VolumeConverges == <>[](pvc.exists /\ pvc.ca = served)

(* Again and again the gateway has a certificate under the CA Orc8r serves: *)
(* the script removes one of an earlier CA, which magmad would keep, and    *)
(* when a re-run of the Job after its TTL, or a pod that failed half-way,   *)
(* removes a good one, the volume is left so that magmad can get another.   *)
GatewayCertified == []<>(pvc.gateway = served)
=============================================================================
