------------------------- MODULE TrustBundleProofs -------------------------
(***************************************************************************)
(* Proofs about TrustBundle, for every number of CAs and of faults: the    *)
(* type invariant, that a status which says TrustBundleSynced names a CA   *)
(* that was delivered, and that the handler implements the safety part of  *)
(* TrustDelivery.                                                          *)
(***************************************************************************)
EXTENDS TrustBundle, TLAPS

(***************************************************************************)
(* The inductive invariant.  CAs travel in one direction, and every place  *)
(* that holds one lags behind the place it was copied from, caches and     *)
(* pods included.                                                          *)
(***************************************************************************)
Ordered ==
    /\ cache.served <= served /\ secret <= cache.served /\ cache.secret <= secret
    /\ deploy.hash <= secret
    /\ job.hash <= secret /\ pod <= secret
    /\ \A p \in orphans : p <= secret
    /\ config.ca <= secret
    /\ delivered <= Newest(secret, 0)

(* The pass never carries an older CA than the Secret holds, it carries    *)
(* the Secret's own once it has written it, and a delivered one once it    *)
(* has got past the sync Job.                                              *)
PassAhead ==
    /\ pass.hash <= cache.served
    /\ pass.pc = "secret" => pass.hash \in CA /\ secret <= pass.hash
    /\ pass.pc \in {"job", "apply", "rollout"} => pass.hash = secret /\ pass.hash \in CA
    /\ pass.pc \in {"apply", "rollout"} \/ pass.synced => pass.hash <= delivered
    /\ pass.synced => pass.pc = "status"

(* What a finished Job vouches for: its pod mounted the Secret no earlier  *)
(* than the Job was created, so what it copied is at least the Job's CA.   *)
JobDelivers ==
    /\ job.succeeded \/ job.failed = 2 \/ job.hash = None => pod = NoPod
    /\ job.hash = None => job = NoJob
    /\ jobSeen => job.succeeded
    /\ pod >= 0 => job.hash <= pod
    /\ job.succeeded => job.hash <= delivered
    /\ cache.job.succeeded => cache.job.hash <= delivered

IInv == TypeOK /\ Ordered /\ PassAhead /\ JobDelivers /\ SyncedIsDelivered

(* The parts of the type invariant that the manager and the cluster write. *)
PassType == pass \in [pc : Phases, hash : {None} \cup CA, synced : BOOLEAN, ready : BOOLEAN]
CacheType ==
    cache \in [served : {None} \cup CA, secret : Content, secretCurrent : BOOLEAN,
               pvc : BOOLEAN, job : Job, deploy : [exists : BOOLEAN, hash : Content]]
VolumeType == pvc \in [exists : BOOLEAN, ca : Content, gateway : {None} \cup CA]

(* The numbers the model computes with. *)
LEMMA Numbers ==
    /\ MaxCA \in Nat /\ MaxCA > 0
    /\ None = -1 /\ NoPod = -3 /\ Pending = -2
    /\ \A c \in CA : c \in Int /\ c >= 1
    /\ \A c \in Content : c \in Int /\ c >= -1 /\ (c # None => c >= 0)
    /\ \A p \in PodState : p \in Int /\ (p >= 0 => p \in 0..MaxCA) /\ (p < 0 => p \in {NoPod, Pending, None})
    /\ \A c \in Content : c <= MaxCA
    /\ \A c \in {None} \cup CA : c \in Content
    /\ \A c \in Content : c \in PodState
  BY BoundsAssumption DEF None, NoPod, Pending, CA, Content, PodState

(* The absent objects have the types of their variables. *)
LEMMA Defaults ==
    /\ NoJob \in Job /\ NoJob.hash = None
    /\ NoPod \in PodState /\ Pending \in PodState
  <1>1. None \in Content /\ 0 \in 0..2
    BY DEF Content
  <1> QED
    BY <1>1 DEF NoJob, Job, PodState

(* The newer of two CAs. *)
LEMMA NewestFacts ==
    ASSUME NEW a \in Int, NEW b \in Int
    PROVE  /\ Newest(a, b) \in {a, b}
           /\ a <= Newest(a, b) /\ b <= Newest(a, b)
  BY DEF Newest

(* No fault counter leaves its bound. *)
LEMMA FaultsBounded ==
    ASSUME faults \in 0..MaxFaults, Fault \/ NoFault
    PROVE  faults' \in 0..MaxFaults
  BY BoundsAssumption DEF Fault, NoFault

-----------------------------------------------------------------------------
(* The steps of a pass *)

(* Nothing has been served, copied or reported yet. *)
LEMMA InitHolds == Init => IInv
  <1> SUFFICES ASSUME Init PROVE IInv
    OBVIOUS
  <1>1. TypeOK
    <2>1. NoJob \in Job /\ None \in {None} \cup CA /\ None \in Content /\ 0 \in Content /\ NoPod \in PodState
      BY DEF NoJob, Job, Content, PodState
    <2>2. Idle \in [pc : Phases, hash : {None} \cup CA, synced : BOOLEAN, ready : BOOLEAN]
      BY DEF Idle, Phases
    <2>3. VolumeType /\ pvc.exists \in BOOLEAN
      BY <2>1 DEF Init, VolumeType
    <2>4. CacheType
      BY <2>1, <2>3 DEF Init, CacheType
    <2>5. 0 \in 0..MaxFaults /\ 0 \in 0..MaxCA
      BY BoundsAssumption
    <2>6. /\ served \in {None} \cup CA /\ secret \in Content /\ job \in Job /\ pod \in PodState
          /\ orphans \subseteq PodState
          /\ config \in [state : {"none", "running", "finished"}, ca : PodState]
          /\ deploy \in [exists : BOOLEAN, hash : Content]
      BY <2>1 DEF Init
    <2>7. /\ status \in [hash : {None} \cup CA, synced : BOOLEAN, ready : BOOLEAN]
          /\ wake \in BOOLEAN /\ delivered \in 0..MaxCA /\ jobSeen \in BOOLEAN /\ faults \in 0..MaxFaults
      BY <2>1, <2>5 DEF Init
    <2> QED
      BY <2>2, <2>3, <2>4, <2>6, <2>7 DEF TypeOK, VolumeType, CacheType, Init
  <1>2. Ordered
    BY DEF Init, Ordered, NoJob, None, NoPod, Newest
  <1>3. PassAhead /\ JobDelivers
    BY DEF Init, PassAhead, JobDelivers, NoJob, Idle, None, NoPod
  <1>4. SyncedIsDelivered
    BY DEF Init, SyncedIsDelivered, None
  <1> QED
    BY <1>1, <1>2, <1>3, <1>4 DEF IInv

(* Start picks the cached CA up, which is no older than the Secret's. *)
LEMMA StartStep == ASSUME IInv, Start PROVE IInv'
  <1> USE DEF IInv
  <1>1. /\ UNCHANGED <<served, secret, pvc, job, jobSeen, pod, orphans, config, deploy>>
        /\ UNCHANGED <<cache, status, delivered>> /\ wake' \in BOOLEAN
    BY DEF Start, clusterVars, jobVars
  <1>2. \/ cache.served # None /\ pass' = [pass EXCEPT !.pc = "secret", !.hash = cache.served]
        \/ pass' = [pass EXCEPT !.pc = "status", !.synced = FALSE]
    BY DEF Start, Unsynced, End
  <1>3. faults' \in 0..MaxFaults
    BY FaultsBounded DEF Start, TypeOK
  <1>4. PassType /\ cache.served \in {None} \cup CA
    BY DEF TypeOK, PassType
  <1>5. PassType'
    BY <1>2, <1>4 DEF PassType, Phases
  <1>6. TypeOK'
    BY <1>1, <1>3, <1>5 DEF TypeOK, PassType
  <1>7. Ordered' /\ JobDelivers' /\ SyncedIsDelivered'
    BY <1>1 DEF Ordered, JobDelivers, SyncedIsDelivered
  <1>8. PassAhead'
    <2>1. pass.pc = "idle" /\ ~pass.synced
      BY DEF PassAhead, Start
    <2>2. CASE cache.served # None /\ pass' = [pass EXCEPT !.pc = "secret", !.hash = cache.served]
      BY <1>1, <1>4, <2>1, <2>2, Numbers DEF PassAhead, PassType, Ordered
    <2>3. CASE pass' = [pass EXCEPT !.pc = "status", !.synced = FALSE]
      BY <1>1, <1>4, <2>3 DEF PassAhead, PassType
    <2> QED
      BY <1>2, <2>2, <2>3
  <1> QED
    BY <1>6, <1>7, <1>8

(* CreateOrUpdate brings the Secret to the pass's CA, which is no older: a *)
(* cached copy that already has it proves that the Secret does too.        *)
LEMMA WriteAGWSecretStep == ASSUME IInv, WriteAGWSecret PROVE IInv'
  <1> USE DEF IInv
  <1>1. UNCHANGED <<served, pvc, job, jobSeen, pod, orphans, config, deploy, status, wake, delivered>>
    BY DEF WriteAGWSecret, jobVars
  <1>2. faults' \in 0..MaxFaults
    BY FaultsBounded DEF WriteAGWSecret, TypeOK
  <1>3. /\ PassType /\ CacheType /\ pass.pc = "secret" /\ pass.hash \in CA
        /\ secret \in Content /\ served \in {None} \cup CA
    BY DEF TypeOK, PassType, CacheType, PassAhead, WriteAGWSecret
  <1>4. \/ /\ secret' = pass.hash /\ pass' = [pass EXCEPT !.pc = "job"]
           /\ \/ secret' = secret /\ cache' = cache
              \/ cache' = [cache EXCEPT !.secretCurrent = FALSE]
        \/ UNCHANGED <<secret, cache>> /\ pass' = [pass EXCEPT !.pc = "status", !.synced = FALSE]
    <2>1. cache.secret = pass.hash => secret = pass.hash
      BY <1>3, Numbers DEF Ordered, PassAhead, CacheType
    <2> QED
      BY <2>1 DEF WriteAGWSecret, SyncSecret, Goto, Unsynced, End
  <1>5. PassType' /\ CacheType' /\ secret' \in Content
    BY <1>3, <1>4, Numbers DEF PassType, CacheType, Phases
  <1>6. TypeOK'
    BY <1>1, <1>2, <1>5 DEF TypeOK, PassType, CacheType
  <1>7. /\ secret <= secret' /\ secret' <= cache.served
        /\ cache'.served = cache.served /\ cache'.secret = cache.secret /\ cache'.job = cache.job
    BY <1>3, <1>4, Numbers DEF PassAhead, Ordered, CacheType
  <1>8. Ordered'
    <2>1. /\ cache.secret \in Int /\ deploy.hash \in Int /\ job.hash \in Int /\ pod \in Int
          /\ config.ca \in Int /\ delivered \in Int /\ secret \in Int /\ secret' \in Int
          /\ \A p \in orphans : p \in Int
      BY <1>5, Numbers DEF TypeOK, Job
    <2> QED
      BY <1>1, <1>7, <2>1 DEF Ordered, Newest
  <1>9. PassAhead'
    BY <1>1, <1>3, <1>4, <1>7 DEF PassAhead, PassType
  <1>10. JobDelivers' /\ SyncedIsDelivered'
    BY <1>1, <1>7 DEF JobDelivers, SyncedIsDelivered
  <1> QED
    BY <1>6, <1>8, <1>9, <1>10

(* reconcileRootCASyncJob: the Job's pod is created, left behind or kept;  *)
(* the pass goes on only when the cached Job of its own CA succeeded.      *)
LEMMA SyncVolumeStep == ASSUME IInv, SyncVolume PROVE IInv'
  <1> USE DEF IInv
  <1>1. /\ UNCHANGED <<served, secret, pvc, config, deploy, cache, status, wake>>
        /\ pass.pc = "job" /\ pass.hash = secret /\ pass.hash \in CA
    BY DEF SyncVolume, PassAhead
  <1>2. faults' \in 0..MaxFaults
    BY FaultsBounded DEF SyncVolume, TypeOK
  <1>3. /\ PassType /\ CacheType /\ job \in Job /\ jobSeen \in BOOLEAN /\ pod \in PodState
        /\ orphans \subseteq PodState /\ delivered \in 0..MaxCA
        /\ job.hash \in Int /\ pod \in Int /\ delivered \in Int /\ secret \in Int
        /\ secret >= 1 /\ secret <= MaxCA
    BY <1>1, Numbers DEF TypeOK, PassType, CacheType, Job
  <1>4. \/ pass' = [pass EXCEPT !.pc = "apply"] /\ pass.hash <= delivered'
        \/ pass' = [pass EXCEPT !.pc = "status", !.synced = FALSE]
    BY <1>1, <1>3, NewestFacts DEF SyncVolume, reconcileRootCASyncJob, Goto, Unsynced, End, JobDelivers
  <1>5. /\ delivered' \in 0..MaxCA /\ delivered <= delivered' /\ delivered' <= Newest(secret, 0)
    <2>1. delivered' = delivered \/ delivered' = Newest(delivered, pass.hash)
      BY DEF SyncVolume
    <2>2. delivered <= Newest(secret, 0)
      BY DEF Ordered
    <2> QED
      BY <1>1, <1>3, <2>1, <2>2 DEF Newest
  <1>6. \/ UNCHANGED <<job, pod, orphans>> /\ jobSeen' \in {jobSeen, jobSeen \/ job.succeeded}
        \/ job' = NoJob /\ jobSeen' = FALSE /\ pod' = NoPod /\ orphans' \in {orphans, orphans \cup {pod}}
        \/ job.hash = None /\ job' = [NoJob EXCEPT !.hash = pass.hash] /\ pod' = Pending /\ UNCHANGED <<jobSeen, orphans>>
    BY DEF SyncVolume, reconcileRootCASyncJob, DeleteJob, jobVars
  <1>7. TypeOK'
    <2>1. PassType'
      BY <1>3, <1>4 DEF PassType, Phases
    <2>2. NoJob \in Job /\ [NoJob EXCEPT !.hash = pass.hash] \in Job /\ NoPod \in PodState /\ Pending \in PodState
      <3>1. pass.hash \in Content
        BY <1>1 DEF Content
      <3> QED
        BY <3>1, Defaults DEF Job
    <2>3. jobSeen' \in BOOLEAN /\ job' \in Job /\ pod' \in PodState
      BY <1>3, <1>6, <2>2
    <2>4. orphans' \subseteq PodState
      BY <1>3, <1>6
    <2> QED
      BY <1>1, <1>2, <1>5, <2>1, <2>3, <2>4 DEF TypeOK, PassType
  <1>8. Ordered'
    <2>1. job'.hash <= secret /\ pod' <= secret
      BY <1>1, <1>3, <1>6, Numbers DEF Ordered, NoJob
    <2>2. \A p \in orphans' : p <= secret
      BY <1>6 DEF Ordered
    <2> QED
      BY <1>1, <1>5, <2>1, <2>2 DEF Ordered
  <1>9. PassAhead'
    <2>1. ~pass.synced
      BY <1>1 DEF PassAhead
    <2> QED
      BY <1>1, <1>3, <1>4, <2>1 DEF PassAhead, PassType
  <1>10. JobDelivers'
    <2>1. /\ cache.job.succeeded => cache.job.hash <= delivered'
          /\ job.succeeded => job.hash <= delivered'
      BY <1>3, <1>5, Numbers DEF JobDelivers, CacheType, Job
    <2>2. CASE UNCHANGED <<job, pod, orphans>> /\ jobSeen' \in {jobSeen, jobSeen \/ job.succeeded}
      BY <1>1, <2>1, <2>2 DEF JobDelivers
    <2>3. CASE job' = NoJob /\ jobSeen' = FALSE /\ pod' = NoPod
      BY <1>1, <2>1, <2>3, Numbers DEF JobDelivers, NoJob
    <2>4. CASE job.hash = None /\ job' = [NoJob EXCEPT !.hash = pass.hash] /\ pod' = Pending /\ UNCHANGED jobSeen
      <3>1. ~jobSeen
        BY <2>4 DEF JobDelivers, NoJob
      <3>2. job'.hash = pass.hash /\ job'.hash # None /\ ~job'.succeeded /\ job'.failed = 0
        BY <1>1, <2>4, Numbers DEF NoJob
      <3> QED
        BY <1>1, <2>1, <2>4, <3>1, <3>2, Numbers DEF JobDelivers
    <2> QED
      BY <1>6, <2>2, <2>3, <2>4
  <1>11. SyncedIsDelivered'
    BY <1>1, <1>3, <1>5, Numbers DEF SyncedIsDelivered, TypeOK
  <1> QED
    BY <1>7, <1>8, <1>9, <1>10, <1>11

(* reconcileNativeRelease does not touch the CA's way to the volume. *)
LEMMA ApplyStep == ASSUME IInv, Apply PROVE IInv'
  <1> USE DEF IInv
  <1>1. /\ UNCHANGED <<served, secret, job, jobSeen, pod, orphans, status, wake, delivered>>
        /\ pass.pc = "apply" /\ pass.hash = secret /\ pass.hash <= delivered /\ pass.hash \in CA
    BY DEF Apply, PassAhead, jobVars
  <1>2. faults' \in 0..MaxFaults
    BY FaultsBounded DEF Apply, TypeOK
  <1>3. /\ PassType /\ CacheType /\ VolumeType
        /\ config \in [state : {"none", "running", "finished"}, ca : PodState]
        /\ deploy \in [exists : BOOLEAN, hash : Content]
    BY DEF TypeOK, PassType, CacheType, VolumeType
  <1>4. \/ pass' = [pass EXCEPT !.pc = "rollout"]
        \/ pass' = [pass EXCEPT !.pc = "status", !.synced = TRUE]
    BY DEF Apply, Goto, End
  <1>5. \E current \in BOOLEAN : cache' = [cache EXCEPT !.secretCurrent = current]
    <2>1. cache.secretCurrent \in BOOLEAN /\ cache = [cache EXCEPT !.secretCurrent = cache.secretCurrent]
      BY <1>3 DEF CacheType
    <2> QED
      BY <2>1 DEF Apply
  <1>6. /\ config' = config \/ config' = [state |-> "running", ca |-> Pending]
        /\ pvc' = pvc \/ pvc' = [pvc EXCEPT !.exists = TRUE]
        /\ deploy' = deploy \/ deploy' = [deploy EXCEPT !.exists = TRUE]
    BY DEF Apply
  <1>7. PassType' /\ CacheType' /\ VolumeType'
    <2>1. PassType'
      BY <1>3, <1>4 DEF PassType, Phases
    <2>2. CacheType'
      BY <1>3, <1>5 DEF CacheType
    <2>3. VolumeType'
      BY <1>3, <1>6 DEF VolumeType
    <2> QED
      BY <2>1, <2>2, <2>3
  <1>8. /\ config' \in [state : {"none", "running", "finished"}, ca : PodState]
        /\ deploy' \in [exists : BOOLEAN, hash : Content] /\ deploy'.hash = deploy.hash
    <2>1. [state |-> "running", ca |-> Pending] \in [state : {"none", "running", "finished"}, ca : PodState]
      BY DEF PodState
    <2>2. [deploy EXCEPT !.exists = TRUE] \in [exists : BOOLEAN, hash : Content]
      BY <1>3
    <2> QED
      BY <1>3, <1>6, <2>1, <2>2
  <1>9. TypeOK'
    BY <1>1, <1>2, <1>7, <1>8 DEF TypeOK, PassType, CacheType, VolumeType
  <1>10. cache'.served = cache.served /\ cache'.secret = cache.secret /\ cache'.job = cache.job
    BY <1>3, <1>5 DEF CacheType
  <1>11. Ordered'
    <2>1. config'.ca <= secret
      BY <1>1, <1>6, Numbers DEF Ordered
    <2> QED
      BY <1>1, <1>8, <1>10, <2>1 DEF Ordered
  <1>12. PassAhead'
    BY <1>1, <1>3, <1>4, <1>10 DEF PassAhead, PassType
  <1>13. JobDelivers' /\ SyncedIsDelivered'
    BY <1>1, <1>10 DEF JobDelivers, SyncedIsDelivered
  <1> QED
    BY <1>9, <1>11, <1>12, <1>13

(* annotateAGWCoreDeploymentsForRootCA writes the CA the Secret holds. *)
LEMMA RolloutStep == ASSUME IInv, Rollout PROVE IInv'
  <1> USE DEF IInv
  <1>1. /\ UNCHANGED <<served, secret, pvc, job, jobSeen, pod, orphans, config, cache, status, wake, delivered>>
        /\ pass.pc = "rollout" /\ pass.hash = secret /\ pass.hash <= delivered /\ pass.hash \in CA
    BY DEF Rollout, PassAhead, jobVars
  <1>2. faults' \in 0..MaxFaults
    BY FaultsBounded DEF Rollout, TypeOK
  <1>3. PassType /\ deploy \in [exists : BOOLEAN, hash : Content]
    BY DEF TypeOK, PassType
  <1>4. \/ pass' = [pass EXCEPT !.pc = "status", !.synced = TRUE, !.ready = TRUE]
        \/ pass' = [pass EXCEPT !.pc = "status", !.synced = TRUE]
    BY DEF Rollout, End
  <1>5. deploy' = deploy \/ deploy' = [deploy EXCEPT !.hash = secret]
    BY <1>1 DEF Rollout, RolloutHash
  <1>6. PassType' /\ deploy' \in [exists : BOOLEAN, hash : Content]
    BY <1>1, <1>3, <1>4, <1>5, Numbers DEF PassType, Phases
  <1>7. TypeOK'
    BY <1>1, <1>2, <1>6 DEF TypeOK, PassType
  <1>8. Ordered'
    <2>1. deploy'.hash <= secret
      BY <1>1, <1>3, <1>5, Numbers DEF Ordered
    <2> QED
      BY <1>1, <2>1 DEF Ordered
  <1>9. PassAhead'
    BY <1>1, <1>3, <1>4 DEF PassAhead, PassType
  <1>10. JobDelivers' /\ SyncedIsDelivered'
    BY <1>1 DEF JobDelivers, SyncedIsDelivered
  <1> QED
    BY <1>7, <1>8, <1>9, <1>10

(* The status repeats what the pass found. *)
LEMMA WriteStatusStep == ASSUME IInv, WriteStatus PROVE IInv'
  <1> USE DEF IInv
  <1> DEFINE new == [hash |-> pass.hash, synced |-> pass.synced, ready |-> pass.ready]
  <1>1. /\ UNCHANGED <<served, secret, pvc, job, jobSeen, pod, orphans, config, deploy, cache, delivered>>
        /\ pass' = Idle /\ status' \in {status, new}
    BY DEF WriteStatus, clusterVars, jobVars
  <1>2. faults' \in 0..MaxFaults
    BY FaultsBounded DEF WriteStatus, TypeOK
  <1>3. wake' \in BOOLEAN
    BY DEF WriteStatus
  <1>4. PassType' /\ status' \in [hash : {None} \cup CA, synced : BOOLEAN, ready : BOOLEAN]
    BY <1>1 DEF TypeOK, PassType, Idle, Phases
  <1>5. TypeOK'
    BY <1>1, <1>2, <1>3, <1>4 DEF TypeOK, PassType
  <1>6. Ordered' /\ JobDelivers'
    BY <1>1 DEF Ordered, JobDelivers
  <1>7. PassAhead'
    BY <1>1, Numbers DEF PassAhead, Idle, TypeOK
  <1>8. SyncedIsDelivered'
    BY <1>1 DEF SyncedIsDelivered, PassAhead
  <1> QED
    BY <1>5, <1>6, <1>7, <1>8

-----------------------------------------------------------------------------
(* The Jobs' pods *)

(* What a step leaves alone when it concerns only the pods, the volume and *)
(* what was delivered to it: the rest keeps its type and its place in the  *)
(* order.                                                                  *)
LEMMA PodsOnly ==
    ASSUME IInv,
           UNCHANGED <<served, secret, deploy, cache, pass, status, wake>>,
           VolumeType', job' \in Job, job'.hash = job.hash, jobSeen' = jobSeen,
           pod' \in PodState, pod' <= secret,
           orphans' \subseteq PodState, \A p \in orphans' : p <= secret,
           config' \in [state : {"none", "running", "finished"}, ca : PodState],
           config'.ca <= secret,
           delivered' \in 0..MaxCA, delivered <= delivered', delivered' <= Newest(secret, 0),
           faults' \in 0..MaxFaults
    PROVE  TypeOK' /\ Ordered' /\ PassAhead' /\ SyncedIsDelivered'
  <1> USE DEF IInv
  <1>1. TypeOK'
    BY DEF TypeOK, VolumeType
  <1>2. Ordered'
    BY DEF Ordered
  <1>3. /\ delivered \in Int /\ delivered' \in Int
        /\ pass.hash \in Int /\ status.hash \in Int
    BY Numbers DEF TypeOK
  <1>4. PassAhead'
    BY <1>3 DEF PassAhead
  <1>5. SyncedIsDelivered'
    BY <1>3 DEF SyncedIsDelivered
  <1> QED
    BY <1>1, <1>2, <1>4, <1>5

(* A CA that a pod carries and the Secret has been through is delivered. *)
LEMMA CopiedCA ==
    ASSUME TypeOK, Ordered, NEW ca \in PodState, ca >= 0, ca <= secret,
           delivered' = Newest(delivered, ca)
    PROVE  /\ delivered' \in 0..MaxCA /\ delivered <= delivered' /\ ca <= delivered'
           /\ delivered' <= Newest(secret, 0)
           /\ ca \in Content
  <1>1. /\ ca \in Int /\ ca \in 0..MaxCA /\ delivered \in 0..MaxCA /\ MaxCA \in Nat
        /\ secret \in Int /\ delivered <= Newest(secret, 0)
    BY Numbers DEF TypeOK, Ordered
  <1>2. ca \in Content
    BY <1>1 DEF Content, CA
  <1> QED
    BY <1>1, <1>2 DEF Newest

(* What the Jobs vouch for when no Job is added or succeeds. *)
LEMMA JobKept ==
    ASSUME IInv, UNCHANGED <<job, jobSeen, pod, cache>>,
           delivered' \in 0..MaxCA, delivered <= delivered'
    PROVE  JobDelivers'
  <1>1. /\ job.hash \in Int /\ cache.job.hash \in Int /\ delivered \in Int /\ delivered' \in Int
    BY Numbers DEF IInv, TypeOK, Job
  <1> QED
    BY <1>1 DEF IInv, JobDelivers

(* The kubelet mounts the Secret as it is by then. *)
LEMMA MountSyncStep == ASSUME IInv, MountSync PROVE IInv'
  <1> USE DEF IInv
  <1>1. /\ UNCHANGED <<served, secret, pvc, job, jobSeen, orphans, config, deploy, cache, pass, status, wake>>
        /\ UNCHANGED <<delivered, faults>>
        /\ pod = Pending /\ pod' = secret /\ secret # None
    BY DEF MountSync
  <1>2. pod' \in PodState /\ pod' <= secret /\ delivered <= delivered /\ secret >= 0
    BY <1>1, Numbers DEF TypeOK
  <1>3. TypeOK' /\ Ordered' /\ PassAhead' /\ SyncedIsDelivered'
    BY <1>1, <1>2, PodsOnly DEF TypeOK, Ordered, VolumeType
  <1>4. JobDelivers'
    BY <1>1, Numbers DEF JobDelivers, Ordered
  <1> QED
    BY <1>3, <1>4

(* The script is done: the CA it copied is delivered, and it is at least   *)
(* the one the Job was created for.                                        *)
LEMMA FinishSyncStep == ASSUME IInv, FinishSync PROVE IInv'
  <1> USE DEF IInv
  <1>1. /\ UNCHANGED <<served, secret, jobSeen, orphans, config, deploy, cache, pass, status, wake, faults>>
        /\ pod >= 0 /\ pvc' = [pvc EXCEPT !.ca = pod, !.gateway = None]
        /\ delivered' = Newest(delivered, pod)
        /\ job' = [job EXCEPT !.succeeded = TRUE] /\ pod' = NoPod
    BY DEF FinishSync, SyncScript
  <1>2. pod \in PodState /\ pod <= secret /\ job \in Job /\ VolumeType
    BY DEF TypeOK, Ordered, VolumeType
  <1>3. /\ delivered' \in 0..MaxCA /\ delivered <= delivered' /\ pod <= delivered'
        /\ delivered' <= Newest(secret, 0) /\ pod \in Content
    BY <1>1, <1>2, CopiedCA
  <1>4. job' \in Job /\ job'.hash = job.hash /\ job'.succeeded /\ job'.failed = job.failed
    BY <1>1, <1>2 DEF Job
  <1>5. VolumeType'
    BY <1>1, <1>2, <1>3 DEF VolumeType
  <1>6. pod' \in PodState /\ pod' <= secret
    BY <1>1, Numbers DEF PodState, TypeOK
  <1>7. TypeOK' /\ Ordered' /\ PassAhead' /\ SyncedIsDelivered'
    BY <1>1, <1>3, <1>4, <1>5, <1>6, PodsOnly DEF TypeOK, Ordered
  <1>8. JobDelivers'
    <2>1. /\ job.hash \in Int /\ cache.job.hash \in Int /\ delivered \in Int /\ delivered' \in Int
          /\ pod \in Int /\ pod # NoPod
      BY <1>1, <1>3, Numbers DEF TypeOK, Job
    <2>2. job'.hash # None /\ job'.hash <= delivered'
      BY <1>1, <1>3, <1>4, <2>1 DEF JobDelivers
    <2> QED
      BY <1>1, <1>3, <1>4, <2>1, <2>2, Numbers DEF JobDelivers
  <1> QED
    BY <1>7, <1>8

(* A pod fails, and the Job starts another one or gives up. *)
LEMMA FailSyncStep == ASSUME IInv, FailSync PROVE IInv'
  <1> USE DEF IInv
  <1>1. /\ UNCHANGED <<served, secret, jobSeen, orphans, config, deploy, cache, pass, status, wake, delivered>>
        /\ pod # NoPod /\ job' = [job EXCEPT !.failed = job.failed + 1]
        /\ pod' = IF job.failed = 0 THEN Pending ELSE NoPod
        /\ pvc' = pvc \/ pvc' = [pvc EXCEPT !.gateway = None]
    BY DEF FailSync, NextPod
  <1>2. faults' \in 0..MaxFaults
    BY FaultsBounded DEF FailSync, TypeOK
  <1>3. /\ job \in Job /\ job.failed \in {0, 1} /\ ~job.succeeded /\ job.hash # None /\ VolumeType
    BY <1>1 DEF TypeOK, JobDelivers, Job, VolumeType
  <1>4. job' \in Job /\ job'.hash = job.hash /\ ~job'.succeeded /\ job'.failed = job.failed + 1
    BY <1>1, <1>3 DEF Job
  <1>5. VolumeType'
    BY <1>1, <1>3 DEF VolumeType
  <1>6. pod' \in PodState /\ pod' <= secret /\ pod' < 0
    BY <1>1, Numbers DEF PodState, TypeOK
  <1>7. delivered \in 0..MaxCA /\ delivered <= delivered
    BY DEF TypeOK
  <1>8. TypeOK' /\ Ordered' /\ PassAhead' /\ SyncedIsDelivered'
    BY <1>1, <1>2, <1>4, <1>5, <1>6, <1>7, PodsOnly DEF TypeOK, Ordered
  <1>9. JobDelivers'
    BY <1>1, <1>3, <1>4, <1>6, Numbers DEF JobDelivers
  <1> QED
    BY <1>8, <1>9

(* The pod of a deleted Job finishes late: it carries a CA that the Secret *)
(* had, so what was delivered never goes back.                             *)
LEMMA OrphanFinishesStep == ASSUME IInv, OrphanFinishes PROVE IInv'
  <1> USE DEF IInv
  <1>1. PICK p \in orphans :
           /\ p >= 0 /\ pvc' = [pvc EXCEPT !.ca = p, !.gateway = None]
           /\ delivered' = Newest(delivered, p) /\ orphans' = orphans \ {p}
    BY DEF OrphanFinishes, SyncScript
  <1>2. UNCHANGED <<served, secret, job, jobSeen, pod, config, deploy, cache, pass, status, wake, faults>>
    BY DEF OrphanFinishes
  <1>3. p \in PodState /\ p <= secret /\ VolumeType
    BY <1>1 DEF TypeOK, Ordered, VolumeType
  <1>4. /\ delivered' \in 0..MaxCA /\ delivered <= delivered'
        /\ delivered' <= Newest(secret, 0) /\ p \in Content
    BY <1>1, <1>3, CopiedCA
  <1>5. VolumeType'
    BY <1>1, <1>3, <1>4 DEF VolumeType
  <1>6. orphans' \subseteq PodState /\ \A q \in orphans' : q <= secret
    BY <1>1 DEF TypeOK, Ordered
  <1>7. TypeOK' /\ Ordered' /\ PassAhead' /\ SyncedIsDelivered'
    BY <1>2, <1>4, <1>5, <1>6, PodsOnly DEF TypeOK, Ordered
  <1>8. JobDelivers'
    BY <1>2, <1>4, JobKept
  <1> QED
    BY <1>7, <1>8

(* The garbage collector reaches the pods of deleted Jobs. *)
LEMMA CollectOrphansStep == ASSUME IInv, CollectOrphans PROVE IInv'
  <1> USE DEF IInv
  <1>1. /\ UNCHANGED <<served, secret, pvc, job, jobSeen, pod, config, deploy, cache, pass, status, wake>>
        /\ UNCHANGED <<delivered, faults>> /\ orphans' = {}
    BY DEF CollectOrphans
  <1>2. delivered \in 0..MaxCA /\ delivered <= delivered
    BY DEF TypeOK
  <1>3. TypeOK' /\ Ordered' /\ PassAhead' /\ SyncedIsDelivered'
    BY <1>1, <1>2, PodsOnly DEF TypeOK, Ordered, VolumeType
  <1>4. JobDelivers'
    BY <1>1, <1>2, JobKept
  <1> QED
    BY <1>3, <1>4

(* The manifest's own Job copies the Secret's CA as well. *)
LEMMA ConfigJobStep == ASSUME IInv, ConfigJob PROVE IInv'
  <1> USE DEF IInv
  <1>1. UNCHANGED <<served, secret, job, jobSeen, pod, orphans, deploy, cache, pass, status, wake>>
    BY DEF ConfigJob, jobVars
  <1>2. faults' \in 0..MaxFaults
    BY FaultsBounded DEF ConfigJob, TypeOK, NoFault
  <1>3. /\ config \in [state : {"none", "running", "finished"}, ca : PodState]
        /\ config.ca <= secret /\ secret \in Content /\ VolumeType /\ delivered \in 0..MaxCA
        /\ delivered <= Newest(secret, 0)
    BY DEF TypeOK, Ordered, VolumeType
  <1>4. \/ config' = [config EXCEPT !.ca = secret] /\ UNCHANGED <<pvc, delivered>>
        \/ /\ config.ca >= 0 /\ pvc' = [pvc EXCEPT !.ca = config.ca]
           /\ delivered' = Newest(delivered, config.ca)
           /\ config' = [state |-> "finished", ca |-> NoPod]
        \/ config' = [state |-> "finished", ca |-> NoPod] /\ UNCHANGED <<pvc, delivered>>
    BY DEF ConfigJob
  <1>5. /\ config' \in [state : {"none", "running", "finished"}, ca : PodState]
        /\ config'.ca <= secret
    <2>1. NoPod \in PodState /\ NoPod <= secret /\ secret \in PodState /\ secret <= secret
      BY <1>3, Numbers DEF PodState
    <2> QED
      BY <1>3, <1>4, <2>1
  <1>6. /\ delivered' \in 0..MaxCA /\ delivered <= delivered' /\ delivered' <= Newest(secret, 0)
        /\ VolumeType'
    <2>1. CASE UNCHANGED <<pvc, delivered>>
      BY <1>3, <2>1 DEF VolumeType
    <2>2. CASE /\ config.ca >= 0 /\ pvc' = [pvc EXCEPT !.ca = config.ca]
               /\ delivered' = Newest(delivered, config.ca)
      <3>1. config.ca \in PodState
        BY <1>3
      <3>2. /\ delivered' \in 0..MaxCA /\ delivered <= delivered' /\ delivered' <= Newest(secret, 0)
            /\ config.ca \in Content
        BY <1>3, <2>2, <3>1, CopiedCA
      <3> QED
        BY <1>3, <2>2, <3>2 DEF VolumeType
    <2> QED
      BY <1>4, <2>1, <2>2
  <1>7. TypeOK' /\ Ordered' /\ PassAhead' /\ SyncedIsDelivered'
    BY <1>1, <1>2, <1>5, <1>6, PodsOnly DEF TypeOK, Ordered
  <1>8. JobDelivers'
    BY <1>1, <1>6, JobKept
  <1> QED
    BY <1>7, <1>8

(* A finished Job is deleted: it has no pod any more. *)
LEMMA ExpireStep == ASSUME IInv, Expire PROVE IInv'
  <1> USE DEF IInv
  <1>1. UNCHANGED <<served, secret, pvc, pod, orphans, deploy, cache, pass, status, wake, delivered, faults>>
    BY DEF Expire
  <1>2. \/ (jobSeen \/ job.failed = 2) /\ job' = NoJob /\ jobSeen' = FALSE /\ UNCHANGED config
        \/ config' = [state |-> "none", ca |-> NoPod] /\ UNCHANGED <<job, jobSeen>>
    BY DEF Expire, SyncJobExpires, ConfigJobExpires
  <1>3. /\ NoJob \in Job /\ NoJob.hash <= secret
        /\ [state |-> "none", ca |-> NoPod] \in [state : {"none", "running", "finished"}, ca : PodState]
        /\ NoPod <= secret
    <2>1. [state |-> "none", ca |-> NoPod] \in [state : {"none", "running", "finished"}, ca : PodState]
      BY Defaults
    <2>2. NoJob.hash <= secret /\ NoPod <= secret
      BY Defaults, Numbers DEF TypeOK
    <2> QED
      BY <2>1, <2>2, Defaults
  <1>4. TypeOK'
    <2>1. job' \in Job /\ jobSeen' \in BOOLEAN
      BY <1>2, <1>3 DEF TypeOK
    <2>2. config' \in [state : {"none", "running", "finished"}, ca : PodState]
      BY <1>2, <1>3 DEF TypeOK
    <2> QED
      BY <1>1, <2>1, <2>2 DEF TypeOK
  <1>5. Ordered' /\ PassAhead' /\ SyncedIsDelivered'
    BY <1>1, <1>2, <1>3 DEF Ordered, PassAhead, SyncedIsDelivered
  <1>6. JobDelivers'
    <2>1. CASE (jobSeen \/ job.failed = 2) /\ job' = NoJob /\ jobSeen' = FALSE
      <3>1. pod = NoPod
        BY <2>1 DEF JobDelivers
      <3> QED
        BY <1>1, <2>1, <3>1, Numbers DEF JobDelivers, NoJob
    <2>2. CASE UNCHANGED <<job, jobSeen>>
      BY <1>1, <2>2 DEF JobDelivers
    <2> QED
      BY <1>2, <2>1, <2>2
  <1> QED
    BY <1>4, <1>5, <1>6

-----------------------------------------------------------------------------
(* The rest of the system *)

(* Orc8r's CAs only get newer. *)
LEMMA RegenerateStep == ASSUME IInv, Regenerate PROVE IInv'
  <1> USE DEF IInv
  <1>1. /\ UNCHANGED <<secret, pvc, job, jobSeen, pod, orphans, config, deploy, cache, pass, status, wake>>
        /\ UNCHANGED <<delivered, faults>>
        /\ served # MaxCA /\ served' = Newest(served, 0) + 1
    BY DEF Regenerate, clusterVars, jobVars
  <1>2. served' \in CA /\ served <= served' /\ served \in Int /\ served' \in Int
    BY <1>1, Numbers DEF TypeOK, CA, Newest
  <1>3. TypeOK'
    BY <1>1, <1>2 DEF TypeOK
  <1>4. Ordered'
    <2>1. cache.served \in Int
      BY Numbers DEF TypeOK
    <2> QED
      BY <1>1, <1>2, <2>1 DEF Ordered
  <1>5. PassAhead' /\ JobDelivers' /\ SyncedIsDelivered'
    BY <1>1 DEF PassAhead, JobDelivers, SyncedIsDelivered
  <1> QED
    BY <1>3, <1>4, <1>5

(* magmad writes nothing but its own certificate. *)
LEMMA BootstrapStep == ASSUME IInv, Bootstrap PROVE IInv'
  <1> USE DEF IInv
  <1>1. /\ UNCHANGED <<served, secret, job, jobSeen, pod, orphans, config, deploy, cache, pass, status, wake>>
        /\ UNCHANGED <<delivered, faults>>
        /\ pvc' = [pvc EXCEPT !.gateway = served]
    BY DEF Bootstrap, jobVars
  <1>2. VolumeType'
    BY <1>1 DEF TypeOK, VolumeType
  <1>3. TypeOK'
    BY <1>1, <1>2 DEF TypeOK, VolumeType
  <1>4. Ordered' /\ PassAhead' /\ JobDelivers' /\ SyncedIsDelivered'
    BY <1>1 DEF Ordered, PassAhead, JobDelivers, SyncedIsDelivered
  <1> QED
    BY <1>3, <1>4

(* A fresher cache is still behind, and ahead of what was read from it:    *)
(* the informers' copies move forward only.                                *)
LEMMA FreshCache ==
    ASSUME IInv, CacheType',
           UNCHANGED <<served, secret, pvc, job, jobSeen, pod, orphans, config, deploy>>,
           UNCHANGED <<status, delivered>>,
           cache'.served \in {cache.served, served},
           cache'.secret \in {cache.secret, secret},
           cache'.job \in {cache.job, job}
    PROVE  /\ Ordered' /\ JobDelivers' /\ SyncedIsDelivered'
           /\ cache.served <= cache'.served
  <1> USE DEF IInv
  <1>1. /\ cache.served \in Int /\ served \in Int /\ secret \in Int
        /\ cache.served <= served /\ secret <= cache.served /\ cache.secret <= secret
    BY Numbers DEF TypeOK, Ordered
  <1>2. Ordered'
    BY <1>1 DEF Ordered
  <1>3. JobDelivers'
    BY DEF JobDelivers
  <1>4. SyncedIsDelivered'
    BY DEF SyncedIsDelivered
  <1> QED
    BY <1>1, <1>2, <1>3, <1>4

(* One informer catches up. *)
LEMMA CatchUpStep == ASSUME IInv, NEW i \in Informers, CatchUp(i) PROVE IInv'
  <1> USE DEF IInv
  <1>1. /\ UNCHANGED <<served, secret, pvc, job, jobSeen, pod, orphans, config, deploy, pass, status, wake>>
        /\ UNCHANGED <<delivered, faults>>
    BY DEF CatchUp, clusterVars, jobVars
  <1>2. CacheType /\ pvc.exists \in BOOLEAN
    BY DEF TypeOK, CacheType
  <1>3. \/ cache' = [cache EXCEPT !.served = served]
        \/ cache' = [cache EXCEPT !.secret = secret, !.secretCurrent = TRUE]
        \/ cache' = [cache EXCEPT !.pvc = pvc.exists]
        \/ cache' = [cache EXCEPT !.job = job]
        \/ cache' = [cache EXCEPT !.deploy = deploy]
    BY DEF CatchUp, Informers
  <1>4. CacheType'
    <2>1. /\ served \in {None} \cup CA /\ secret \in Content /\ job \in Job
          /\ deploy \in [exists : BOOLEAN, hash : Content]
      BY DEF TypeOK
    <2> QED
      BY <1>2, <1>3, <2>1 DEF CacheType
  <1>5. /\ cache'.served \in {cache.served, served}
        /\ cache'.secret \in {cache.secret, secret}
        /\ cache'.job \in {cache.job, job}
    BY <1>2, <1>3 DEF CacheType
  <1>6. TypeOK'
    BY <1>1, <1>4 DEF TypeOK, CacheType
  <1>7. Ordered' /\ JobDelivers' /\ SyncedIsDelivered' /\ cache.served <= cache'.served
    BY <1>1, <1>4, <1>5, FreshCache
  <1>8. PassAhead'
    <2>1. pass.hash \in Int /\ cache.served \in Int /\ cache'.served \in Int
      BY <1>4, Numbers DEF TypeOK, CacheType
    <2> QED
      BY <1>1, <1>7, <2>1 DEF PassAhead
  <1> QED
    BY <1>6, <1>7, <1>8

(* The resync queues the object. *)
LEMMA ResyncStep == ASSUME IInv, Resync PROVE IInv'
  <1> USE DEF IInv
  <1>1. /\ UNCHANGED <<served, secret, pvc, job, jobSeen, pod, orphans, config, deploy, cache, pass, status>>
        /\ UNCHANGED <<delivered, faults>> /\ wake' \in BOOLEAN
    BY DEF Resync, clusterVars, jobVars
  <1>2. TypeOK'
    BY <1>1 DEF TypeOK
  <1>3. Ordered' /\ PassAhead' /\ JobDelivers' /\ SyncedIsDelivered'
    BY <1>1 DEF Ordered, PassAhead, JobDelivers, SyncedIsDelivered
  <1> QED
    BY <1>2, <1>3

(* A restarted manager has fresh caches and no pass. *)
LEMMA CrashStep == ASSUME IInv, Crash PROVE IInv'
  <1> USE DEF IInv
  <1>1. /\ UNCHANGED <<served, secret, pvc, job, jobSeen, pod, orphans, config, deploy, status, delivered>>
        /\ pass' = Idle /\ wake' \in BOOLEAN
        /\ cache' = [served |-> served, secret |-> secret, secretCurrent |-> TRUE,
                     pvc |-> pvc.exists, job |-> job, deploy |-> deploy]
    BY DEF Crash, clusterVars, jobVars
  <1>2. faults' \in 0..MaxFaults
    BY FaultsBounded DEF Crash, TypeOK
  <1>3. CacheType'
    BY <1>1 DEF TypeOK, CacheType
  <1>4. PassType'
    BY <1>1 DEF PassType, Idle, Phases
  <1>5. TypeOK'
    BY <1>1, <1>2, <1>3, <1>4 DEF TypeOK, CacheType, PassType
  <1>6. Ordered' /\ JobDelivers' /\ SyncedIsDelivered'
    BY <1>1, <1>3, FreshCache
  <1>7. PassAhead'
    <2>1. None <= served
      BY Numbers DEF TypeOK
    <2> QED
      BY <1>1, <2>1, Numbers DEF PassAhead, Idle, TypeOK
  <1> QED
    BY <1>5, <1>6, <1>7

-----------------------------------------------------------------------------
(* The theorems *)

(* Every step keeps the inductive invariant. *)
LEMMA NextKeeps == IInv /\ [Next]_vars => IInv'
  <1> SUFFICES ASSUME IInv, [Next]_vars PROVE IInv'
    OBVIOUS
  <1>1. CASE Start
    BY <1>1, StartStep
  <1>2. CASE PassStep
    BY <1>2, WriteAGWSecretStep, SyncVolumeStep, ApplyStep, RolloutStep, WriteStatusStep DEF PassStep
  <1>3. CASE MountSync \/ FinishSync \/ FailSync \/ OrphanFinishes \/ CollectOrphans
    BY <1>3, MountSyncStep, FinishSyncStep, FailSyncStep, OrphanFinishesStep, CollectOrphansStep
  <1>4. CASE ConfigJob \/ Expire
    BY <1>4, ConfigJobStep, ExpireStep
  <1>5. CASE Regenerate \/ Bootstrap \/ Resync \/ Crash
    BY <1>5, RegenerateStep, BootstrapStep, ResyncStep, CrashStep
  <1>6. CASE \E i \in Informers : CatchUp(i)
    BY <1>6, CatchUpStep
  <1>7. CASE UNCHANGED vars
    BY <1>7 DEF vars, clusterVars, jobVars, IInv, TypeOK, Ordered, PassAhead, JobDelivers, SyncedIsDelivered
  <1> QED
    BY <1>1, <1>2, <1>3, <1>4, <1>5, <1>6, <1>7 DEF Next

(* The inductive invariant holds in every reachable state. *)
LEMMA Invariance == Spec => []IInv
  BY InitHolds, NextKeeps, PTL DEF Spec

(* Every value the handler, its Jobs and the caches hold stays in range:   *)
(* in particular no Job counts more failures than its backoffLimit allows. *)
THEOREM TrustTypeCorrect == Spec => []TypeOK
  <1>1. IInv => TypeOK
    BY DEF IInv
  <1> QED
    BY <1>1, Invariance, PTL

(* A status that says TrustBundleSynced names a CA that was copied to the  *)
(* volume, or for which a pass found no volume.                            *)
THEOREM SyncedWasDelivered == Spec => []SyncedIsDelivered
  <1>1. IInv => SyncedIsDelivered
    BY DEF IInv
  <1> QED
    BY <1>1, Invariance, PTL

(***************************************************************************)
(* The refinement.  The mapping sends an absent CA to 0; a step either     *)
(* generates a CA, delivers one between what was delivered and what is     *)
(* served, rolls the Deployments for a newer CA that was delivered, or is  *)
(* invisible.                                                              *)
(***************************************************************************)
LEMMA InitRefines == Init => D!Init
  BY DEF Init, D!Init, Newest, None

(* How far each abstract variable moves in a step of the handler. *)
LEMMA Visible ==
    ASSUME IInv
    PROVE  /\ Newest(served, 0) \in Nat /\ Newest(deploy.hash, 0) \in Nat /\ delivered \in Nat
           /\ secret <= served /\ Newest(deploy.hash, 0) <= Newest(secret, 0)
           /\ delivered <= Newest(served, 0)
  <1>1. /\ served \in Int /\ secret \in Int /\ cache.served \in Int /\ deploy.hash \in Int
        /\ delivered \in Nat
    BY Numbers DEF IInv, TypeOK
  <1>2. /\ cache.served <= served /\ secret <= cache.served /\ deploy.hash <= secret
        /\ delivered <= Newest(secret, 0)
    BY DEF IInv, Ordered
  <1> QED
    BY <1>1, <1>2 DEF Newest

(* A step that leaves Orc8r and the Deployments alone and raises delivered *)
(* up to a CA the Secret has held delivers that CA, or nothing.            *)
LEMMA DeliverStep ==
    ASSUME IInv, UNCHANGED <<served, deploy>>, NEW ca \in Int, ca <= secret,
           delivered' = delivered \/ delivered' = Newest(delivered, ca)
    PROVE  [D!Next]_D!dvars
  <1>1. \/ delivered' = delivered
        \/ delivered' \in (delivered + 1)..Newest(served, 0)
    <2>1. delivered \in Nat /\ secret <= served /\ served \in Int /\ secret \in Int
      BY Visible, Numbers DEF IInv, TypeOK
    <2> QED
      BY <2>1 DEF Newest
  <1> QED
    BY <1>1 DEF D!Next, D!Deliver, D!dvars

(* Every step of the handler and of its surroundings is a step of          *)
(* TrustDelivery or invisible to it.                                       *)
LEMMA NextRefines == IInv /\ [Next]_vars => [D!Next]_D!dvars
  <1> SUFFICES ASSUME IInv, [Next]_vars PROVE [D!Next]_D!dvars
    OBVIOUS
  <1>1. CASE UNCHANGED <<served, deploy, delivered>>
    BY <1>1 DEF D!dvars
  <1>2. CASE Regenerate
    <2>1. /\ UNCHANGED <<deploy, delivered>> /\ served \in Int
          /\ served' = Newest(served, 0) + 1
      BY <1>2, Numbers DEF Regenerate, clusterVars, IInv, TypeOK
    <2>2. Newest(served, 0)' = Newest(served, 0) + 1
      BY <2>1 DEF Newest
    <2> QED
      BY <2>1, <2>2 DEF D!Next, D!Regenerate
  <1>3. CASE SyncVolume
    <2>1. /\ pass.hash = secret /\ pass.hash \in CA /\ UNCHANGED <<served, deploy>>
          /\ delivered' = delivered \/ delivered' = Newest(delivered, pass.hash)
      BY <1>3 DEF SyncVolume, IInv, PassAhead
    <2>2. pass.hash \in Int /\ pass.hash <= secret
      BY <2>1, Numbers
    <2> QED
      BY <2>1, <2>2, DeliverStep
  <1>4. CASE FinishSync
    <2>1. UNCHANGED <<served, deploy>> /\ delivered' = Newest(delivered, pod)
      BY <1>4 DEF FinishSync, SyncScript
    <2>2. pod \in Int /\ pod <= secret
      BY Numbers DEF IInv, TypeOK, Ordered
    <2> QED
      BY <2>1, <2>2, DeliverStep
  <1>5. CASE OrphanFinishes
    <2>1. PICK p \in orphans : delivered' = Newest(delivered, p)
      BY <1>5 DEF OrphanFinishes, SyncScript
    <2>2. UNCHANGED <<served, deploy>>
      BY <1>5 DEF OrphanFinishes
    <2>3. p \in Int /\ p <= secret
      BY <2>1, Numbers DEF IInv, TypeOK, Ordered
    <2> QED
      BY <2>1, <2>2, <2>3, DeliverStep
  <1>6. CASE ConfigJob
    <2>1. /\ UNCHANGED <<served, deploy>>
          /\ delivered' = delivered \/ delivered' = Newest(delivered, config.ca)
      BY <1>6 DEF ConfigJob
    <2>2. config.ca \in Int /\ config.ca <= secret
      BY Numbers DEF IInv, TypeOK, Ordered
    <2> QED
      BY <2>1, <2>2, DeliverStep
  <1>7. CASE Apply
    <2>1. UNCHANGED <<served, delivered>> /\ deploy'.hash = deploy.hash
      BY <1>7 DEF Apply, IInv, TypeOK
    <2> QED
      BY <2>1 DEF D!dvars
  <1>8. CASE Rollout
    <2>1. /\ UNCHANGED <<served, delivered>> /\ pass.hash = secret /\ pass.hash <= delivered
          /\ pass.hash \in Int /\ deploy.hash \in Int /\ deploy.hash <= secret
          /\ delivered \in Nat
      BY <1>8, Numbers DEF Rollout, IInv, PassAhead, TypeOK, Ordered
    <2>2. deploy'.hash \in {deploy.hash, pass.hash}
      BY <1>8 DEF Rollout, RolloutHash, IInv, TypeOK
    <2>3. \/ Newest(deploy.hash, 0)' = Newest(deploy.hash, 0)
          \/ Newest(deploy.hash, 0)' \in (Newest(deploy.hash, 0) + 1)..delivered
      BY <2>1, <2>2 DEF Newest
    <2> QED
      BY <2>1, <2>3 DEF D!Next, D!Announce, D!dvars
  <1>9. \/ UNCHANGED <<served, deploy, delivered>>
        \/ Regenerate \/ SyncVolume \/ FinishSync \/ OrphanFinishes \/ ConfigJob \/ Apply \/ Rollout
    <2>1. Start \/ WriteAGWSecret \/ WriteStatus => UNCHANGED <<served, deploy, delivered>>
      BY DEF Start, WriteAGWSecret, WriteStatus, clusterVars
    <2>2. MountSync \/ FailSync \/ CollectOrphans \/ Expire => UNCHANGED <<served, deploy, delivered>>
      BY DEF MountSync, FailSync, CollectOrphans, Expire
    <2>3. Bootstrap \/ (\E i \in Informers : CatchUp(i)) \/ Resync \/ Crash
             => UNCHANGED <<served, deploy, delivered>>
      BY DEF Bootstrap, CatchUp, Resync, Crash, clusterVars
    <2>4. UNCHANGED vars => UNCHANGED <<served, deploy, delivered>>
      BY DEF vars, clusterVars
    <2> QED
      BY <2>1, <2>2, <2>3, <2>4 DEF Next, PassStep
  <1> QED
    BY <1>1, <1>2, <1>3, <1>4, <1>5, <1>6, <1>7, <1>8, <1>9

(* The handler implements TrustDelivery: the Deployments are rolled for a  *)
(* CA (annotateAGWCoreDeploymentsForRootCA) only after it was delivered,   *)
(* neither goes back to an older CA, and neither overtakes Orc8r.          *)
THEOREM HandlerImplementsDelivery == Spec => Delivery
  BY InitRefines, NextRefines, Invariance, PTL DEF Spec, Delivery, D!Safety
=============================================================================
