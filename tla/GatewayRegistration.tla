------------------------ MODULE GatewayRegistration ------------------------
(***************************************************************************)
(* The bootstrap identity of an AGW and its record in the Orc8r/NMS: the   *)
(* identity Secret (reconcileAGWIdentity), the Jobs that register and      *)
(* deregister the gateway, and the scripts those Jobs run against the NMS  *)
(* API.                                                                    *)
(*                                                                         *)
(* One worker runs the passes of all MagmaAGW objects.  It reads Secrets   *)
(* and Jobs from informer caches and writes to the API server.  Scripts    *)
(* run on their own, one HTTP request per step; the script of a Job that   *)
(* was deleted in the background runs on until the kubelet stops it.       *)
(*                                                                         *)
(* The object's finalizer and the phases of the pass that are not about    *)
(* identity or registration are in AgwReconcile.                           *)
(***************************************************************************)
EXTENDS Naturals, FiniteSets

CONSTANTS
    Agws,       \* the MagmaAGW objects, by namespace and name
    JobOf,      \* metadata.name: the Jobs are named after it
    SecretOf,   \* namespace and spec.identity.secretName
    Networks,   \* the values of spec.networkID
    Gateways,   \* the values of spec.accessGatewayID
    Keys,       \* ECDSA keys, each with the hardware ID it came with
    Specs,      \* the specs a user may give an object
    Found,      \* what the identity Secrets and the NMS may hold at the start
    MaxOrphans, \* bound on scripts that outlive their Job
    MaxFaults   \* bound on failed calls and restarts

(* networkID, which stands for all the script finds in its environment (the *)
(* API host and the admin certificate too); accessGatewayID, "" when one of *)
(* the two ids is missing; the import Secret's key, and the switches.       *)
SpecType == [net : Networks, gw : Gateways \cup {""}, import : Keys \cup {"none"},
             rotate : BOOLEAN, enabled : BOOLEAN, deleteOnRemoval : BOOLEAN,
             deleteSecret : BOOLEAN]

ASSUME KeysAssumption == Keys \cap {"none", "generic"} = {} /\ IsFiniteSet(Keys)
ASSUME GatewaysAssumption == "" \notin Gateways /\ Networks # {}
ASSUME SpecsAssumption == Specs \subseteq SpecType /\ Specs # {}
ASSUME NamesAssumption ==
    /\ Agws # {} /\ IsFiniteSet(Agws) /\ "none" \notin Agws
    /\ DOMAIN JobOf = Agws /\ DOMAIN SecretOf = Agws
ASSUME FoundAssumption == Found \subseteq Keys \cup {"none", "generic"} /\ "none" \in Found
ASSUME BoundsAssumption == MaxOrphans \in Nat \ {0} /\ MaxFaults \in Nat

VARIABLES
    crs,          \* the MagmaAGW objects
    status,       \* the spec each was last reconciled for, whether that
                  \* pass got beyond the registration, and the network, id
                  \* and key the object is reported to be registered with
    queued,       \* the objects whose key is in the work queue
    pass,         \* the running pass and its local variables
    secrets,      \* the identity Secrets
    secretCache,  \* the informer's copy of them
    used,         \* the keys that are or were in use
    jobs,         \* the Jobs, with the step their script has reached
    jobCache,     \* the informer's copy of the Jobs
    orphans,      \* scripts that outlive their Job
    nms,          \* the gateway records of each network: "none", "generic",
                  \* or an LTE gateway's key
    confirmed,    \* requests a script has seen fulfilled (history)
    orc8r,        \* the NMS cert Secret and magmalte are there
    faults        \* faults so far

secretVars == <<secrets, secretCache, used>>
jobVars    == <<jobs, jobCache, orphans>>
nmsVars    == <<nms, confirmed>>
vars == <<crs, status, queued, pass, secretVars, jobVars, nmsVars, orc8r, faults>>

-----------------------------------------------------------------------------
(* What a script is given: the network, by its environment, and the payload, *)
(* which holds the id and the device.                                       *)
Request   == [net : Networks, gw : Gateways \cup {""}, key : Keys \cup {"none"}]
NoRequest == [net |-> CHOOSE n \in Networks : TRUE, gw |-> "", key |-> "none"]

(* The record a script works on, or a spec is about. *)
RecordOf(r) == <<r.net, r.gw>>
Records     == Networks \X Gateways

(* An identity Secret; "dangling" once the object that owns it is gone. *)
Secret   == [key : Keys \cup {"none"}, owner : Agws \cup {"none"}, dangling : BOOLEAN]
NoSecret == [key |-> "none", owner |-> "none", dangling |-> FALSE]

JobIds == {"register", "delete"} \X {JobOf[a] : a \in Agws}
registerJob(a) == <<"register", JobOf[a]>>
deleteJob(a)   == <<"delete", JobOf[a]>>

(* A Job and the request its script makes next. *)
Steps     == {"lookup", "generic", "drop", "post", "confirm", "undo", "done"}
JobStates == {"none", "running", "succeeded", "failed"}
Job       == [state : JobStates, request : Request, step : Steps]
FirstStep(j) == IF j[1] = "register" THEN "lookup" ELSE "undo"
NewJob(j, r) == [state |-> "running", request |-> r, step |-> FirstStep(j)]
NoJob        == [state |-> "none", request |-> NoRequest, step |-> "done"]


(* What the pass reads of a Job. *)
Seen(job) == [state |-> job.state, request |-> job.request]

Cr   == [exists : BOOLEAN, deleting : BOOLEAN, spec : Specs]
NoCr == [exists |-> FALSE, deleting |-> FALSE, spec |-> CHOOSE s \in Specs : TRUE]

(* "observed": status.observedGeneration is the object's generation. *)
Status   == [spec : Specs, observed : BOOLEAN, ready : BOOLEAN, reg : Request]
NoStatus == [spec |-> NoCr.spec, observed |-> FALSE, ready |-> FALSE, reg |-> NoRequest]

(* "stale": the object was written to after the pass read it. *)
Pass == [step : {"idle", "read", "register", "finish"}, agw : Agws, spec : Specs,
         key : Keys \cup {"none"}, stale : BOOLEAN]
Begin(step, a, s) == [step |-> step, agw |-> a, spec |-> s, key |-> "none", stale |-> FALSE]
Idle == Begin("idle", CHOOSE a \in Agws : TRUE, NoCr.spec)

TypeOK ==
    /\ crs \in [Agws -> Cr]
    /\ status \in [Agws -> Status]
    /\ queued \subseteq Agws
    /\ pass \in Pass
    /\ secrets \in [{SecretOf[a] : a \in Agws} -> Secret]
    /\ secretCache \in [{SecretOf[a] : a \in Agws} -> Secret]
    /\ used \subseteq Keys
    /\ jobs \in [JobIds -> Job]
    /\ jobCache \in [JobIds -> [state : JobStates, request : Request]]
    /\ orphans \subseteq [request : Request, step : Steps]
    /\ nms \in [Records -> Keys \cup {"none", "generic"}]
    /\ confirmed \subseteq Request
    /\ orc8r \in BOOLEAN
    /\ faults \in 0..MaxFaults

Imports == {s.import : s \in Specs} \ {"none"}

Init ==
    /\ crs = [a \in Agws |-> NoCr]
    /\ status = [a \in Agws |-> NoStatus]
    /\ queued = {}
    /\ pass = Idle
    /\ secrets \in [{SecretOf[a] : a \in Agws} ->
                       {[NoSecret EXCEPT !.key = k] : k \in Found \ {"generic"}}]
    /\ secretCache = secrets
    /\ nms \in [Records -> Found]
    /\ used = (Found \cup Imports) \cap Keys
    /\ jobs = [j \in JobIds |-> NoJob]
    /\ jobCache = [j \in JobIds |-> Seen(NoJob)]
    /\ orphans = {}
    /\ confirmed = {}
    /\ orc8r = FALSE
    /\ faults = 0

Fault   == faults < MaxFaults /\ faults' = faults + 1
NoFault == UNCHANGED faults

-----------------------------------------------------------------------------
(* The end of a pass *)

(* Mutant: no RequeueAfter, although nothing watches the Jobs. *)
EndPassOnce(a, s, ready, reg) ==
    /\ pass' = Idle
    /\ status' = IF pass.stale THEN status
                 ELSE [status EXCEPT ![a] = [spec |-> s, observed |-> TRUE,
                                             ready |-> ready, reg |-> reg]]
    /\ queued' = IF pass.stale THEN queued \cup {a} ELSE queued \ {a}

(* The pass of object a writes its status, unless the object is no longer  *)
(* the one it read, and is queued again when that changed the status or    *)
(* the gateway is not registered yet.                                      *)
EndPass(a, s, ready, reg) ==
    LET new   == [spec |-> s, observed |-> TRUE, ready |-> ready, reg |-> reg]
        again == pass.stale \/ ~ready \/ new # status[a]
    IN
    /\ pass' = Idle
    /\ status' = IF pass.stale THEN status ELSE [status EXCEPT ![a] = new]
    /\ queued' = IF again THEN queued \cup {a} ELSE queued \ {a}

-----------------------------------------------------------------------------
(* reconcileAGWIdentity *)

(* Mutant: a Secret without a key stays without one. *)
desiredAGWPrivateKeyNotGenerated(s, old) ==
    IF s.import # "none" /\ ~s.rotate THEN {s.import} ELSE {old}

(* The keys desiredAGWPrivateKey and the mutate function may leave in a    *)
(* Secret they found with key "old".                                       *)
desiredAGWPrivateKey(s, old) ==
    CASE s.import # "none" /\ ~s.rotate -> {s.import}
      [] (s.import = "none" \/ s.rotate) /\ old # "none" -> {old}
      [] OTHER -> Keys \ used

(* SetControllerReference refuses a Secret with another controller. *)
MayControl(secret, a) == secret.owner \in {"none", a}

(* The pass goes on to the second read of the Secret. *)
IdentityWritten(a, s) ==
    /\ pass' = Begin("read", a, s)
    /\ queued' = queued \ {a}
    /\ UNCHANGED status

(* Mutant: the error of CreateOrUpdate is dropped. *)
IdentityErrorDropped(a, s) == IdentityWritten(a, s)

(* IdentityReconcileFailed: the pass ends, and the status fields of the last *)
(* registration stay as they are.                                           *)
IdentityFailed(a, s) == EndPass(a, s, FALSE, status[a].reg)

(* CreateOrUpdate on the cached Secret.  Nothing is written when the cached *)
(* copy is as desired; a write fails when that copy is not the API server's. *)
ReconcileIdentity(a) ==
    LET s      == crs[a].spec
        n      == SecretOf[a]
        cached == secretCache[n]
        Desired(k) == [key |-> k, owner |-> a, dangling |-> FALSE]
    IN
    /\ pass.step = "idle"
    /\ a \in queued
    /\ crs[a].exists /\ ~crs[a].deleting
    /\ \/ \E k \in desiredAGWPrivateKey(s, cached.key) :
             /\ MayControl(cached, a)
             /\ \/ Desired(k) = cached /\ IdentityWritten(a, s) /\ UNCHANGED <<secrets, used>>
                \/ /\ Desired(k) # cached /\ secrets[n] = cached
                   /\ secrets' = [secrets EXCEPT ![n] = Desired(k)]
                   /\ used' = used \cup {k}
                   /\ IdentityWritten(a, s)
                \/ /\ Desired(k) # cached /\ secrets[n] # cached
                   /\ IdentityFailed(a, s)
                   /\ UNCHANGED <<secrets, used>>
             /\ NoFault
       \/ /\ \/ ~MayControl(cached, a) /\ NoFault
             \/ Fault
          /\ IdentityFailed(a, s)
          /\ UNCHANGED <<secrets, used>>
    /\ UNCHANGED <<crs, secretCache, jobVars, nmsVars, orc8r>>

(* The Get after it reads the cache once more, which may lag behind. *)
ReadIdentity ==
    LET cached == secretCache[SecretOf[pass.agw]] IN
    /\ pass.step = "read"
    /\ IF cached.key = "none"
       THEN EndPass(pass.agw, pass.spec, FALSE, status[pass.agw].reg)
       ELSE /\ pass' = [pass EXCEPT !.step = "register", !.key = cached.key]
            /\ UNCHANGED <<status, queued>>
    /\ UNCHANGED <<crs, secretVars, jobVars, nmsVars, orc8r, faults>>

-----------------------------------------------------------------------------
(* reconcileAGWGatewayRegistration *)

(* Mutant: the Job's environment always names the same network. *)
requestOfOneNetwork(s, key) == [NoRequest EXCEPT !.gw = s.gw, !.key = key]

requestOf(s, key) == [net |-> s.net, gw |-> s.gw, key |-> key]

(* What agwGatewayPayload builds and its hash tells apart: the id and the   *)
(* device.  The network is not in it.                                       *)
payloadHash(r) == [gw |-> r.gw, key |-> r.key]

(* Mutant: a Job for another payload is left alone. *)
DeleteJobKept(j) == UNCHANGED <<jobs, orphans>>

(* Delete with background propagation: the Job goes, its pod stays. *)
DeleteJob(j) ==
    /\ Cardinality(orphans) < MaxOrphans
    /\ jobs' = [jobs EXCEPT ![j] = NoJob]
    /\ orphans' = IF jobs[j].state = "running"
                  THEN orphans \cup {[request |-> jobs[j].request, step |-> jobs[j].step]}
                  ELSE orphans

(* Create fails when the Job is there although the cache misses it. *)
CreateJob(j, r) ==
    /\ jobs' = IF jobs[j].state = "none" THEN [jobs EXCEPT ![j] = NewJob(j, r)] ELSE jobs
    /\ UNCHANGED orphans

(* Mutant: a Job of the object's name counts, whatever payload it carries. *)
CurrentAnyPayload(job, r) == job.state # "none"

(* The Job's hash annotation is that of the payload this pass asks for. *)
Current(job, r) == payloadHash(job.request) = payloadHash(r)

Register ==
    LET s      == pass.spec
        r      == requestOf(s, pass.key)
        j      == registerJob(pass.agw)
        cached == jobCache[j]
        ready  == s.enabled /\ s.gw # "" /\ orc8r
        Report(registered) == EndPass(pass.agw, s, registered \/ ~s.enabled,
                                      IF registered THEN r ELSE NoRequest)
    IN
    /\ pass.step = "register"
    /\ \/ /\ ~ready
          /\ Report(FALSE)
          /\ NoFault
          /\ UNCHANGED <<jobs, orphans>>
       \/ /\ ready /\ cached.state # "none" /\ ~Current(cached, r)
          /\ DeleteJob(j)
          /\ Report(FALSE)
          /\ NoFault
       \/ /\ ready /\ cached.state # "none" /\ Current(cached, r)
          /\ Report(cached.state = "succeeded")
          /\ NoFault
          /\ UNCHANGED <<jobs, orphans>>
       \/ /\ ready /\ cached.state = "none"
          /\ CreateJob(j, r)
          /\ Report(FALSE)
          /\ NoFault
       \/ /\ ready
          /\ Report(FALSE)
          /\ Fault
          /\ UNCHANGED <<jobs, orphans>>
    /\ UNCHANGED <<crs, secretVars, jobCache, nmsVars, orc8r>>

-----------------------------------------------------------------------------
(* reconcileAGWGatewayDeregistration, in the pass of a terminating object *)

(* Mutant: the pass of a terminating object ends for good. *)
WaitForDeregistrationOnce(a) == queued' = queued \ {a} /\ UNCHANGED <<pass, status>>

(* reconcileAGWDeletion reports what it waits for and returns with a       *)
(* RequeueAfter of 20 or 30 seconds.                                       *)
WaitForDeregistration(a) == EndPass(a, crs[a].spec, FALSE, status[a].reg)

(* A Job that succeeded lets the deletion go on, a missing one is created; *)
(* without the Orc8r, or with a Job that runs or failed, the pass waits.   *)
Deregister(a) ==
    LET s       == crs[a].spec
        j       == deleteJob(a)
        skipped == ~(s.deleteOnRemoval /\ s.enabled)
        ready   == ~skipped /\ s.gw # "" /\ orc8r
        Done    == pass' = Begin("finish", a, s) /\ queued' = queued \ {a} /\ UNCHANGED status
    IN
    /\ pass.step = "idle"
    /\ a \in queued
    /\ crs[a].exists /\ crs[a].deleting
    /\ \/ /\ skipped \/ (ready /\ jobCache[j].state = "succeeded")
          /\ Done
          /\ UNCHANGED <<jobs, orphans>>
       \/ /\ ready /\ jobCache[j].state = "none"
          /\ CreateJob(j, requestOf(s, "none"))
          /\ WaitForDeregistration(a)
       \/ /\ ~skipped /\ (ready => jobCache[j].state \in {"running", "failed"})
          /\ WaitForDeregistration(a)
          /\ UNCHANGED <<jobs, orphans>>
    /\ UNCHANGED <<crs, secretVars, jobCache, nmsVars, orc8r, faults>>

(* The rest of reconcileAGWDeletion: the Secret is deleted by its name when *)
(* the spec asks for that, and the finalizer goes.  The owner reference in  *)
(* every copy of the Secret then names nobody.                              *)
FinishDeletion ==
    LET a == pass.agw
        Dangling(f) == [n \in DOMAIN f |-> IF f[n].owner = a /\ n = SecretOf[a]
                                          THEN [f[n] EXCEPT !.dangling = TRUE] ELSE f[n]]
    IN
    /\ pass.step = "finish"
    /\ pass' = Idle
    /\ crs' = [crs EXCEPT ![a] = NoCr]
    /\ status' = [status EXCEPT ![a] = NoStatus]
    /\ secrets' = Dangling(IF pass.spec.deleteSecret
                           THEN [secrets EXCEPT ![SecretOf[a]] = NoSecret] ELSE secrets)
    /\ secretCache' = Dangling(secretCache)
    /\ UNCHANGED <<queued, used, jobVars, nmsVars, orc8r, faults>>

-----------------------------------------------------------------------------
(* The scripts of registrationJob and deregistrationJob *)

(* One request of the registration script for request r.  The script first *)
(* waits for the API and the network and sets the tier.  "curl -f" fails on *)
(* an error status, and the container starts again; the two look-ups have  *)
(* no -f, so that an error status reads as "not there".                    *)
RegisterRequest(r, step, next) ==
    \/ /\ step = "lookup"
       /\ \/ next = (IF nms[RecordOf(r)] \in Keys THEN "done" ELSE "generic") /\ NoFault
          \/ next = "generic" /\ Fault
       /\ confirmed' = IF next = "done" THEN confirmed \cup {r} ELSE confirmed
       /\ UNCHANGED nms
    \/ /\ step = "generic"
       /\ \/ next = (IF nms[RecordOf(r)] = "none" THEN "post" ELSE "drop") /\ NoFault
          \/ next = "post" /\ Fault
       /\ UNCHANGED nmsVars
    \/ /\ step = "drop"
       /\ next = IF nms[RecordOf(r)] = "none" THEN "lookup" ELSE "post"
       /\ nms' = [nms EXCEPT ![RecordOf(r)] = "none"]
       /\ UNCHANGED confirmed /\ NoFault
    \/ /\ step = "post"
       /\ IF nms[RecordOf(r)] = "none"
          THEN nms' = [nms EXCEPT ![RecordOf(r)] = r.key] /\ next = "confirm"
          ELSE next = "lookup" /\ UNCHANGED nms
       /\ UNCHANGED confirmed /\ NoFault
    \/ /\ step \in {"drop", "post", "confirm"} /\ next = "lookup"
       /\ UNCHANGED nmsVars /\ Fault
    \/ /\ step = "confirm"
       /\ next = IF nms[RecordOf(r)] \in Keys THEN "done" ELSE "lookup"
       /\ confirmed' = IF next = "done" THEN confirmed \cup {r} ELSE confirmed
       /\ UNCHANGED nms /\ NoFault

(* Both DELETEs of the deregistration script end in "|| true". *)
DeleteRequest(r, step, next) ==
    /\ step = "undo" /\ next = "done"
    /\ \/ nms' = [nms EXCEPT ![RecordOf(r)] = "none"] /\ NoFault
       \/ UNCHANGED nms /\ Fault
    /\ UNCHANGED confirmed

(* A pod of Job j takes its next step, or its last retry fails. *)
RunJob(j) ==
    LET job == jobs[j] IN
    /\ orc8r
    /\ job.state = "running"
    /\ \/ \E next \in Steps :
             /\ IF j[1] = "register" THEN RegisterRequest(job.request, job.step, next)
                                     ELSE DeleteRequest(job.request, job.step, next)
             /\ jobs' = [jobs EXCEPT ![j].step = next,
                                     ![j].state = IF next = "done" THEN "succeeded" ELSE @]
       \/ /\ jobs' = [jobs EXCEPT ![j].state = "failed"]
          /\ Fault
          /\ UNCHANGED nmsVars
    /\ UNCHANGED <<crs, status, queued, pass, secretVars, jobCache, orphans, orc8r>>

RunOrphan(o) ==
    /\ orc8r
    /\ \E next \in Steps :
          /\ RegisterRequest(o.request, o.step, next)
          /\ orphans' = (orphans \ {o}) \cup
                (IF next = "done" THEN {} ELSE {[request |-> o.request, step |-> next]})
    /\ UNCHANGED <<crs, status, queued, pass, secretVars, jobs, jobCache, orc8r>>

(* The kubelet stops a pod whose Job is gone. *)
KillOrphan(o) ==
    /\ orphans' = orphans \ {o}
    /\ UNCHANGED <<crs, status, queued, pass, secretVars, jobs, jobCache, nmsVars, orc8r, faults>>

(* An object whose next pass, a few seconds away, will read Job j. *)
Awaited(j) ==
    \/ jobCache[j] # Seen(jobs[j])
    \/ \E a \in Agws : JobOf[a] = j[2] /\ (a \in queued \/ (pass.step # "idle" /\ pass.agw = a))

(* ttlSecondsAfterFinished is an hour: with the Orc8r up, the passes that  *)
(* wait for a Job see its success before it expires.                       *)
ExpireJob(j) ==
    /\ jobs[j].state \in {"succeeded", "failed"}
    /\ jobs[j].state = "succeeded" /\ orc8r => ~Awaited(j)
    /\ jobs' = [jobs EXCEPT ![j] = NoJob]
    /\ UNCHANGED <<crs, status, queued, pass, secretVars, jobCache, orphans, nmsVars, orc8r, faults>>

-----------------------------------------------------------------------------
(* The user, the API machinery and the Orc8r *)

(* Each object may have to generate a key: one is left for it. *)
UserCreate(a, s) ==
    /\ ~crs[a].exists
    /\ Cardinality(Keys \ used) > Cardinality({b \in Agws : crs[b].exists})
    /\ crs' = [crs EXCEPT ![a] = [exists |-> TRUE, deleting |-> FALSE, spec |-> s]]
    /\ queued' = queued \cup {a}
    /\ UNCHANGED <<status, pass, secretVars, jobVars, nmsVars, orc8r, faults>>

(* A new generation of object a. *)
Change(a, cr) ==
    /\ crs' = [crs EXCEPT ![a] = cr]
    /\ status' = [status EXCEPT ![a].observed = FALSE]
    /\ pass' = IF pass.step # "idle" /\ pass.agw = a THEN [pass EXCEPT !.stale = TRUE] ELSE pass
    /\ queued' = queued \cup {a}

UserEdit(a, s) ==
    /\ crs[a].exists /\ crs[a].spec # s
    /\ Change(a, [crs[a] EXCEPT !.spec = s])
    /\ UNCHANGED <<secretVars, jobVars, nmsVars, orc8r, faults>>

UserDelete(a) ==
    /\ crs[a].exists /\ ~crs[a].deleting
    /\ Change(a, [crs[a] EXCEPT !.deleting = TRUE])
    /\ UNCHANGED <<secretVars, jobVars, nmsVars, orc8r, faults>>

SyncSecrets ==
    /\ secretCache # secrets
    /\ secretCache' = secrets
    /\ UNCHANGED <<crs, status, queued, pass, secrets, used, jobVars, nmsVars, orc8r, faults>>

SyncJobs ==
    LET seen == [j \in JobIds |-> Seen(jobs[j])] IN
    /\ jobCache # seen
    /\ jobCache' = seen
    /\ UNCHANGED <<crs, status, queued, pass, secretVars, jobs, orphans, nmsVars, orc8r, faults>>

CollectSecret(n) ==
    /\ secrets[n].dangling
    /\ secrets' = [secrets EXCEPT ![n] = NoSecret]
    /\ UNCHANGED <<crs, status, queued, pass, secretCache, used, jobVars, nmsVars, orc8r, faults>>

Resync(a) ==
    /\ crs[a].exists
    /\ queued' = queued \cup {a}
    /\ UNCHANGED <<crs, status, pass, secretVars, jobVars, nmsVars, orc8r, faults>>

Orc8rChanges ==
    /\ orc8r' = ~orc8r
    /\ UNCHANGED <<crs, status, queued, pass, secretVars, jobVars, nmsVars, faults>>

Crash ==
    /\ Fault
    /\ pass' = Idle
    /\ queued' = {a \in Agws : crs[a].exists}
    /\ secretCache' = secrets
    /\ jobCache' = [j \in JobIds |-> Seen(jobs[j])]
    /\ UNCHANGED <<crs, status, secrets, used, jobs, orphans, nmsVars, orc8r>>

-----------------------------------------------------------------------------
Worker ==
    \/ ReadIdentity \/ Register \/ FinishDeletion
    \/ \E a \in Agws : ReconcileIdentity(a) \/ Deregister(a)

User == \E a \in Agws : UserDelete(a) \/ \E s \in Specs : UserCreate(a, s) \/ UserEdit(a, s)

Cluster ==
    \/ SyncSecrets \/ SyncJobs \/ Orc8rChanges \/ Crash
    \/ \E j \in JobIds : RunJob(j) \/ ExpireJob(j)
    \/ \E o \in orphans : RunOrphan(o) \/ KillOrphan(o)
    \/ \E n \in {SecretOf[a] : a \in Agws} : CollectSecret(n)
    \/ \E a \in Agws : Resync(a)

Next == Worker \/ User \/ Cluster

(***************************************************************************)
(* The queue serves its keys in turn, so that a queued object gets its     *)
(* pass however often it finds the worker busy; informers deliver, pods    *)
(* run, finished Jobs expire, orphaned pods are stopped and orphaned       *)
(* Secrets collected.  Nothing is assumed of the user, the resync or the   *)
(* Orc8r.                                                                  *)
(***************************************************************************)
Fairness ==
    /\ WF_vars(ReadIdentity \/ Register \/ FinishDeletion)
    /\ \A a \in Agws : SF_vars(ReconcileIdentity(a) \/ Deregister(a))
    /\ WF_vars(SyncSecrets) /\ WF_vars(SyncJobs)
    /\ \A j \in JobIds : WF_vars(RunJob(j)) /\ WF_vars(ExpireJob(j))
    /\ WF_vars(\E o \in orphans : KillOrphan(o))
    /\ \A n \in {SecretOf[a] : a \in Agws} : WF_vars(CollectSecret(n))

Spec == Init /\ [][Next]_vars /\ Fairness

-----------------------------------------------------------------------------
(* Properties *)

(***************************************************************************)
(* GatewayRegistered is reported for a gateway id and a key only if a      *)
(* script that carried exactly these has found the gateway in the NMS:     *)
(* never on the strength of a Job for an earlier id or identity, or of     *)
(* another object's Job of the same name, however stale the caches are.    *)
(* The network it looked in need not be the spec's: the hash of the        *)
(* payload does not contain it (see the next two properties).              *)
(***************************************************************************)
RegisteredWasConfirmed ==
    \A a \in Agws : status[a].reg # NoRequest =>
        \E r \in confirmed : payloadHash(r) = payloadHash(status[a].reg)

(***************************************************************************)
(* When GatewayRegistered is reported, a script has found the gateway in   *)
(* the spec's own network.  This holds with one network only: after an     *)
(* edit of networkID the Job of the old network is still accepted.         *)
(***************************************************************************)
RegisteredInNetwork ==
    \A a \in Agws : status[a].reg # NoRequest => status[a].reg \in confirmed

(***************************************************************************)
(* Two AGWs are never registered with the same generated key, although     *)
(* they may name the same identity Secret (its name has a default).        *)
(***************************************************************************)
KeysNotShared ==
    \A a, b \in Agws :
        a # b /\ status[a].reg # NoRequest /\ status[b].reg # NoRequest
              /\ status[a].reg.key = status[b].reg.key
        => status[a].reg.key \in Imports \cup Found

(* Object a stays as it is and shares its Jobs and its Secret with no other. *)
Undisturbed(a, s) ==
    /\ crs[a] = [exists |-> TRUE, deleting |-> FALSE, spec |-> s]
    /\ orc8r
    /\ \A b \in Agws \ {a} :
          JobOf[b] = JobOf[a] \/ SecretOf[b] = SecretOf[a] => ~crs[b].exists

(* Object a is reported as registered for spec s, with the key s imports. *)
Registered(a, s) ==
    /\ status[a].observed /\ status[a].ready /\ status[a].spec = s
    /\ status[a].reg.gw = s.gw
    /\ s.import # "none" /\ ~s.rotate => status[a].reg.key = s.import

(***************************************************************************)
(* While the Orc8r is up and the object is left alone, it is, again and    *)
(* again, reported as registered for its current spec: stale Jobs are      *)
(* replaced, failed ones expire, and a stale read of the Secret does not   *)
(* keep an imported key from being registered.                             *)
(***************************************************************************)
RegistrationCompletes ==
    \A a \in Agws, s \in Specs : s.enabled /\ s.gw # "" =>
        (<>[]Undisturbed(a, s) => []<>Registered(a, s))

(***************************************************************************)
(* An edit of networkID alone starts no script, for the old network's Job  *)
(* is current by its hash.  But if the object is left alone and reconciled *)
(* again and again after its Job has expired, what is reported comes to    *)
(* rest on a script that found the gateway in the spec's network.          *)
(***************************************************************************)
RegistrationFollowsNetwork ==
    \A a \in Agws, s \in Specs : s.enabled /\ s.gw # "" =>
        (<>[]Undisturbed(a, s) /\ []<>(a \in queued /\ jobs[registerJob(a)].state = "none")
            => <>[](status[a].reg # NoRequest =>
                       [net |-> s.net, gw |-> s.gw, key |-> status[a].reg.key] \in confirmed))

(* With the Orc8r up, no object waits for its deregistration for ever. *)
DeregistrationCompletes ==
    \A a \in Agws : ~<>[](crs[a].deleting /\ orc8r /\ crs[a].spec.gw # "")

(***************************************************************************)
(* magmaagw_controller.go waits "for AGW identity registration in          *)
(* Orc8r/NMS": when the registration is reported, and the object is        *)
(* unchanged, the record holds this identity.                              *)
(***************************************************************************)
RegisteredIdentityRecorded ==
    \A a \in Agws :
        status[a].ready /\ status[a].reg # NoRequest
            => nms[RecordOf(status[a].reg)] = status[a].reg.key

(***************************************************************************)
(* README.md: the finalizer "optionally removes the Orc8r/NMS gateway      *)
(* record": no record is left of an object that opted in.                  *)
(***************************************************************************)
RecordRemoved ==
    [][\A a \in Agws :
          crs[a].exists /\ ~crs'[a].exists /\ pass.spec.deleteOnRemoval /\ pass.spec.enabled
              => nms'[RecordOf(pass.spec)] = "none"]_vars
=============================================================================
