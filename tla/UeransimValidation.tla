------------------------ MODULE UeransimValidation ------------------------
(***************************************************************************)
(* reconcileUERANSIMValidation: for every new trigger the gNB and the UE   *)
(* Deployment are rolled, a one-shot Job execs into the UE pod, and its    *)
(* outcome becomes the condition UERANSIMValidated.  Around it, the parts  *)
(* of a pass it depends on: the native release that creates or deletes the *)
(* simulator's Deployments, and the status write that ends the pass.  The  *)
(* start policy is Immediate; the gate is the subject of AgwReconcile.     *)
(*                                                                         *)
(* Job, Deployments and pods are read through informer caches that lag     *)
(* each on its own.  Since any of them may be arbitrarily old, the reads   *)
(* between two writes of the pass can be taken as one step.                *)
(*                                                                         *)
(* The hash of a validation spec is a positive number; 0 is no hash.       *)
(***************************************************************************)
EXTENDS Naturals

CONSTANTS
    Specs,      \* the specs a user may give the object
    Created,    \* the one it is created with
    MaxEvents   \* bound on the user's edits, failed calls and crashes

SpecType == [enabled : BOOLEAN, ueransim : BOOLEAN, hash : Nat \ {0}]

ASSUME SpecsAssumption  == Specs \subseteq SpecType /\ Created \in Specs
ASSUME BoundsAssumption == MaxEvents \in Nat

VARIABLES
    api,       \* the object: its spec, the condition, whether it is observed
    deploy,    \* the Deployments of the simulator
    pods,      \* the pods of the UE
    job,       \* the Job <release>-ueransim-validation
    cache,     \* the informers' copies of these three
    pass,      \* the running pass
    wake,      \* the object's key is queued, or will be by a timer
    verdicts,  \* history: the outcomes of the Jobs, by hash
    started,   \* history: the hash a Job was created for since it was set
    events     \* edits, failed calls and crashes so far

clusterVars == <<deploy, pods, job>>
vars == <<api, clusterVars, cache, pass, wake, verdicts, started, events>>

Sims       == {"gnb", "ue"}
Hash       == {0} \cup {s.hash : s \in Specs}
CondStatus == {"None", "Unknown", "True", "False"}
Outcomes   == {"True", "False"}
Informers  == {"deploy", "pods", "job"}

(* seen: status.observedGeneration is metadata.generation;                 *)
(* ready: status counts as many ready and available replicas as asked for. *)
(* Both vary for the UE only: a gNB that is late delays the Job just as a  *)
(* late UE does, so its status is taken to follow its spec at once.        *)
Deploy   == [exists : BOOLEAN, hash : Hash, seen : BOOLEAN, ready : BOOLEAN]
NoDeploy == [exists |-> FALSE, hash |-> 0, seen |-> FALSE, ready |-> FALSE]

(* A pod of the ReplicaSet for template annotation "rev". *)
Pod == [rev : Hash, running : BOOLEAN]

(* "rev" is that of the pod the Job execs into. *)
NoJob == [state |-> "none", hash |-> 0, rev |-> 0]
Job   == {NoJob} \cup
         [state : {"active", "succeeded", "failed"}, hash : Hash \ {0}, rev : Hash]

(* What the pass reads of them: the annotation of a Deployment that exists *)
(* and whether deploymentsReady accepts it, the running pods, the Job's    *)
(* annotation and status.                                                  *)
Listed(dep) == [d \in {e \in Sims : dep[e].exists} |->
                   [hash |-> dep[d].hash, ok |-> dep[d].seen /\ dep[d].ready]]
Targets(ps) == {p.rev : p \in {q \in ps : q.running}}
Read(j)     == [state |-> j.state, hash |-> j.hash]

Fresh(i) == CASE i = "deploy" -> Listed(deploy)
              [] i = "pods"   -> Targets(pods)
              [] i = "job"    -> Read(job)

Idle == [pc |-> "idle", spec |-> Created, current |-> FALSE,
         cond |-> "None", again |-> FALSE]

TypeOK ==
    /\ api \in [spec : Specs, cond : CondStatus, observed : BOOLEAN]
    /\ deploy \in [Sims -> Deploy]
    /\ pods \subseteq Pod
    /\ job \in Job
    /\ \E present \in SUBSET Sims : cache.deploy \in [present -> [hash : Hash, ok : BOOLEAN]]
    /\ cache.pods \subseteq Hash
    /\ cache.job \in {Read(j) : j \in Job}
    /\ pass \in [pc : {"idle", "apply", "validate", "rollout", "status"}, spec : Specs,
                 current : BOOLEAN, cond : CondStatus, again : BOOLEAN]
    /\ wake \in BOOLEAN
    /\ verdicts \subseteq (Hash \X Outcomes)
    /\ started \in Hash
    /\ events \in 0..MaxEvents

Init ==
    /\ api = [spec |-> Created, cond |-> "None", observed |-> FALSE]
    /\ deploy = [d \in Sims |-> NoDeploy]
    /\ pods = {}
    /\ job = NoJob
    /\ cache = [i \in Informers |-> Fresh(i)]
    /\ pass = Idle
    /\ wake = TRUE
    /\ verdicts = {}
    /\ started = 0
    /\ events = 0

Event   == events < MaxEvents /\ events' = events + 1
Fault   == Event
NoFault == UNCHANGED events

Goto(phase) == pass' = [pass EXCEPT !.pc = phase]

(* The condition the pass reports, and whether it asks to be run again. *)
Report(cond, again) == pass' = [pass EXCEPT !.pc = "status", !.cond = cond, !.again = again]

Wait   == Report("Unknown", TRUE)
Failed == Report("False", TRUE)

-----------------------------------------------------------------------------
(* The pass *)

Get ==
    /\ pass.pc = "idle" /\ wake
    /\ wake' = FALSE
    /\ pass' = [pc |-> "apply", spec |-> api.spec, current |-> TRUE,
                cond |-> api.cond, again |-> FALSE]
    /\ UNCHANGED <<api, clusterVars, cache, verdicts, started, events>>

(* reconcileNativeRelease with nativeAGWApplyFilter: the simulator's       *)
(* Deployments are applied, which leaves a rolled template's annotation    *)
(* alone, or deleted with their pods.                                      *)
ApplySimulator(done) ==
    /\ deploy' = [d \in Sims |->
          CASE d \notin done -> deploy[d]
            [] d \in done /\ ~pass.spec.ueransim -> NoDeploy
            [] d \in done /\ pass.spec.ueransim  ->
                 IF deploy[d].exists THEN deploy[d]
                 ELSE [exists |-> TRUE, hash |-> 0, seen |-> d = "gnb", ready |-> d = "gnb"]]
    /\ pods' = IF pass.spec.ueransim \/ "ue" \notin done THEN pods ELSE {}

Apply ==
    /\ pass.pc = "apply"
    /\ \/ ApplySimulator(Sims) /\ Goto("validate") /\ NoFault
       \/ (\E done \in SUBSET Sims : ApplySimulator(done)) /\ Report(pass.cond, TRUE) /\ Fault
    /\ UNCHANGED <<api, job, cache, wake, verdicts, started>>

(* Mutant: a Job is taken for the trigger's whatever its annotation. *)
OfTheTriggerAny(j) == TRUE

OfTheTrigger(j) == j.hash = pass.spec.hash

(* Mutant: a Job that failed is reported like one that is running. *)
ReportJobNotFailed(j) ==
    IF j.state = "succeeded" THEN Report("True", FALSE) ELSE Wait

(* What the status of the trigger's own Job says. *)
ReportJob(j) ==
    CASE j.state = "succeeded" -> Report("True", FALSE)
      [] j.state = "failed"    -> Report("False", FALSE)
      [] OTHER                 -> Wait

(* The first part of reconcileUERANSIMValidation, up to the Job it finds;  *)
(* a fault is an error of the RBAC objects, of the Get or of the Delete.   *)
(* The Job is deleted by name, whatever it has become.                     *)
Validate ==
    LET wanted == pass.spec.enabled /\ pass.spec.ueransim
        found  == cache.job.state # "none" IN
    /\ pass.pc = "validate"
    /\ \/ /\ ~pass.spec.enabled
          /\ Report("None", FALSE)
          /\ NoFault /\ UNCHANGED job
       \/ /\ pass.spec.enabled /\ ~pass.spec.ueransim
          /\ Report(pass.cond, FALSE)
          /\ NoFault /\ UNCHANGED job
       \/ /\ wanted /\ found /\ ~OfTheTrigger(cache.job)
          /\ job' = NoJob
          /\ Wait
          /\ NoFault
       \/ /\ wanted /\ found /\ OfTheTrigger(cache.job)
          /\ ReportJob(cache.job)
          /\ NoFault /\ UNCHANGED job
       \/ /\ wanted /\ ~found
          /\ Goto("rollout")
          /\ NoFault /\ UNCHANGED job
       \/ /\ wanted
          /\ Failed
          /\ Fault /\ UNCHANGED job
    /\ UNCHANGED <<api, deploy, pods, cache, wake, verdicts, started>>

NeedsRollout(d) == cache.deploy[d].hash # pass.spec.hash

(* A patched template is a new generation. *)
Rolled(done) ==
    [d \in Sims |-> IF d \in done
                    THEN [deploy[d] EXCEPT !.hash = pass.spec.hash, !.seen = (d = "gnb")]
                    ELSE deploy[d]]

(* deploymentsReady, without the root CA hash. *)
DeploymentsReady == \A d \in Sims : cache.deploy[d].ok

(* Mutants: the Job is created or updated; it is created without its       *)
(* annotation.                                                             *)
CreateJobAlways(rev) ==
    job' = [state |-> "active", hash |-> pass.spec.hash, rev |-> rev]

CreateJobUnmarked(rev) ==
    /\ job = NoJob
    /\ job' = [state |-> "active", hash |-> 0, rev |-> rev]

(* The API server refuses a second Job of the name. *)
CreateJob(rev) ==
    /\ job = NoJob
    /\ job' = [state |-> "active", hash |-> pass.spec.hash, rev |-> rev]

(* reconcileUERANSIMValidationRollout and what follows it: roll, wait for  *)
(* the Deployments, pick a running UE pod, create the Job.  An error of    *)
(* Create may hide a Job that was created.                                 *)
RollAndRun ==
    LET stale  == {d \in DOMAIN cache.deploy : NeedsRollout(d)}
        rolled == stale = {} /\ DOMAIN cache.deploy = Sims IN
    /\ pass.pc = "rollout"
    /\ \/ /\ ~rolled
          /\ deploy' = Rolled(stale)
          /\ Wait
          /\ NoFault /\ UNCHANGED <<job, started>>
       \/ /\ \E done \in SUBSET stale : deploy' = Rolled(done)
          /\ Failed
          /\ Fault /\ UNCHANGED <<job, started>>
       \/ /\ rolled /\ (~DeploymentsReady \/ cache.pods = {})
          /\ Wait
          /\ NoFault /\ UNCHANGED <<deploy, job, started>>
       \/ /\ rolled /\ DeploymentsReady
          /\ \E rev \in cache.pods : CreateJob(rev)
          /\ started' = pass.spec.hash
          /\ (Wait /\ NoFault) \/ (Failed /\ Fault)
          /\ UNCHANGED deploy
       \/ /\ rolled /\ DeploymentsReady /\ cache.pods # {} /\ job # NoJob
          /\ Failed
          /\ NoFault /\ UNCHANGED <<deploy, job, started>>
    /\ UNCHANGED <<api, pods, cache, wake, verdicts>>

(* updateAGWStatus or updateAGWReadyStatusWithRequeue; a status that       *)
(* changed comes back as an event of the object.                           *)
UpdateStatus ==
    LET written == [api EXCEPT !.cond = pass.cond, !.observed = TRUE] IN
    /\ pass.pc = "status"
    /\ pass' = Idle
    /\ \/ /\ pass.current
          /\ api' = written
          /\ wake' = (wake \/ pass.again \/ written # api)
          /\ NoFault
       \/ /\ (~pass.current /\ NoFault) \/ Fault
          /\ wake' = TRUE
          /\ UNCHANGED api
    /\ UNCHANGED <<clusterVars, cache, verdicts, started>>

PassStep == Apply \/ Validate \/ RollAndRun \/ UpdateStatus

-----------------------------------------------------------------------------
(* The rest of the system *)

UserEdit ==
    /\ Event
    /\ \E s \in Specs \ {api.spec} :
          /\ api' = [api EXCEPT !.spec = s, !.observed = FALSE]
          /\ started' = IF s.hash = api.spec.hash THEN started ELSE 0
    /\ pass' = [pass EXCEPT !.current = FALSE]
    /\ wake' = TRUE
    /\ UNCHANGED <<clusterVars, cache, verdicts>>

CatchUp(i) ==
    /\ cache[i] # Fresh(i)
    /\ cache' = [cache EXCEPT ![i] = Fresh(i)]
    /\ UNCHANGED <<api, clusterVars, pass, wake, verdicts, started, events>>

(* The Deployment controller observes a generation and reports it.  The    *)
(* UE's Deployment surges: a pod of the new template is added to the old   *)
(* one, which goes on running and counts as ready.                         *)
ObserveUe ==
    LET Of(running) == [rev |-> deploy["ue"].hash, running |-> running] IN
    /\ deploy["ue"].exists /\ ~deploy["ue"].seen
    /\ deploy' = [deploy EXCEPT !["ue"].seen = TRUE, !["ue"].ready = \E p \in pods : p.running]
    /\ pods' = pods \cup (IF Of(TRUE) \in pods THEN {} ELSE {Of(FALSE)})
    /\ UNCHANGED <<api, job, cache, pass, wake, verdicts, started, events>>

(* The new pod starts; without a readiness probe it is ready at once. *)
UeRuns ==
    LET new == [rev |-> deploy["ue"].hash, running |-> FALSE] IN
    /\ deploy["ue"].seen /\ new \in pods
    /\ pods' = (pods \ {new}) \cup {[new EXCEPT !.running = TRUE]}
    /\ deploy' = [deploy EXCEPT !["ue"].ready = TRUE]
    /\ UNCHANGED <<api, job, cache, pass, wake, verdicts, started, events>>

(* Pods of old ReplicaSets go, a running one when its successor is ready. *)
Superfluous ==
    LET new == [rev |-> deploy["ue"].hash, running |-> TRUE] IN
    {p \in pods : deploy["ue"].seen /\ p.rev # new.rev /\ (p.running => new \in pods)}

DeletePods ==
    /\ Superfluous # {}
    /\ pods' = pods \ Superfluous
    /\ UNCHANGED <<api, deploy, job, cache, pass, wake, verdicts, started, events>>

(* The Job's pod execs into the UE pod: it cannot succeed without one.     *)
JobEnds ==
    /\ job.state = "active"
    /\ \E outcome \in Outcomes :
          /\ outcome = "True"  => job.rev \in Targets(pods)
          /\ job' = [job EXCEPT !.state = IF outcome = "True" THEN "succeeded" ELSE "failed"]
          /\ verdicts' = verdicts \cup {<<job.hash, outcome>>}
    /\ UNCHANGED <<api, deploy, pods, cache, pass, wake, started, events>>

(* The informer's periodic resync queues the object again. *)
Resync ==
    /\ pass.pc = "idle" /\ ~wake
    /\ wake' = TRUE
    /\ UNCHANGED <<api, clusterVars, cache, pass, verdicts, started, events>>

(* The manager dies and comes back: fresh caches, the object queued. *)
Crash ==
    /\ Fault
    /\ pass' = Idle
    /\ wake' = TRUE
    /\ cache' = [i \in Informers |-> Fresh(i)]
    /\ UNCHANGED <<api, clusterVars, verdicts, started>>

Cluster == ObserveUe \/ UeRuns \/ DeletePods \/ JobEnds

Next ==
    \/ Get \/ PassStep
    \/ UserEdit \/ (\E i \in Informers : CatchUp(i)) \/ Cluster \/ Resync \/ Crash

(* The manager works, informers catch up and resync, the Deployments roll  *)
(* and the Job ends, by its deadline at the latest.                        *)
Fairness ==
    /\ WF_vars(Get) /\ WF_vars(PassStep)
    /\ \A i \in Informers : WF_vars(CatchUp(i))
    /\ WF_vars(ObserveUe) /\ WF_vars(UeRuns) /\ WF_vars(DeletePods) /\ WF_vars(JobEnds)
    /\ WF_vars(Resync)

Spec == Init /\ [][Next]_vars /\ Fairness

-----------------------------------------------------------------------------
(* Properties *)

Wanted  == api.spec.enabled /\ api.spec.ueransim
Settled == api.observed /\ pass.pc = "idle" /\ ~wake

(* When the controller has come to rest, the condition is the outcome of a *)
(* Job that ran for the trigger in the spec: never that of an earlier      *)
(* trigger, of a call that failed or of a Job that is still running,       *)
(* whatever copies of the Job the passes read.                             *)
VerdictOfTrigger ==
    Settled /\ Wanted => <<api.spec.hash, api.cond>> \in verdicts

(* "one-shot": for a trigger that is left alone no second Job is created,  *)
(* not by a pass with a stale cache, nor after a crash or an error that    *)
(* hides a created Job, nor when the simulator is switched off and on.     *)
OneShot ==
    [][job' # job /\ job'.state = "active" => job'.hash # started]_vars

(* Every trigger gets its verdict in the end, and the condition stays with *)
(* what the Job in the cluster says.                                       *)
VerdictReached ==
    <>[](Wanted => /\ job.hash = api.spec.hash
                   /\ \/ job.state = "succeeded" /\ api.cond = "True"
                      \/ job.state = "failed"    /\ api.cond = "False")

(* docs/ueransim-validation.md: rolling the Deployments "gives each        *)
(* validation run a clean simulator attach attempt": the Job execs into a  *)
(* UE pod that was started for its trigger.                                *)
CleanAttach == job.state = "active" => job.rev = job.hash
=============================================================================
