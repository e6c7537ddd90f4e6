-------------------------- MODULE Orc8rController --------------------------
(***************************************************************************)
(* MagmaOrc8rReconciler.Reconcile for one MagmaOrc8r object: the rendered  *)
(* release, the generated certificate Secret, the rollout of the           *)
(* Deployments and the re-run of the bootstrap Job when the certificates   *)
(* change, the magmalte HTTP mode, the status and the deletion.            *)
(*                                                                         *)
(* Secret, Deployments and Job are read through informer caches, which lag *)
(* each on its own: a pass may go by a certificate Secret, Deployment or   *)
(* Job that is no longer there or has changed since.  The object itself is *)
(* read once and may change under the pass (a pass that starts from a      *)
(* stale copy is one that started before the change); its status write     *)
(* then conflicts.                                                         *)
(*                                                                         *)
(* A set of certificates is a number: 0 is the placeholder in the          *)
(* manifest, 1, 2, ... are generated ones; its number is also its hash.    *)
(***************************************************************************)
EXTENDS Integers

CONSTANTS
    Specs,      \* the specs a user may give the object
    MaxOps,     \* bound on the user's creations, edits and deletions
    MaxFaults   \* bound on failed calls, crashes and failed bootstrap Jobs

(* What the controller branches on: the domain key of the certificates,    *)
(* whether nmsNodePort is set, and the bootstrap Job's template (password, *)
(* organisation, domain and so on are rendered into it).                   *)
SpecType == [domain : Nat \ {0}, nodePort : BOOLEAN, template : Nat \ {0}]

ASSUME SpecsAssumption  == Specs \subseteq SpecType /\ Specs # {}
ASSUME BoundsAssumption == MaxOps \in Nat \ {0} /\ MaxFaults \in Nat

VARIABLES
    api,      \* the MagmaOrc8r object in the API server
    secret,   \* the Secret orc8r-secrets-certs
    deploy,   \* the Deployments, nms-magmalte among them
    job,      \* the bootstrap Job <release>-nms-admin
    cache,    \* the informers' copies of these three
    pass,     \* the running pass, with the spec it works on
    wake,     \* the object's key is queued, or will be by a timer
    ops, certs, faults

clusterVars == <<secret, deploy, job>>
vars == <<api, clusterVars, cache, pass, wake, ops, certs, faults>>

None == -1
Cert == 0..(MaxOps + 1)
Hash == {None} \cup Cert
Informers == {"secret", "deploy", "job"}
Phases == {"idle", "finalize", "apply", "certs", "rollout", "bootstrap", "magmalte",
           "status", "deleteNative", "removeFinalizer"}

(* "observed": status.observedGeneration is metadata.generation. *)
Object   == [exists : BOOLEAN, spec : Specs, deleting : BOOLEAN, finalizer : BOOLEAN,
             ready : BOOLEAN, observed : BOOLEAN]
NoObject == [exists |-> FALSE, spec |-> CHOOSE s \in Specs : TRUE, deleting |-> FALSE,
             finalizer |-> FALSE, ready |-> FALSE, observed |-> FALSE]

Domains  == {0} \cup {s.domain : s \in Specs}
Secret   == [exists : BOOLEAN, domain : Domains, cert : Cert]
NoSecret == [exists |-> FALSE, domain |-> 0, cert |-> 0]
Placeholder == [exists |-> TRUE, domain |-> 0, cert |-> 0]

(* magmalte's HTTP mode: "http", the command and arguments the manifest    *)
(* has too, and "nodeEnv", NODE_ENV=development, which it has not.         *)
Deploy   == [exists : BOOLEAN, hash : Hash, http : BOOLEAN, nodeEnv : BOOLEAN]
NoDeploy == [exists |-> FALSE, hash |-> None, http |-> FALSE, nodeEnv |-> FALSE]

NoJob == [state |-> "none", hash |-> None, template |-> 0]
Job   == {NoJob} \cup [state : {"active", "succeeded", "failed"}, hash : Hash,
                       template : {s.template : s \in Specs}]

(* What the controller reads of a Job: its status and its annotation. *)
Seen(j) == [state |-> j.state, hash |-> j.hash]

TypeOK ==
    /\ api \in Object
    /\ secret \in Secret
    /\ deploy \in Deploy
    /\ job \in Job
    /\ cache \in [secret : Secret, deploy : Deploy, job : {Seen(j) : j \in Job}]
    /\ pass \in [pc : Phases, spec : Specs, current : BOOLEAN, hash : Hash, ready : BOOLEAN]
    /\ wake \in BOOLEAN
    /\ ops \in 0..MaxOps
    /\ certs \in Cert
    /\ faults \in 0..MaxFaults

Idle == [pc |-> "idle", spec |-> NoObject.spec, current |-> FALSE, hash |-> None, ready |-> FALSE]

(* What the caches hold at the start: nothing, or still the release of an  *)
(* object that has just been deleted.                                      *)
NoRelease == [secret |-> NoSecret, deploy |-> NoDeploy, job |-> Seen(NoJob)]
OldRelease(s) ==
    [secret |-> [exists |-> TRUE, domain |-> s.domain, cert |-> 1],
     deploy |-> [exists |-> TRUE, hash |-> 1, http |-> s.nodePort, nodeEnv |-> s.nodePort],
     job    |-> [state |-> "succeeded", hash |-> 1]]

Init ==
    /\ api = NoObject
    /\ secret = NoSecret
    /\ deploy = NoDeploy
    /\ job = NoJob
    /\ cache \in {NoRelease} \cup {OldRelease(s) : s \in Specs}
    /\ pass = Idle
    /\ wake = FALSE
    /\ ops = 0
    /\ certs = cache.secret.cert
    /\ faults = 0

Fault   == faults < MaxFaults /\ faults' = faults + 1
NoFault == UNCHANGED faults

Goto(phase)    == pass' = [pass EXCEPT !.pc = phase]
Finish(ready)  == pass' = [Idle EXCEPT !.pc = "status", !.current = pass.current, !.ready = ready]
Fail           == Finish(FALSE)

(* The pass ends, with or without a requeue; the object becomes "o", and a *)
(* change of it comes back as an event.                                    *)
Return(again, o) ==
    /\ pass' = Idle
    /\ api' = o
    /\ wake' = (wake \/ again \/ o # api)

-----------------------------------------------------------------------------
(* The pass *)

(* Mutants: the release is applied to an object without the finalizer; a   *)
(* deleted object is reconciled like any other.                            *)
FirstPhaseNoFinalizer == IF api.deleting THEN "deleteNative" ELSE "apply"

FirstPhaseAlways == IF api.finalizer THEN "apply" ELSE "finalize"

FirstPhase ==
    CASE api.deleting -> "deleteNative"
      [] ~api.deleting /\ ~api.finalizer -> "finalize"
      [] OTHER -> "apply"

Get ==
    /\ pass.pc = "idle" /\ wake
    /\ wake' = FALSE
    /\ IF api.exists
       THEN pass' = [Idle EXCEPT !.pc = FirstPhase, !.spec = api.spec, !.current = TRUE]
       ELSE UNCHANGED pass
    /\ UNCHANGED <<api, clusterVars, cache, ops, certs, faults>>

(* The merge patch carries no resourceVersion; the pass is requeued. *)
AddFinalizer ==
    /\ pass.pc = "finalize"
    /\ \/ Return(TRUE, [api EXCEPT !.finalizer = api.exists]) /\ NoFault
       \/ Return(TRUE, api) /\ Fault
    /\ UNCHANGED <<clusterVars, cache, ops, certs>>

(* Mutant: the Job is rendered without the spec's values. *)
AppliedJobUnrendered(spec) ==
    CASE job.state = "none" -> [NoJob EXCEPT !.state = "active"]
      [] OTHER -> job

(* The bootstrap Job as applied: kept, created, or, when its template has  *)
(* changed and the API server answers Invalid, deleted and left out.       *)
AppliedJob(spec) ==
    CASE job.state = "none" -> [NoJob EXCEPT !.state = "active", !.template = spec.template]
      [] job.state # "none" /\ job.template = spec.template -> job
      [] OTHER -> NoJob

(* Mutant: the certificate Secret is applied like any other object. *)
AppliedSecretAlways == Placeholder

(* preserveExistingNativeSecret looks for it in the API server itself. *)
AppliedSecret == IF secret.exists THEN secret ELSE Placeholder

(* reconcileNativeRelease applies the Secrets, then the Deployments, then  *)
(* the Jobs; it stops at an error.  Server-side apply takes back what the  *)
(* manifest names, magmalte's command and arguments, and leaves the rest.  *)
Apply ==
    /\ pass.pc = "apply"
    /\ \E upTo \in 0..3 :
          /\ secret' = IF upTo >= 1 THEN AppliedSecret ELSE secret
          /\ deploy' = IF upTo >= 2 THEN [deploy EXCEPT !.exists = TRUE, !.http = FALSE] ELSE deploy
          /\ job' = IF upTo = 3 THEN AppliedJob(pass.spec) ELSE job
          /\ \/ upTo = 3 /\ Goto("certs") /\ NoFault
             \/ upTo < 3 /\ Fail /\ Fault
    /\ UNCHANGED <<api, cache, wake, ops, certs>>

(* Mutant: the Secret is created, never updated. *)
WritableAbsent == ~cache.secret.exists /\ ~secret.exists

(* Create needs it absent, Update needs the cached copy to be current.     *)
(* Copies are compared by value; a resourceVersion would also refuse one   *)
(* that was overtaken and is equal again, which looks like a fault here.   *)
Writable == cache.secret = secret

(* reconcileOrc8rCertSecret: certificates for the domain are kept, others  *)
(* are generated and written with CreateOrUpdate.                          *)
ReconcileCerts ==
    LET domain == pass.spec.domain
        kept   == cache.secret.exists /\ cache.secret.domain = domain IN
    /\ pass.pc = "certs"
    /\ \/ /\ kept
          /\ Goto("rollout")
          /\ NoFault
          /\ UNCHANGED <<secret, certs>>
       \/ /\ ~kept /\ Writable
          /\ secret' = [exists |-> TRUE, domain |-> domain, cert |-> certs + 1]
          /\ certs' = certs + 1
          /\ Goto("rollout")
          /\ NoFault
       \/ /\ ~kept
          /\ (~Writable /\ NoFault) \/ Fault
          /\ Fail
          /\ UNCHANGED <<secret, certs>>
    /\ UNCHANGED <<api, deploy, job, cache, wake, ops>>

(* Mutant: Deployments that carry a hash are left alone. *)
NeedsRolloutOnce(hash) == cache.deploy.hash = None

NeedsRollout(hash) == cache.deploy.hash # hash

(* annotateOrc8rDeploymentsForSecretHash: the hash is that of the cached   *)
(* Secret, the Deployments are those the cache lists.                      *)
Rollout ==
    LET hash == IF cache.secret.exists THEN cache.secret.cert ELSE None IN
    /\ pass.pc = "rollout"
    /\ \/ /\ pass' = [pass EXCEPT !.pc = "bootstrap", !.hash = hash]
          /\ deploy' = IF hash # None /\ cache.deploy.exists /\ NeedsRollout(hash)
                       THEN [deploy EXCEPT !.hash = hash] ELSE deploy
          /\ NoFault
       \/ Fail /\ Fault /\ UNCHANGED deploy
    /\ UNCHANGED <<api, secret, job, cache, wake, ops, certs>>

(* Mutant: a Job that failed is left alone. *)
RedoSucceeded(j) == j.state = "succeeded" /\ j.hash # pass.hash

Redo(j) == j.state = "failed" \/ (j.state = "succeeded" /\ j.hash # pass.hash)

(* recreateOrc8rBootstrapJobForSecretHash: a failed Job, or one that       *)
(* succeeded for other certificates, is deleted; one that is not finished  *)
(* is annotated with the hash.                                             *)
RerunBootstrap ==
    LET old  == cache.job
        redo == Redo(old)
        skip == pass.hash = None \/ old.state = "none" \/ (~redo /\ old.hash = pass.hash)
        Continue == IF pass.spec.nodePort THEN pass' = [pass EXCEPT !.pc = "magmalte", !.hash = None]
                                          ELSE Finish(TRUE) IN
    /\ pass.pc = "bootstrap"
    /\ \/ /\ skip
          /\ Continue
          /\ NoFault /\ UNCHANGED job
       \/ /\ ~skip /\ redo
          /\ job' = NoJob
          /\ Fail
          /\ NoFault
       \/ /\ ~skip /\ ~redo /\ job.state # "none"
          /\ job' = [job EXCEPT !.hash = pass.hash]
          /\ Continue
          /\ NoFault
       \/ /\ ~skip
          /\ (~redo /\ job.state = "none" /\ NoFault) \/ Fault
          /\ Fail /\ UNCHANGED job
    /\ UNCHANGED <<api, secret, deploy, cache, wake, ops, certs>>

(* Mutant: a conflict is taken for success. *)
MagmalteFailedIgnored == Finish(TRUE)

MagmalteFailed == Fail

(* patchMagmalteForHTTPNodePort updates the cached Deployment: a conflict  *)
(* unless the cache has caught up with what this very pass did to it.      *)
PatchMagmalte ==
    /\ pass.pc = "magmalte"
    /\ \/ /\ cache.deploy.exists /\ cache.deploy = deploy
          /\ deploy' = [deploy EXCEPT !.http = TRUE, !.nodeEnv = TRUE]
          /\ Finish(TRUE)
          /\ NoFault
       \/ /\ (~(cache.deploy.exists /\ cache.deploy = deploy) /\ NoFault) \/ Fault
          /\ MagmalteFailed /\ UNCHANGED deploy
    /\ UNCHANGED <<api, secret, job, cache, wake, ops, certs>>

(* updateOrc8rStatus: a conflict or an error is retried, Ready=True is not *)
(* requeued.  A status that changed comes back as an event of the object.  *)
UpdateStatus ==
    /\ pass.pc = "status"
    /\ \/ /\ pass.current
          /\ Return(~pass.ready, [api EXCEPT !.ready = pass.ready, !.observed = TRUE])
          /\ NoFault
       \/ ((~pass.current /\ NoFault) \/ Fault) /\ Return(TRUE, api)
    /\ UNCHANGED <<clusterVars, cache, ops, certs>>

(* deleteNativeRelease deletes in the manifest's order, up to an error. *)
DeleteNative ==
    /\ pass.pc = "deleteNative"
    /\ \E upTo \in 0..3 :
          /\ secret' = IF upTo >= 1 THEN NoSecret ELSE secret
          /\ deploy' = IF upTo >= 2 THEN NoDeploy ELSE deploy
          /\ job' = IF upTo = 3 THEN NoJob ELSE job
          /\ \/ upTo = 3 /\ Goto("removeFinalizer") /\ NoFault
             \/ upTo < 3 /\ Fail /\ Fault
    /\ UNCHANGED <<api, cache, wake, ops, certs>>

RemoveFinalizer ==
    /\ pass.pc = "removeFinalizer"
    /\ \/ Return(FALSE, NoObject) /\ NoFault
       \/ Return(TRUE, api) /\ Fault
    /\ UNCHANGED <<clusterVars, cache, ops, certs>>

PassStep ==
    \/ AddFinalizer \/ Apply \/ ReconcileCerts \/ Rollout \/ RerunBootstrap
    \/ PatchMagmalte \/ UpdateStatus \/ DeleteNative \/ RemoveFinalizer

-----------------------------------------------------------------------------
(* The rest of the system *)

(* The user creates, edits or deletes the object. *)
UserStep ==
    /\ ops < MaxOps
    /\ ops' = ops + 1
    /\ \/ /\ ~api.exists
          /\ \E s \in Specs : api' = [NoObject EXCEPT !.exists = TRUE, !.spec = s]
       \/ /\ api.exists /\ ~api.deleting
          /\ \E s \in Specs \ {api.spec} : api' = [api EXCEPT !.spec = s, !.observed = FALSE]
       \/ /\ api.exists /\ ~api.deleting
          /\ api' = IF api.finalizer THEN [api EXCEPT !.deleting = TRUE, !.observed = FALSE]
                                     ELSE NoObject
    /\ pass' = [pass EXCEPT !.current = FALSE]
    /\ wake' = TRUE
    /\ UNCHANGED <<clusterVars, cache, certs, faults>>

(* An informer catches up; nothing watches these objects. *)
CatchUp(i) ==
    /\ cache' = [cache EXCEPT ![i] = CASE i = "secret" -> secret
                                       [] i = "deploy" -> deploy
                                       [] i = "job"    -> Seen(job)]
    /\ cache' # cache
    /\ UNCHANGED <<api, clusterVars, pass, wake, ops, certs, faults>>

(* The bootstrap Job succeeds or fails; its containers take longer than a  *)
(* pass from applying to annotating it.                                    *)
EndBootstrap ==
    /\ job.state = "active" /\ secret.exists
    /\ job.hash = None => pass.pc \notin {"certs", "rollout", "bootstrap"}
    /\ \/ job' = [job EXCEPT !.state = "succeeded"] /\ NoFault
       \/ job' = [job EXCEPT !.state = "failed"] /\ Fault
    /\ UNCHANGED <<api, secret, deploy, cache, pass, wake, ops, certs>>

(* The informer's periodic resync (SyncPeriod) queues every object again. *)
Resync ==
    /\ api.exists /\ pass.pc = "idle" /\ ~wake
    /\ wake' = TRUE
    /\ UNCHANGED <<api, clusterVars, cache, pass, ops, certs, faults>>

(* The manager dies and comes back: fresh caches, every object queued. *)
Crash ==
    /\ pass' = Idle
    /\ wake' = api.exists
    /\ cache' = [secret |-> secret, deploy |-> deploy, job |-> Seen(job)]
    /\ Fault
    /\ UNCHANGED <<api, clusterVars, ops, certs>>

Next ==
    \/ Get \/ PassStep
    \/ UserStep \/ (\E i \in Informers : CatchUp(i))
    \/ EndBootstrap \/ Resync \/ Crash

(* The manager works, the informers catch up and resync, the bootstrap     *)
(* Job's pod runs; the user and the faults are free to do nothing.         *)
Fairness ==
    /\ WF_vars(Get) /\ WF_vars(PassStep)
    /\ \A i \in Informers : WF_vars(CatchUp(i))
    /\ WF_vars(EndBootstrap) /\ WF_vars(Resync)

Spec == Init /\ [][Next]_vars /\ Fairness

-----------------------------------------------------------------------------
(* Properties *)

Alive   == api.exists /\ ~api.deleting
Settled == Alive /\ api.ready /\ api.observed /\ pass.pc = "idle" /\ ~wake

(* "The operator reuses existing generated secrets by default to avoid     *)
(* accidental cert replacement" (README): generated certificates give way  *)
(* only to ones for another domain, whatever copy of the Secret the pass   *)
(* has in its cache.                                                       *)
CertsReused ==
    [][secret.cert > 0 /\ secret'.exists /\ secret' # secret
          => secret'.cert > 0 /\ secret'.domain # secret.domain]_vars

(* When the controller has come to rest with Ready=True, magmalte has the  *)
(* command the spec asks for, and in the HTTP mode its environment too,    *)
(* although every pass first takes the command back (Apply) and then sets  *)
(* it with an Update that may conflict.  Nothing takes the environment     *)
(* back: NODE_ENV=development stays when nmsNodePort is unset.             *)
MagmalteFollowsSpec ==
    Settled => /\ deploy.http = api.spec.nodePort
               /\ api.spec.nodePort => deploy.nodeEnv

(* Nothing of the release is left once the object is gone: the finalizer   *)
(* is there before the first object of the release and goes after the last. *)
NoOrphans == ~api.exists => ~secret.exists /\ ~deploy.exists /\ job.state = "none"

(* In the end the Secret holds generated certificates for the domain and   *)
(* the Deployments are rolled for them, although a pass goes by a cached   *)
(* Secret that may still be the placeholder or that of an earlier object.  *)
CertsServed ==
    <>[](Alive => secret.cert > 0 /\ secret.domain = api.spec.domain
                  /\ deploy.hash = secret.cert)

(* The status always comes back to Ready=True for the current generation:  *)
(* neither the magmalte conflict, nor a failed bootstrap Job, nor one that *)
(* was deleted as unpatchable keeps the controller from it.                *)
ReadyAgain == []<>(api.exists => api.deleting \/ (api.ready /\ api.observed))

(* Again and again the bootstrap Job for the current spec has succeeded:   *)
(* one that failed, that succeeded for other certificates or that could    *)
(* not be patched is deleted, left out of the pass, and comes back with a  *)
(* later one, at the latest that of a resync.                              *)
BootstrapRuns ==
    []<>(Alive => job.state = "succeeded" /\ job.template = api.spec.template)

(* A deleted object goes away in the end. *)
DeletionCompletes == []<>(~api.deleting)
=============================================================================
