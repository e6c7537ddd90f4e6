--------------------- MODULE UeransimValidationProofs ---------------------
(***************************************************************************)
(* Proofs about UeransimValidation, for every set of specs and every       *)
(* number of edits, failed calls and crashes: the type invariant, that the *)
(* condition a settled object shows is the outcome of a Job that ran for   *)
(* its trigger, and that a trigger gets one Job only.                      *)
(***************************************************************************)
EXTENDS UeransimValidation, TLAPS

Working == {"apply", "validate", "rollout"}

(***************************************************************************)
(* The inductive invariant.  A finished Job, and the copy a pass reads,    *)
(* stand for an outcome that really was; a pass that is current works on   *)
(* the spec of the object, so a condition it will not come back to is the  *)
(* outcome of that spec's Job.                                             *)
(***************************************************************************)
Honest(j, outcomes) ==
    /\ j.state = "succeeded" => <<j.hash, "True">> \in outcomes
    /\ j.state = "failed"    => <<j.hash, "False">> \in outcomes

JobsHonest == Honest(job, verdicts) /\ Honest(cache.job, verdicts)

PassHonest ==
    /\ pass.current => pass.pc # "idle" /\ pass.spec = api.spec
    /\ pass.pc = "status" /\ pass.current /\ ~pass.again /\ Wanted
          => <<api.spec.hash, pass.cond>> \in verdicts

(* A pass that is about to create the Job has found none, and the copy it  *)
(* found stays behind the Job, never ahead of it.                          *)
AbsentWhenRolled == pass.pc = "rollout" => cache.job.state = "none" \/ job # NoJob

(* The hash a Job was created for since it was set is the trigger's own,   *)
(* and then the Job is there to stop a second one; or it came from a pass  *)
(* that was overtaken by an edit, and then no pass works for it any more.  *)
Served ==
    /\ api.spec.hash = started
    /\ job # NoJob /\ job.hash = started
    /\ cache.job.state = "none" \/ cache.job.hash = started
    /\ pass.pc \in Working => pass.spec.hash = started

Superseded ==
    /\ api.spec.hash # started
    /\ pass.pc \in Working => pass.spec.hash # started

OnceStarted == started # 0 => Served \/ Superseded

CacheShape == cache = [i \in Informers |-> cache[i]]

IInv ==
    /\ TypeOK /\ CacheShape
    /\ JobsHonest /\ PassHonest /\ VerdictOfTrigger
    /\ AbsentWhenRolled /\ OnceStarted

(* The parts of the type invariant that the actions write. *)
PassType ==
    pass \in [pc : {"idle", "apply", "validate", "rollout", "status"}, spec : Specs,
              current : BOOLEAN, cond : CondStatus, again : BOOLEAN]
ApiType  == api \in [spec : Specs, cond : CondStatus, observed : BOOLEAN]
ListType(c) == \E present \in SUBSET Sims : c \in [present -> [hash : Hash, ok : BOOLEAN]]
CacheType ==
    ListType(cache.deploy) /\ cache.pods \subseteq Hash /\ cache.job \in {Read(j) : j \in Job}

-----------------------------------------------------------------------------
(* Facts about the operators *)

(* The type invariant by its parts. *)
LEMMA TypeParts ==
    TypeOK <=> /\ ApiType /\ deploy \in [Sims -> Deploy] /\ pods \subseteq Pod /\ job \in Job
               /\ CacheType /\ PassType /\ wake \in BOOLEAN
               /\ verdicts \subseteq (Hash \X Outcomes) /\ started \in Hash /\ events \in 0..MaxEvents
  BY DEF TypeOK, ApiType, CacheType, ListType, PassType

(* A spec's hash is a hash, and not that of no spec. *)
LEMMA SpecFields ==
    ASSUME NEW s \in Specs
    PROVE  /\ s.hash \in Hash /\ s.hash # 0 /\ s.hash \in Hash \ {0}
           /\ s.enabled \in BOOLEAN /\ s.ueransim \in BOOLEAN
  BY SpecsAssumption DEF SpecType, Hash

(* The default values have the types of their variables. *)
LEMMA Defaults ==
    /\ NoJob \in Job /\ NoJob.state = "none" /\ NoJob.hash = 0
    /\ NoDeploy \in Deploy /\ 0 \in Hash
    /\ Idle \in [pc : {"idle", "apply", "validate", "rollout", "status"}, spec : Specs,
                 current : BOOLEAN, cond : CondStatus, again : BOOLEAN]
    /\ Idle.pc = "idle" /\ ~Idle.current
  <1>1. 0 \in Hash
    BY DEF Hash
  <1>2. NoJob \in Job /\ NoJob.state = "none" /\ NoJob.hash = 0
    BY DEF NoJob, Job
  <1>3. NoDeploy \in Deploy
    BY <1>1 DEF NoDeploy, Deploy
  <1>4. /\ Idle \in [pc : {"idle", "apply", "validate", "rollout", "status"}, spec : Specs,
                     current : BOOLEAN, cond : CondStatus, again : BOOLEAN]
        /\ Idle.pc = "idle" /\ ~Idle.current
    BY SpecsAssumption DEF Idle, CondStatus
  <1> QED
    BY <1>1, <1>2, <1>3, <1>4

(* No counter of events leaves its bound. *)
LEMMA EventsBounded ==
    ASSUME events \in 0..MaxEvents, Event \/ Fault \/ NoFault
    PROVE  events' \in 0..MaxEvents
  BY BoundsAssumption DEF Event, Fault, NoFault

(* What an informer finds in the cluster has the type of its copy. *)
LEMMA FreshTypes ==
    ASSUME TypeOK
    PROVE  /\ ListType(Listed(deploy)) /\ Targets(pods) \subseteq Hash
           /\ Read(job) \in {Read(j) : j \in Job}
  <1>1. ListType(Listed(deploy))
    <2> DEFINE there == {e \in Sims : deploy[e].exists}
    <2>1. there \in SUBSET Sims
      OBVIOUS
    <2>2. ASSUME NEW d \in there
          PROVE  [hash |-> deploy[d].hash, ok |-> deploy[d].seen /\ deploy[d].ready]
                    \in [hash : Hash, ok : BOOLEAN]
      BY DEF TypeOK, Deploy
    <2>3. Listed(deploy) \in [there -> [hash : Hash, ok : BOOLEAN]]
      BY <2>2 DEF Listed
    <2> QED
      BY <2>1, <2>3 DEF ListType
  <1>2. Targets(pods) \subseteq Hash
    BY DEF TypeOK, Targets, Pod
  <1>3. Read(job) \in {Read(j) : j \in Job}
    BY DEF TypeOK
  <1> QED
    BY <1>1, <1>2, <1>3

(* A pass that reports stops at the status write. *)
LEMMA ReportFacts ==
    ASSUME PassType, NEW c \in CondStatus, NEW again \in BOOLEAN, Report(c, again)
    PROVE  /\ PassType' /\ pass'.pc = "status" /\ pass'.cond = c /\ pass'.again = again
           /\ pass'.current = pass.current /\ pass'.spec = pass.spec
  BY DEF Report, PassType

(* Jobs that neither change nor end stay honest. *)
LEMMA HonestKept ==
    ASSUME JobsHonest, UNCHANGED verdicts,
           job' = job \/ job'.state \in {"none", "active"},
           cache'.job \in {cache.job, Read(job)}
    PROVE  JobsHonest'
  <1>1. Honest(job', verdicts)
    BY DEF JobsHonest, Honest
  <1>2. Honest(cache'.job, verdicts)
    BY DEF JobsHonest, Honest, Read
  <1> QED
    BY <1>1, <1>2 DEF JobsHonest

(* A running pass, or a queued object, is not at rest. *)
LEMMA NotSettled ==
    ASSUME pass'.pc # "idle" \/ wake'
    PROVE  VerdictOfTrigger'
  BY DEF VerdictOfTrigger, Settled

-----------------------------------------------------------------------------
(* The steps of a pass *)

(* Nothing has run and nothing is cached. *)
LEMMA InitHolds == Init => IInv
  <1> SUFFICES ASSUME Init PROVE IInv
    OBVIOUS
  <1>1. /\ api \in [spec : Specs, cond : CondStatus, observed : BOOLEAN]
        /\ deploy \in [Sims -> Deploy] /\ pods \subseteq Pod /\ job \in Job /\ started \in Hash
    BY SpecsAssumption, Defaults DEF Init, CondStatus
  <1>2. events \in 0..MaxEvents
    BY BoundsAssumption DEF Init
  <1>3. /\ cache.deploy = Listed(deploy) /\ cache.pods = Targets(pods) /\ cache.job = Read(job)
        /\ CacheShape
    BY DEF Init, Fresh, Informers, CacheShape
  <1>4. CacheType
    <2>1. /\ ListType(Listed(deploy)) /\ Targets(pods) \subseteq Hash
          /\ Read(job) \in {Read(j) : j \in Job}
      <3> DEFINE there == {e \in Sims : deploy[e].exists}
      <3>1. there = {}
        BY DEF Init, NoDeploy
      <3>2. Listed(deploy) \in [there -> [hash : Hash, ok : BOOLEAN]]
        BY <3>1 DEF Listed
      <3>3. ListType(Listed(deploy))
        BY <3>2 DEF ListType
      <3> QED
        BY <1>1, <3>3 DEF Init, Targets
    <2> QED
      BY <1>3, <2>1 DEF CacheType
  <1>5. TypeOK
    BY <1>1, <1>2, <1>4, Defaults, TypeParts DEF Init, ApiType, PassType
  <1>6. JobsHonest
    BY <1>3, Defaults DEF Init, JobsHonest, Honest, Read
  <1>7. PassHonest /\ AbsentWhenRolled /\ OnceStarted
    BY Defaults DEF Init, PassHonest, AbsentWhenRolled, OnceStarted
  <1>8. VerdictOfTrigger
    BY DEF Init, VerdictOfTrigger, Settled
  <1> QED
    BY <1>3, <1>5, <1>6, <1>7, <1>8 DEF IInv

(* The running pass reads the object. *)
LEMMA GetStep == ASSUME IInv, Get PROVE IInv'
  <1> USE DEF IInv
  <1>1. /\ UNCHANGED <<api, deploy, pods, job, cache, verdicts, started, events>>
        /\ pass.pc = "idle" /\ wake' \in BOOLEAN
        /\ pass' = [pc |-> "apply", spec |-> api.spec, current |-> TRUE,
                    cond |-> api.cond, again |-> FALSE]
    BY DEF Get, clusterVars
  <1>2. PassType' /\ pass'.pc = "apply" /\ pass'.spec = api.spec
    BY <1>1 DEF TypeOK, PassType
  <1>3. TypeOK' /\ CacheShape'
    BY <1>1, <1>2 DEF TypeOK, PassType, CacheShape
  <1>4. JobsHonest'
    BY <1>1 DEF JobsHonest
  <1>5. PassHonest' /\ AbsentWhenRolled'
    BY <1>1, <1>2 DEF PassHonest, AbsentWhenRolled
  <1>6. OnceStarted'
    BY <1>1, <1>2 DEF OnceStarted, Served, Superseded
  <1>7. VerdictOfTrigger'
    BY <1>2, NotSettled
  <1> QED
    BY <1>3, <1>4, <1>5, <1>6, <1>7

(* What the apply does to the simulator's Deployments and pods. *)
LEMMA SimulatorTypes ==
    ASSUME TypeOK, NEW done \in SUBSET Sims, ApplySimulator(done)
    PROVE  deploy' \in [Sims -> Deploy] /\ pods' \subseteq Pod
  <1> DEFINE new(d) == [exists |-> TRUE, hash |-> 0, seen |-> d = "gnb", ready |-> d = "gnb"]
             after(d) == CASE d \notin done -> deploy[d]
                           [] d \in done /\ ~pass.spec.ueransim -> NoDeploy
                           [] d \in done /\ pass.spec.ueransim  ->
                                IF deploy[d].exists THEN deploy[d] ELSE new(d)
  <1>1. deploy \in [Sims -> Deploy] /\ pods \subseteq Pod /\ pass.spec.ueransim \in BOOLEAN
    BY SpecFields DEF TypeOK
  <1>2. ASSUME NEW d \in Sims PROVE after(d) \in Deploy
    <2>1. new(d) \in Deploy
      BY Defaults DEF Deploy
    <2>2. CASE d \notin done
      BY <1>1, <2>2
    <2>3. CASE d \in done /\ ~pass.spec.ueransim
      BY <2>3, Defaults
    <2>4. CASE d \in done /\ pass.spec.ueransim
      <3> HIDE DEF new
      <3> QED
        BY <1>1, <2>1, <2>4
    <2> QED
      BY <1>1, <2>2, <2>3, <2>4
  <1>3. deploy' = [d \in Sims |-> after(d)]
    BY DEF ApplySimulator
  <1>4. deploy' \in [Sims -> Deploy]
    <2> HIDE DEF after
    <2> QED
      BY <1>2, <1>3
  <1>5. pods' \subseteq Pod
    BY <1>1 DEF ApplySimulator
  <1> QED
    BY <1>4, <1>5

(* A step of the pass that goes on to another phase, or to a condition     *)
(* that asks for another pass, without touching the Job.                   *)
LEMMA PassGoesOn ==
    ASSUME IInv, UNCHANGED <<api, job, cache, wake, verdicts, started>>,
           deploy' \in [Sims -> Deploy], pods' \subseteq Pod, events' \in 0..MaxEvents,
           PassType', pass'.spec = pass.spec, pass'.current = pass.current,
           pass.pc \in Working, pass'.pc \in {"validate", "rollout", "status"},
           pass'.pc = "rollout" => cache.job.state = "none",
           pass'.pc = "status" /\ pass.current /\ ~pass'.again /\ Wanted
              => <<api.spec.hash, pass'.cond>> \in verdicts
    PROVE  IInv'
  <1> USE DEF IInv
  <1>1. TypeOK' /\ CacheShape'
    BY DEF TypeOK, PassType, CacheShape
  <1>2. JobsHonest'
    BY DEF JobsHonest
  <1>3. PassHonest'
    BY DEF PassHonest, Wanted
  <1>4. AbsentWhenRolled'
    BY DEF AbsentWhenRolled
  <1>5. OnceStarted'
    BY DEF OnceStarted, Served, Superseded
  <1>6. VerdictOfTrigger'
    BY NotSettled
  <1> QED
    BY <1>1, <1>2, <1>3, <1>4, <1>5, <1>6

(* reconcileNativeRelease with or without an error. *)
LEMMA ApplyStep == ASSUME IInv, Apply PROVE IInv'
  <1> USE DEF IInv
  <1>1. UNCHANGED <<api, job, cache, wake, verdicts, started>> /\ pass.pc = "apply"
    BY DEF Apply
  <1>2. events' \in 0..MaxEvents
    BY EventsBounded DEF Apply, TypeOK
  <1>3. PICK done \in SUBSET Sims : ApplySimulator(done)
    BY DEF Apply
  <1>4. deploy' \in [Sims -> Deploy] /\ pods' \subseteq Pod
    BY <1>3, SimulatorTypes
  <1>5. PassType /\ pass.cond \in CondStatus
    BY DEF TypeOK, PassType
  <1>6. CASE Goto("validate")
    <2>1. /\ PassType' /\ pass'.pc = "validate" /\ pass'.spec = pass.spec
          /\ pass'.current = pass.current
      BY <1>5, <1>6 DEF Goto, PassType
    <2> QED
      BY <1>1, <1>2, <1>4, <2>1, PassGoesOn DEF Working
  <1>7. CASE Report(pass.cond, TRUE)
    <2>1. /\ PassType' /\ pass'.pc = "status" /\ pass'.spec = pass.spec
          /\ pass'.current = pass.current /\ pass'.again
      BY <1>5, <1>7, ReportFacts
    <2> QED
      BY <1>1, <1>2, <1>4, <2>1, PassGoesOn DEF Working
  <1> QED
    BY <1>6, <1>7 DEF Apply

(* The Job is deleted only when its copy is for another trigger: the one   *)
(* that serves the trigger is never deleted by a pass that works for it.   *)
LEMMA ValidateStep == ASSUME IInv, Validate PROVE IInv'
  <1> USE DEF IInv
  <1>1. UNCHANGED <<api, deploy, pods, cache, wake, verdicts, started>> /\ pass.pc = "validate"
    BY DEF Validate
  <1>2. events' \in 0..MaxEvents
    BY EventsBounded DEF Validate, TypeOK
  <1>3. /\ PassType /\ pass.cond \in CondStatus /\ pass.spec \in Specs
        /\ "None" \in CondStatus /\ "Unknown" \in CondStatus /\ "True" \in CondStatus /\ "False" \in CondStatus
        /\ deploy \in [Sims -> Deploy] /\ pods \subseteq Pod
        /\ pass.current => pass.spec = api.spec
    BY DEF TypeOK, PassType, CondStatus, PassHonest
  <1>4. CASE ~(pass.spec.enabled /\ pass.spec.ueransim) /\ UNCHANGED job
             /\ \E c \in {"None", pass.cond} : Report(c, FALSE)
    <2>1. PICK c \in {"None", pass.cond} : Report(c, FALSE)
      BY <1>4
    <2>2. /\ PassType' /\ pass'.pc = "status" /\ pass'.spec = pass.spec
          /\ pass'.current = pass.current
      BY <1>3, <2>1, ReportFacts
    <2>3. pass.current => ~Wanted
      BY <1>3, <1>4 DEF Wanted
    <2> QED
      BY <1>1, <1>2, <1>3, <1>4, <2>2, <2>3, PassGoesOn DEF Working
  <1>5. CASE /\ cache.job.state # "none" /\ ~OfTheTrigger(cache.job)
             /\ job' = NoJob /\ Wait
    <2>1. /\ PassType' /\ pass'.pc = "status" /\ pass'.spec = pass.spec
          /\ pass'.current = pass.current /\ pass'.again
      BY <1>3, <1>5, ReportFacts DEF Wait
    <2>2. TypeOK' /\ CacheShape'
      BY <1>1, <1>2, <1>5, <2>1, Defaults DEF TypeOK, PassType, CacheShape
    <2>3. JobsHonest'
      BY <1>1, <1>5, Defaults, HonestKept
    <2>4. PassHonest' /\ AbsentWhenRolled'
      BY <1>1, <1>3, <2>1 DEF PassHonest, AbsentWhenRolled
    <2>5. OnceStarted'
      <3>1. ~Served
        BY <1>1, <1>5 DEF Served, OfTheTrigger, Working
      <3> QED
        BY <1>1, <2>1, <3>1 DEF OnceStarted, Superseded, Working
    <2>6. VerdictOfTrigger'
      BY <2>1, NotSettled
    <2> QED
      BY <2>2, <2>3, <2>4, <2>5, <2>6
  <1>6. CASE OfTheTrigger(cache.job) /\ ReportJob(cache.job) /\ UNCHANGED job
    <2>1. \/ cache.job.state = "succeeded" /\ Report("True", FALSE)
          \/ cache.job.state = "failed" /\ Report("False", FALSE)
          \/ Report("Unknown", TRUE)
      BY <1>6 DEF ReportJob, Wait
    <2>2. /\ PassType' /\ pass'.pc = "status" /\ pass'.spec = pass.spec
          /\ pass'.current = pass.current
          /\ ~pass'.again => <<cache.job.hash, pass'.cond>> \in verdicts
      <3>1. CASE cache.job.state = "succeeded" /\ Report("True", FALSE)
        BY <1>3, <3>1, ReportFacts DEF JobsHonest, Honest
      <3>2. CASE cache.job.state = "failed" /\ Report("False", FALSE)
        BY <1>3, <3>2, ReportFacts DEF JobsHonest, Honest
      <3>3. CASE Report("Unknown", TRUE)
        BY <1>3, <3>3, ReportFacts
      <3> QED
        BY <2>1, <3>1, <3>2, <3>3
    <2>3. pass.current => cache.job.hash = api.spec.hash
      BY <1>3, <1>6 DEF OfTheTrigger
    <2> QED
      BY <1>1, <1>2, <1>3, <1>6, <2>2, <2>3, PassGoesOn DEF Working
  <1>7. CASE cache.job.state = "none" /\ Goto("rollout") /\ UNCHANGED job
    <2>1. /\ PassType' /\ pass'.pc = "rollout" /\ pass'.spec = pass.spec
          /\ pass'.current = pass.current
      BY <1>3, <1>7 DEF Goto, PassType
    <2> QED
      BY <1>1, <1>2, <1>3, <1>7, <2>1, PassGoesOn DEF Working
  <1>8. CASE Failed /\ UNCHANGED job
    <2>1. /\ PassType' /\ pass'.pc = "status" /\ pass'.spec = pass.spec
          /\ pass'.current = pass.current /\ pass'.again
      BY <1>3, <1>8, ReportFacts DEF Failed
    <2> QED
      BY <1>1, <1>2, <1>3, <1>8, <2>1, PassGoesOn DEF Working
  <1> QED
    BY <1>4, <1>5, <1>6, <1>7, <1>8 DEF Validate

(* Patched Deployments keep their type. *)
LEMMA RolledType ==
    ASSUME TypeOK, NEW done
    PROVE  Rolled(done) \in [Sims -> Deploy]
  <1>1. pass.spec.hash \in Hash /\ deploy \in [Sims -> Deploy]
    BY SpecFields DEF TypeOK
  <1>2. \A d \in Sims : [deploy[d] EXCEPT !.hash = pass.spec.hash, !.seen = (d = "gnb")] \in Deploy
    BY <1>1 DEF Deploy
  <1> QED
    BY <1>1, <1>2 DEF Rolled

(* The Job is created only when there is none, for the spec the pass has   *)
(* read, and the hash it is for becomes the one that was started.          *)
LEMMA RollAndRunStep == ASSUME IInv, RollAndRun PROVE IInv'
  <1> USE DEF IInv
  <1>1. UNCHANGED <<api, pods, cache, wake, verdicts>> /\ pass.pc = "rollout"
    BY DEF RollAndRun
  <1>2. events' \in 0..MaxEvents
    BY EventsBounded DEF RollAndRun, TypeOK
  <1>3. /\ PassType /\ pass.spec \in Specs /\ "Unknown" \in CondStatus /\ "False" \in CondStatus
        /\ deploy \in [Sims -> Deploy] /\ pods \subseteq Pod
    BY DEF TypeOK, PassType, CondStatus
  <1>4. Wait \/ Failed
    BY DEF RollAndRun
  <1>5. /\ PassType' /\ pass'.pc = "status" /\ pass'.spec = pass.spec
        /\ pass'.current = pass.current /\ pass'.again
    BY <1>3, <1>4, ReportFacts DEF Wait, Failed
  <1>6. \/ UNCHANGED <<job, started>> /\ \E done : deploy' = Rolled(done) \/ deploy' = deploy
        \/ /\ UNCHANGED deploy /\ started' = pass.spec.hash
           /\ \E rev \in cache.pods : CreateJob(rev)
    BY DEF RollAndRun
  <1>7. CASE UNCHANGED <<job, started>> /\ \E done : deploy' = Rolled(done) \/ deploy' = deploy
    <2>1. deploy' \in [Sims -> Deploy]
      BY <1>3, <1>7, RolledType
    <2> QED
      BY <1>1, <1>2, <1>3, <1>5, <1>7, <2>1, PassGoesOn DEF Working
  <1>8. CASE /\ UNCHANGED deploy /\ started' = pass.spec.hash
             /\ \E rev \in cache.pods : CreateJob(rev)
    <2>1. PICK rev \in cache.pods :
             job = NoJob /\ job' = [state |-> "active", hash |-> pass.spec.hash, rev |-> rev]
      BY <1>8 DEF CreateJob
    <2>2. rev \in Hash /\ pass.spec.hash \in Hash \ {0} /\ pass.spec.hash \in Hash
      BY <1>3, <2>1, SpecFields DEF TypeOK
    <2>3. job' \in Job /\ job'.state = "active" /\ job'.hash = pass.spec.hash /\ job' # NoJob
      BY <2>1, <2>2, Defaults DEF Job
    <2>4. TypeOK' /\ CacheShape'
      BY <1>1, <1>2, <1>5, <1>8, <2>2, <2>3 DEF TypeOK, PassType, CacheShape
    <2>5. JobsHonest'
      BY <1>1, <2>3, HonestKept
    <2>6. PassHonest' /\ AbsentWhenRolled'
      BY <1>1, <1>5 DEF PassHonest, AbsentWhenRolled
    <2>7. OnceStarted'
      <3>1. cache.job.state = "none"
        BY <1>1, <2>1 DEF AbsentWhenRolled
      <3>2. CASE api.spec.hash = pass.spec.hash
        BY <1>1, <1>5, <1>8, <2>3, <3>1, <3>2 DEF OnceStarted, Served, Working
      <3>3. CASE api.spec.hash # pass.spec.hash
        BY <1>1, <1>5, <1>8, <3>3 DEF OnceStarted, Superseded, Working
      <3> QED
        BY <3>2, <3>3
    <2>8. VerdictOfTrigger'
      BY <1>5, NotSettled
    <2> QED
      BY <2>4, <2>5, <2>6, <2>7, <2>8
  <1> QED
    BY <1>6, <1>7, <1>8

(* The status write: the object comes to rest only when the pass was       *)
(* current and did not ask for another.                                    *)
LEMMA UpdateStatusStep == ASSUME IInv, UpdateStatus PROVE IInv'
  <1> USE DEF IInv
  <1>1. /\ UNCHANGED <<deploy, pods, job, cache, verdicts, started>> /\ pass.pc = "status"
        /\ pass' = Idle /\ wake' \in BOOLEAN
    BY DEF UpdateStatus, clusterVars
  <1>2. events' \in 0..MaxEvents
    BY EventsBounded DEF UpdateStatus, TypeOK
  <1>3. ApiType /\ pass.cond \in CondStatus
    BY DEF TypeOK, ApiType
  <1>4. \/ /\ pass.current /\ api' = [api EXCEPT !.cond = pass.cond, !.observed = TRUE]
           /\ pass.again => wake'
        \/ wake' /\ api' = api
    BY DEF UpdateStatus
  <1>5. ApiType' /\ api'.spec = api.spec
    BY <1>3, <1>4 DEF ApiType
  <1>6. TypeOK' /\ CacheShape'
    BY <1>1, <1>2, <1>5, Defaults DEF TypeOK, ApiType, CacheShape
  <1>7. JobsHonest'
    BY <1>1 DEF JobsHonest
  <1>8. PassHonest' /\ AbsentWhenRolled'
    BY <1>1, Defaults DEF PassHonest, AbsentWhenRolled
  <1>9. OnceStarted'
    BY <1>1, <1>5, Defaults DEF OnceStarted, Served, Superseded, Working
  <1>10. VerdictOfTrigger'
    <2>1. CASE wake'
      BY <2>1, NotSettled
    <2>2. CASE ~wake'
      <3>1. pass.current /\ ~pass.again /\ api' = [api EXCEPT !.cond = pass.cond, !.observed = TRUE]
        BY <1>4, <2>2
      <3>2. api'.cond = pass.cond
        BY <1>3, <3>1 DEF ApiType
      <3>3. Wanted => <<api.spec.hash, pass.cond>> \in verdicts
        BY <1>1, <3>1 DEF PassHonest
      <3> QED
        BY <1>1, <1>5, <3>2, <3>3 DEF VerdictOfTrigger, Wanted
    <2> QED
      BY <2>1, <2>2
  <1> QED
    BY <1>6, <1>7, <1>8, <1>9, <1>10

-----------------------------------------------------------------------------
(* The rest of the system *)

(* An edit: the running pass is no longer current, and a new hash has no   *)
(* Job yet.                                                                *)
LEMMA UserEditStep == ASSUME IInv, UserEdit PROVE IInv'
  <1> USE DEF IInv
  <1>1. /\ UNCHANGED <<deploy, pods, job, cache, verdicts>> /\ wake' = TRUE
        /\ pass' = [pass EXCEPT !.current = FALSE]
    BY DEF UserEdit, clusterVars
  <1>2. events' \in 0..MaxEvents
    BY EventsBounded DEF UserEdit, TypeOK
  <1>3. PICK s \in Specs : /\ api' = [api EXCEPT !.spec = s, !.observed = FALSE]
                           /\ started' = IF s.hash = api.spec.hash THEN started ELSE 0
    BY DEF UserEdit
  <1>4. ApiType' /\ api'.spec = s
    BY <1>3 DEF TypeOK, ApiType
  <1>5. PassType' /\ pass'.pc = pass.pc /\ pass'.spec = pass.spec /\ ~pass'.current
    BY <1>1 DEF TypeOK, PassType
  <1>6. started' \in Hash
    BY <1>3, Defaults DEF TypeOK
  <1>7. TypeOK' /\ CacheShape'
    BY <1>1, <1>2, <1>4, <1>5, <1>6 DEF TypeOK, ApiType, PassType, CacheShape
  <1>8. JobsHonest'
    BY <1>1 DEF JobsHonest
  <1>9. PassHonest' /\ AbsentWhenRolled'
    BY <1>1, <1>5 DEF PassHonest, AbsentWhenRolled
  <1>10. OnceStarted'
    <2>1. CASE s.hash = api.spec.hash
      BY <1>1, <1>3, <1>4, <1>5, <2>1 DEF OnceStarted, Served, Superseded
    <2>2. CASE s.hash # api.spec.hash
      BY <1>3, <2>2 DEF OnceStarted
    <2> QED
      BY <2>1, <2>2
  <1>11. VerdictOfTrigger'
    BY <1>1, NotSettled
  <1> QED
    BY <1>7, <1>8, <1>9, <1>10, <1>11

(* Fresher copies: the copy of the Job is the old one or the Job itself. *)
LEMMA FreshCache ==
    ASSUME IInv, UNCHANGED <<api, job, verdicts, started>>,
           cache'.job \in {cache.job, Read(job)},
           pass' = pass \/ pass' = Idle
    PROVE  JobsHonest' /\ PassHonest' /\ AbsentWhenRolled' /\ OnceStarted'
  <1> USE DEF IInv
  <1>1. JobsHonest'
    BY HonestKept
  <1>2. PassHonest'
    BY Defaults DEF PassHonest, Wanted
  <1>3. AbsentWhenRolled'
    <2>1. job = NoJob => Read(job).state = "none"
      BY Defaults DEF Read
    <2> QED
      BY <2>1, Defaults DEF AbsentWhenRolled
  <1>4. OnceStarted'
    <2>1. Read(job).hash = job.hash
      BY DEF Read
    <2>2. pass'.pc \in Working => pass' = pass
      BY Defaults DEF Working
    <2> QED
      BY <2>1, <2>2 DEF OnceStarted, Served, Superseded
  <1> QED
    BY <1>1, <1>2, <1>3, <1>4

(* One informer catches up. *)
LEMMA CatchUpStep == ASSUME IInv, NEW i \in Informers, CatchUp(i) PROVE IInv'
  <1> USE DEF IInv
  <1>1. /\ UNCHANGED <<api, deploy, pods, job, pass, wake, verdicts, started, events>>
        /\ cache' = [cache EXCEPT ![i] = Fresh(i)]
    BY DEF CatchUp, clusterVars
  <1>2. /\ \A k \in Informers : cache'[k] = IF k = i THEN Fresh(i) ELSE cache[k]
        /\ CacheShape'
    BY <1>1 DEF CacheShape
  <1>3. /\ cache'.deploy \in {cache.deploy, Listed(deploy)}
        /\ cache'.pods \in {cache.pods, Targets(pods)}
        /\ cache'.job \in {cache.job, Read(job)}
    BY <1>2 DEF Fresh, Informers
  <1>4. CacheType'
    <2>1. CacheType
      BY TypeParts
    <2> QED
      BY <1>1, <1>3, <2>1, FreshTypes DEF CacheType
  <1>5. TypeOK'
    BY <1>1, <1>4 DEF TypeOK, CacheType, ListType
  <1>6. JobsHonest' /\ PassHonest' /\ AbsentWhenRolled' /\ OnceStarted'
    BY <1>1, <1>3, FreshCache
  <1>7. VerdictOfTrigger'
    BY <1>1 DEF VerdictOfTrigger, Settled, Wanted
  <1> QED
    BY <1>2, <1>5, <1>6, <1>7

(* A step of the Deployment controller. *)
LEMMA DeploymentStep ==
    ASSUME IInv, UNCHANGED <<api, job, cache, pass, wake, verdicts, started, events>>,
           deploy' \in [Sims -> Deploy], pods' \subseteq Pod
    PROVE  IInv'
  <1> USE DEF IInv
  <1>1. TypeOK' /\ CacheShape'
    BY DEF TypeOK, CacheShape
  <1>2. JobsHonest' /\ PassHonest' /\ AbsentWhenRolled'
    BY DEF JobsHonest, PassHonest, AbsentWhenRolled, Wanted
  <1>3. OnceStarted' /\ VerdictOfTrigger'
    BY DEF OnceStarted, Served, Superseded, VerdictOfTrigger, Settled, Wanted
  <1> QED
    BY <1>1, <1>2, <1>3

(* The UE's Deployment observes, starts and deletes pods. *)
LEMMA UeStep == ASSUME IInv, ObserveUe \/ UeRuns \/ DeletePods PROVE IInv'
  <1>1. /\ UNCHANGED <<api, job, cache, pass, wake, verdicts, started, events>>
        /\ deploy \in [Sims -> Deploy] /\ pods \subseteq Pod /\ "ue" \in Sims /\ deploy["ue"].hash \in Hash
    BY DEF IInv, TypeOK, ObserveUe, UeRuns, DeletePods, Sims, Deploy
  <1>2. \A r \in BOOLEAN : [rev |-> deploy["ue"].hash, running |-> r] \in Pod
    BY <1>1 DEF Pod
  <1>3. CASE ObserveUe
    <2>1. deploy' = [deploy EXCEPT !["ue"].seen = TRUE, !["ue"].ready = \E p \in pods : p.running]
      BY <1>3 DEF ObserveUe
    <2>2. PICK r \in BOOLEAN : r = \E p \in pods : p.running
      BY Zenon
    <2>3. deploy' = [deploy EXCEPT !["ue"] = [deploy["ue"] EXCEPT !.seen = TRUE, !.ready = r]]
      BY <1>1, <2>1, <2>2
    <2>4. [deploy["ue"] EXCEPT !.seen = TRUE, !.ready = r] \in Deploy
      BY <1>1, <2>2 DEF Deploy
    <2>5. deploy' \in [Sims -> Deploy]
      BY <1>1, <2>3, <2>4
    <2>6. pods' \subseteq Pod
      BY <1>1, <1>2, <1>3 DEF ObserveUe
    <2> QED
      BY <1>1, <2>5, <2>6, DeploymentStep
  <1>4. CASE UeRuns
    <2> DEFINE new == [rev |-> deploy["ue"].hash, running |-> FALSE]
    <2>1. /\ deploy' = [deploy EXCEPT !["ue"].ready = TRUE]
          /\ pods' = (pods \ {new}) \cup {[new EXCEPT !.running = TRUE]}
      BY <1>4 DEF UeRuns
    <2>2. deploy' \in [Sims -> Deploy]
      BY <1>1, <2>1 DEF Deploy
    <2>3. [new EXCEPT !.running = TRUE] \in Pod
      BY <1>1 DEF Pod
    <2>4. pods' \subseteq Pod
      BY <1>1, <2>1, <2>3
    <2> QED
      BY <1>1, <2>2, <2>4, DeploymentStep
  <1>5. CASE DeletePods
    <2>1. UNCHANGED deploy /\ pods' \subseteq Pod
      BY <1>1, <1>5 DEF DeletePods
    <2> QED
      BY <1>1, <2>1, DeploymentStep
  <1> QED
    BY <1>3, <1>4, <1>5

(* The Job ends, and its outcome is on record. *)
LEMMA JobEndsStep == ASSUME IInv, JobEnds PROVE IInv'
  <1> USE DEF IInv
  <1>1. UNCHANGED <<api, deploy, pods, cache, pass, wake, started, events>> /\ job.state = "active"
    BY DEF JobEnds
  <1>2. PICK outcome \in Outcomes :
           /\ job' = [job EXCEPT !.state = IF outcome = "True" THEN "succeeded" ELSE "failed"]
           /\ verdicts' = verdicts \cup {<<job.hash, outcome>>}
    BY DEF JobEnds
  <1>3. job \in [state : {"active", "succeeded", "failed"}, hash : Hash \ {0}, rev : Hash]
    BY <1>1, Defaults DEF TypeOK, Job
  <1>4. /\ job' \in Job /\ job' # NoJob /\ job'.hash = job.hash
        /\ job'.state = IF outcome = "True" THEN "succeeded" ELSE "failed"
    BY <1>2, <1>3, Defaults DEF Job
  <1>5. verdicts' \subseteq (Hash \X Outcomes)
    BY <1>2, <1>3 DEF TypeOK
  <1>6. TypeOK' /\ CacheShape'
    BY <1>1, <1>4, <1>5 DEF TypeOK, CacheShape
  <1>7. JobsHonest'
    <2>1. Honest(cache.job, verdicts')
      BY <1>2 DEF JobsHonest, Honest
    <2>2. Honest(job', verdicts')
      BY <1>2, <1>4 DEF Honest, Outcomes
    <2> QED
      BY <1>1, <2>1, <2>2 DEF JobsHonest
  <1>8. PassHonest' /\ VerdictOfTrigger'
    <2>1. verdicts \subseteq verdicts'
      BY <1>2
    <2>2. PassHonest'
      BY <1>1, <2>1 DEF PassHonest, Wanted
    <2>3. VerdictOfTrigger'
      BY <1>1, <2>1 DEF VerdictOfTrigger, Settled, Wanted
    <2> QED
      BY <2>2, <2>3
  <1>9. AbsentWhenRolled' /\ OnceStarted'
    BY <1>1, <1>4 DEF AbsentWhenRolled, OnceStarted, Served, Superseded
  <1> QED
    BY <1>6, <1>7, <1>8, <1>9

(* The resync queues the object. *)
LEMMA ResyncStep == ASSUME IInv, Resync PROVE IInv'
  <1> USE DEF IInv
  <1>1. UNCHANGED <<api, deploy, pods, job, cache, pass, verdicts, started, events>> /\ wake' = TRUE
    BY DEF Resync, clusterVars
  <1>2. TypeOK' /\ CacheShape'
    BY <1>1 DEF TypeOK, CacheShape
  <1>3. JobsHonest' /\ PassHonest' /\ AbsentWhenRolled' /\ OnceStarted'
    BY <1>1, FreshCache
  <1>4. VerdictOfTrigger'
    BY <1>1, NotSettled
  <1> QED
    BY <1>2, <1>3, <1>4

(* A restarted manager has fresh caches and no pass. *)
LEMMA CrashStep == ASSUME IInv, Crash PROVE IInv'
  <1> USE DEF IInv
  <1>1. /\ UNCHANGED <<api, deploy, pods, job, verdicts, started>> /\ pass' = Idle /\ wake' = TRUE
        /\ cache' = [i \in Informers |-> Fresh(i)]
    BY DEF Crash, clusterVars
  <1>2. events' \in 0..MaxEvents
    BY EventsBounded DEF Crash, TypeOK
  <1>3. /\ cache'.deploy = Listed(deploy) /\ cache'.pods = Targets(pods) /\ cache'.job = Read(job)
        /\ CacheShape'
    BY <1>1 DEF Fresh, Informers, CacheShape
  <1>4. CacheType'
    BY <1>1, <1>3, FreshTypes DEF CacheType
  <1>5. TypeOK'
    BY <1>1, <1>2, <1>4, Defaults DEF TypeOK, CacheType, ListType
  <1>6. JobsHonest' /\ PassHonest' /\ AbsentWhenRolled' /\ OnceStarted'
    BY <1>1, <1>3, FreshCache
  <1>7. VerdictOfTrigger'
    BY <1>1, NotSettled
  <1> QED
    BY <1>3, <1>5, <1>6, <1>7

-----------------------------------------------------------------------------
(* The theorems *)

(* Every step keeps the inductive invariant. *)
LEMMA NextKeeps == IInv /\ [Next]_vars => IInv'
  <1> SUFFICES ASSUME IInv, [Next]_vars PROVE IInv'
    OBVIOUS
  <1>1. CASE Get \/ PassStep
    BY <1>1, GetStep, ApplyStep, ValidateStep, RollAndRunStep, UpdateStatusStep DEF PassStep
  <1>2. CASE UserEdit \/ Resync \/ Crash
    BY <1>2, UserEditStep, ResyncStep, CrashStep
  <1>3. CASE \E i \in Informers : CatchUp(i)
    BY <1>3, CatchUpStep
  <1>4. CASE Cluster
    BY <1>4, UeStep, JobEndsStep DEF Cluster
  <1>5. CASE UNCHANGED vars
    <2>1. UNCHANGED <<api, deploy, pods, job, cache, pass, wake, verdicts, started, events>>
      BY <1>5 DEF vars, clusterVars
    <2>2. deploy' \in [Sims -> Deploy] /\ pods' \subseteq Pod
      BY <2>1 DEF IInv, TypeOK
    <2> QED
      BY <2>1, <2>2, DeploymentStep
  <1> QED
    BY <1>1, <1>2, <1>3, <1>4, <1>5 DEF Next

(* The inductive invariant holds in every reachable state. *)
LEMMA Invariance == Spec => []IInv
  BY InitHolds, NextKeeps, PTL DEF Spec

(* Every value stays in range; a Job never runs without a trigger's hash   *)
(* on it.                                                                  *)
THEOREM ValidationTypeCorrect == Spec => []TypeOK
  <1>1. IInv => TypeOK
    BY DEF IInv
  <1> QED
    BY <1>1, Invariance, PTL

(* The condition UERANSIMValidated of an object at rest is the outcome of  *)
(* a Job that ran for the trigger in its spec.                             *)
THEOREM VerdictIsOfTrigger == Spec => []VerdictOfTrigger
  <1>1. IInv => VerdictOfTrigger
    BY DEF IInv
  <1> QED
    BY <1>1, Invariance, PTL

(* A step that brings up a Job does so for a hash that had none. *)
LEMMA CreatesOnce ==
    ASSUME IInv, [Next]_vars, job' # job, job'.state = "active"
    PROVE  job'.hash # started
  <1>1. CASE RollAndRun
    <2>1. /\ job = NoJob /\ job'.hash = pass.spec.hash /\ pass.pc = "rollout"
      BY <1>1 DEF RollAndRun, CreateJob
    <2>2. pass.spec.hash # 0
      BY SpecFields DEF IInv, TypeOK
    <2> QED
      BY <2>1, <2>2 DEF IInv, OnceStarted, Served, Superseded, Working
  <1>2. ~Validate
    BY Defaults DEF Validate
  <1>3. ~JobEnds
    <2> SUFFICES ASSUME JobEnds PROVE FALSE
      OBVIOUS
    <2>1. PICK outcome \in Outcomes :
             job' = [job EXCEPT !.state = IF outcome = "True" THEN "succeeded" ELSE "failed"]
      BY DEF JobEnds
    <2>2. job.state = "active" /\ job \in Job
      BY DEF JobEnds, IInv, TypeOK
    <2>3. job'.state \in {"succeeded", "failed"}
      BY <2>1, <2>2 DEF Job, NoJob
    <2> QED
      BY <2>3
  <1>4. RollAndRun \/ Validate \/ JobEnds \/ UNCHANGED job
    <2>1. Get \/ Apply \/ UpdateStatus \/ UserEdit \/ Resync \/ Crash => UNCHANGED job
      BY DEF Get, Apply, UpdateStatus, UserEdit, Resync, Crash, clusterVars
    <2>2. ObserveUe \/ UeRuns \/ DeletePods \/ UNCHANGED vars \/ (\E i \in Informers : CatchUp(i))
             => UNCHANGED job
      BY DEF ObserveUe, UeRuns, DeletePods, CatchUp, vars, clusterVars
    <2> QED
      BY <2>1, <2>2 DEF Next, PassStep, Cluster
  <1> QED
    BY <1>1, <1>2, <1>3, <1>4

(* For a trigger that is left alone no second Job is created. *)
THEOREM TriggerIsOneShot == Spec => OneShot
  <1> DEFINE Once == job' # job /\ job'.state = "active" => job'.hash # started
  <1>1. IInv /\ [Next]_vars => [Once]_vars
    BY CreatesOnce
  <1> QED
    BY <1>1, Invariance, PTL DEF Spec, OneShot
=============================================================================
