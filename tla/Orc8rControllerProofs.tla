----------------------- MODULE Orc8rControllerProofs -----------------------
(***************************************************************************)
(* Proofs about Orc8rController, for every set of specs and every number   *)
(* of user operations and faults: the type invariant, with the bound it    *)
(* puts on the certificates generated; that nothing of the release         *)
(* outlives the object; that magmalte has the command the spec asks for;   *)
(* and that certificates give way only to ones for another domain.         *)
(***************************************************************************)
EXTENDS Orc8rController, TLAPS

Working  == {"apply", "certs", "rollout", "bootstrap", "magmalte"}
Released == secret.exists \/ deploy.exists \/ job.state # "none"

(***************************************************************************)
(* The inductive invariant.  The finalizer guards the release: it is there *)
(* while anything of the release is, and while a pass may still create     *)
(* something, so that a deletion always goes through deleteNative.         *)
(***************************************************************************)
Guarded ==
    /\ Released \/ pass.pc \in Working => api.exists /\ api.finalizer
    /\ api.deleting => api.exists /\ api.finalizer
    /\ pass.pc \in {"deleteNative", "removeFinalizer"} => api.deleting
    /\ pass.pc = "removeFinalizer" => ~Released

(* magmalte's mode during a pass: taken back by Apply, set at most once,   *)
(* for the spec the pass has read, and reported only for a spec that has   *)
(* not changed since.  The environment comes with the command and is not   *)
(* taken back.                                                             *)
HttpMode ==
    /\ deploy.http => deploy.nodeEnv
    /\ pass.current /\ pass.pc \in Working => pass.spec = api.spec
    /\ pass.pc \in Working \ {"apply"} => ~deploy.http
    /\ pass.pc = "magmalte" => pass.spec.nodePort
    /\ pass.pc = "status" /\ pass.current /\ pass.ready => deploy.http = api.spec.nodePort

NoLeftovers == ~secret.exists => secret = NoSecret

(* Certificates still to be generated for what the users have asked so     *)
(* far: the running pass may need some for the domain it has read, and a   *)
(* later pass for the domain the spec has got since.                       *)
OneIf(b) == IF b THEN 1 ELSE 0
Due ==
    IF pass.pc \in {"apply", "certs"}
    THEN OneIf(pass.spec.domain # secret.domain)
            + OneIf(Alive /\ api.spec.domain # pass.spec.domain)
    ELSE OneIf(Alive /\ api.spec.domain # secret.domain)

(* Every generation is paid for by an operation of the user, but for the   *)
(* one the first object may find in the caches.                            *)
Paid == certs + Due <= ops + 1

IInv == TypeOK /\ Guarded /\ HttpMode /\ NoLeftovers /\ Paid /\ MagmalteFollowsSpec

(* The type of the running pass. *)
PassType == pass \in [pc : Phases, spec : Specs, current : BOOLEAN, hash : Hash, ready : BOOLEAN]
CacheType == cache \in [secret : Secret, deploy : Deploy, job : {Seen(j) : j \in Job}]

-----------------------------------------------------------------------------
(* Facts about the operators *)

(* The default values have the types of their variables. *)
LEMMA Defaults ==
    /\ NoObject \in Object /\ NoObject.spec \in Specs /\ ~NoObject.exists /\ ~NoObject.deleting
    /\ NoSecret \in Secret /\ Placeholder \in Secret
    /\ NoDeploy \in Deploy
    /\ NoJob \in Job /\ NoJob.state = "none"
    /\ Idle \in [pc : Phases, spec : Specs, current : BOOLEAN, hash : Hash, ready : BOOLEAN]
    /\ Idle.pc = "idle"
    /\ 0 \in Cert /\ 1 \in Cert /\ None \in Hash
  <1>1. (CHOOSE s \in Specs : TRUE) \in Specs
    BY SpecsAssumption
  <1>2. 0 \in Cert /\ 1 \in Cert /\ None \in Hash
    BY BoundsAssumption DEF Cert, Hash
  <1>3. NoObject \in Object /\ NoObject.spec \in Specs /\ ~NoObject.exists /\ ~NoObject.deleting
    BY <1>1 DEF NoObject, Object
  <1>4. NoSecret \in Secret /\ Placeholder \in Secret
    BY <1>2 DEF NoSecret, Placeholder, Secret, Domains
  <1>5. NoDeploy \in Deploy
    BY <1>2 DEF NoDeploy, Deploy
  <1>6. NoJob \in Job /\ NoJob.state = "none"
    BY DEF NoJob, Job
  <1>7. /\ Idle \in [pc : Phases, spec : Specs, current : BOOLEAN, hash : Hash, ready : BOOLEAN]
        /\ Idle.pc = "idle"
    BY <1>2, <1>3 DEF Idle, Phases
  <1> QED
    BY <1>2, <1>3, <1>4, <1>5, <1>6, <1>7

(* A spec's domain is a positive number, the placeholder's is 0. *)
LEMMA SpecFields ==
    ASSUME NEW s \in Specs
    PROVE  /\ s.domain \in Nat /\ s.domain > 0 /\ s.domain \in Domains
           /\ s.nodePort \in BOOLEAN
           /\ s.template \in {t.template : t \in Specs}
  BY SpecsAssumption DEF SpecType, Domains

(* No fault counter leaves its bound. *)
LEMMA FaultsBounded ==
    ASSUME faults \in 0..MaxFaults, Fault \/ NoFault
    PROVE  faults' \in 0..MaxFaults
  BY BoundsAssumption DEF Fault, NoFault

(* Finish leaves the pass at the status write. *)
LEMMA FinishFacts ==
    ASSUME PassType, NEW ready \in BOOLEAN, Finish(ready)
    PROVE  /\ PassType' /\ pass'.pc = "status"
           /\ pass'.current = pass.current /\ pass'.ready = ready
  BY Defaults DEF Finish, PassType, Phases

(* Certificates that are due do not increase while neither the spec, nor   *)
(* the Secret's domain, nor the domain of a pass that may generate them    *)
(* changes: a pass that ends early hands what it left to the next one.     *)
LEMMA PaidKept ==
    ASSUME TypeOK, Paid,
           UNCHANGED <<ops, certs>>, secret'.domain = secret.domain,
           Alive' => Alive /\ api'.spec = api.spec,
           pass'.pc \in {"apply", "certs"} =>
              pass.pc \in {"apply", "certs"} /\ pass'.spec = pass.spec
    PROVE  Paid'
  <1>1. certs \in Int /\ ops \in Int
    BY BoundsAssumption DEF TypeOK, Cert
  <1>2. Due \in Int /\ Due' \in Int /\ Due' <= Due
    <2>1. CASE pass'.pc \in {"apply", "certs"}
      <3>1. Due' = OneIf(pass.spec.domain # secret.domain)
                      + OneIf(Alive' /\ api'.spec.domain # pass.spec.domain)
        BY <2>1 DEF Due
      <3>2. Due = OneIf(pass.spec.domain # secret.domain)
                     + OneIf(Alive /\ api.spec.domain # pass.spec.domain)
        BY <2>1 DEF Due
      <3> QED
        BY <3>1, <3>2 DEF OneIf
    <2>2. CASE pass'.pc \notin {"apply", "certs"}
      <3>1. Due' = OneIf(Alive' /\ api'.spec.domain # secret.domain)
        BY <2>2 DEF Due
      <3>2. CASE pass.pc \in {"apply", "certs"}
        BY <3>1, <3>2 DEF Due, OneIf
      <3>3. CASE pass.pc \notin {"apply", "certs"}
        BY <3>1, <3>3 DEF Due, OneIf
      <3> QED
        BY <3>2, <3>3
    <2> QED
      BY <2>1, <2>2
  <1>3. \A c, o, d, e \in Int : c + d <= o + 1 /\ e <= d => c + e <= o + 1
    OBVIOUS
  <1>4. certs + Due <= ops + 1
    BY DEF Paid
  <1>5. certs + Due' <= ops + 1
    BY <1>1, <1>2, <1>3, <1>4
  <1> QED
    BY <1>5 DEF Paid

(* The same while the object stays as it is. *)
LEMMA PaidKeptObject ==
    ASSUME TypeOK, Paid,
           UNCHANGED <<api, ops, certs>>, secret'.domain = secret.domain,
           pass'.pc \in {"apply", "certs"} =>
              pass.pc \in {"apply", "certs"} /\ pass'.spec = pass.spec
    PROVE  Paid'
  <1>1. Alive' => Alive /\ api'.spec = api.spec
    BY DEF Alive
  <1> QED
    BY <1>1, PaidKept

(* What keeps magmalte's mode honest: while a pass is running, or the      *)
(* object is queued, nothing is settled.                                   *)
LEMMA NotSettled ==
    ASSUME pass'.pc # "idle" \/ wake'
    PROVE  MagmalteFollowsSpec'
  BY DEF MagmalteFollowsSpec, Settled

-----------------------------------------------------------------------------
(* The steps of a pass *)

(* There is no object and no release, but maybe the copies of an old one. *)
LEMMA InitHolds == Init => IInv
  <1> SUFFICES ASSUME Init PROVE IInv
    OBVIOUS
  <1>1. cache \in [secret : Secret, deploy : Deploy, job : {Seen(j) : j \in Job}] /\ cache.secret.cert \in {0, 1}
    <2>1. NoRelease \in [secret : Secret, deploy : Deploy, job : {Seen(j) : j \in Job}] /\ NoRelease.secret.cert = 0
      BY Defaults DEF NoRelease, NoSecret
    <2>2. ASSUME NEW s \in Specs
          PROVE  /\ OldRelease(s) \in [secret : Secret, deploy : Deploy, job : {Seen(j) : j \in Job}]
                 /\ OldRelease(s).secret.cert = 1
      <3>1. [exists |-> TRUE, domain |-> s.domain, cert |-> 1] \in Secret
        BY Defaults, SpecFields DEF Secret
      <3>2. [exists |-> TRUE, hash |-> 1, http |-> s.nodePort, nodeEnv |-> s.nodePort] \in Deploy
        BY Defaults, SpecFields DEF Deploy, Hash
      <3> DEFINE j == [state |-> "succeeded", hash |-> 1, template |-> s.template]
      <3>3. j \in Job
        BY Defaults, SpecFields DEF Job, Hash
      <3>4. [state |-> "succeeded", hash |-> 1] = Seen(j)
        BY DEF Seen
      <3> QED
        BY <3>1, <3>2, <3>3, <3>4 DEF OldRelease
    <2> QED
      BY <2>1, <2>2 DEF Init
  <1>2. TypeOK
    <2>1. 0 \in 0..MaxOps /\ 0 \in 0..MaxFaults
      BY BoundsAssumption
    <2> QED
      BY <1>1, <2>1, Defaults DEF Init, TypeOK
  <1>3. Guarded
    BY Defaults DEF Init, Guarded, Released, NoSecret, NoDeploy, NoJob, Working
  <1>4. HttpMode /\ NoLeftovers
    BY Defaults DEF Init, HttpMode, NoLeftovers, Working, NoSecret, NoDeploy
  <1>5. Paid
    <2>1. ~Alive /\ pass.pc \notin {"apply", "certs"}
      BY Defaults DEF Init, Alive
    <2>2. Due = 0
      BY <2>1 DEF Due, OneIf
    <2> QED
      BY <1>1, <2>2 DEF Init, Paid
  <1>6. MagmalteFollowsSpec
    BY Defaults DEF Init, MagmalteFollowsSpec, Settled, Alive
  <1> QED
    BY <1>2, <1>3, <1>4, <1>5, <1>6 DEF IInv

(* Get reads the object and chooses what the pass will do. *)
LEMMA GetStep == ASSUME IInv, Get PROVE IInv'
  <1> USE DEF IInv
  <1>1. /\ UNCHANGED <<api, secret, deploy, job, cache, ops, certs, faults>> /\ wake' \in BOOLEAN
        /\ pass.pc = "idle"
    BY DEF Get, clusterVars
  <1>2. PassType /\ api \in Object
    BY DEF TypeOK, PassType
  <1>3. CASE api.exists
    <2>1. pass' = [Idle EXCEPT !.pc = FirstPhase, !.spec = api.spec, !.current = TRUE]
      BY <1>3 DEF Get
    <2>2. /\ FirstPhase \in {"deleteNative", "finalize", "apply"}
          /\ FirstPhase = "deleteNative" => api.deleting
          /\ FirstPhase = "apply" => api.finalizer /\ ~api.deleting
      BY <1>2 DEF FirstPhase, Object
    <2>3. PassType' /\ pass'.pc = FirstPhase /\ pass'.spec = api.spec
      BY <1>2, <2>1, <2>2, Defaults DEF PassType, Phases, Object
    <2>4. TypeOK'
      BY <1>1, <2>3 DEF TypeOK, PassType
    <2>5. Guarded' /\ HttpMode' /\ NoLeftovers'
      BY <1>1, <1>3, <2>2, <2>3 DEF Guarded, HttpMode, NoLeftovers, Working, Released
    <2>6. Paid'
      <3>1. CASE FirstPhase = "apply"
        <4>1. Alive /\ Alive'
          BY <1>1, <1>3, <2>2, <3>1 DEF Alive
        <4>2. Due' = Due
          BY <1>1, <2>3, <3>1, <4>1 DEF Due, OneIf
        <4> QED
          BY <1>1, <4>2 DEF Paid
      <3>2. CASE FirstPhase # "apply"
        BY <1>1, <2>2, <2>3, <3>2, PaidKeptObject
      <3> QED
        BY <3>1, <3>2
    <2>7. MagmalteFollowsSpec'
      BY <2>2, <2>3, NotSettled
    <2> QED
      BY <2>4, <2>5, <2>6, <2>7
  <1>4. CASE ~api.exists
    <2>1. pass' = pass
      BY <1>4 DEF Get
    <2>2. TypeOK'
      BY <1>1, <2>1 DEF TypeOK
    <2>3. Guarded' /\ HttpMode' /\ NoLeftovers'
      BY <1>1, <2>1 DEF Guarded, HttpMode, NoLeftovers, Released
    <2>4. Paid'
      BY <1>1, <2>1, PaidKeptObject
    <2>5. MagmalteFollowsSpec'
      BY <1>1, <1>4 DEF MagmalteFollowsSpec, Settled, Alive
    <2> QED
      BY <2>2, <2>3, <2>4, <2>5
  <1> QED
    BY <1>3, <1>4

(* The merge patch that adds the finalizer, and the requeue. *)
LEMMA AddFinalizerStep == ASSUME IInv, AddFinalizer PROVE IInv'
  <1> USE DEF IInv
  <1>1. /\ UNCHANGED <<secret, deploy, job, cache, ops, certs>>
        /\ pass.pc = "finalize" /\ pass' = Idle /\ wake' = TRUE
    BY DEF AddFinalizer, Return, clusterVars
  <1>2. faults' \in 0..MaxFaults
    BY FaultsBounded DEF AddFinalizer, TypeOK
  <1>3. api \in Object
    BY DEF TypeOK
  <1>4. /\ api' \in Object /\ api'.exists = api.exists /\ api'.deleting = api.deleting
        /\ api'.spec = api.spec
        /\ api.exists /\ api.finalizer => api'.finalizer
    BY <1>3 DEF AddFinalizer, Return, Object
  <1>5. TypeOK'
    BY <1>1, <1>2, <1>4, Defaults DEF TypeOK
  <1>6. Guarded' /\ HttpMode' /\ NoLeftovers'
    BY <1>1, <1>4, Defaults DEF Guarded, HttpMode, NoLeftovers, Working, Released
  <1>7. Paid'
    <2>1. Alive' => Alive
      BY <1>4 DEF Alive
    <2> QED
      BY <1>1, <1>4, <2>1, Defaults, PaidKept
  <1>8. MagmalteFollowsSpec'
    BY <1>1, NotSettled
  <1> QED
    BY <1>5, <1>6, <1>7, <1>8

(* The Job that an apply leaves has its type. *)
LEMMA AppliedJobType ==
    ASSUME TypeOK, NEW s \in Specs
    PROVE  AppliedJob(s) \in Job
  <1>1. [NoJob EXCEPT !.state = "active", !.template = s.template] \in Job
    BY SpecFields, Defaults DEF NoJob, Job
  <1> QED
    BY <1>1, Defaults DEF AppliedJob, TypeOK

(* reconcileNativeRelease up to an error or to the end: a Secret that is   *)
(* there keeps its certificates, the Deployments lose magmalte's command.  *)
LEMMA ApplyStep == ASSUME IInv, Apply PROVE IInv'
  <1> USE DEF IInv
  <1>1. UNCHANGED <<api, cache, wake, ops, certs>> /\ pass.pc = "apply"
    BY DEF Apply
  <1>2. faults' \in 0..MaxFaults
    BY FaultsBounded DEF Apply, TypeOK
  <1>3. PassType /\ secret \in Secret /\ deploy \in Deploy /\ job \in Job /\ pass.spec \in Specs
    BY DEF TypeOK, PassType
  <1>4. /\ secret' \in {secret, AppliedSecret}
        /\ deploy' \in {deploy, [deploy EXCEPT !.exists = TRUE, !.http = FALSE]}
        /\ job' \in {job, AppliedJob(pass.spec)}
        /\ \/ /\ pass' = [pass EXCEPT !.pc = "certs"]
              /\ deploy' = [deploy EXCEPT !.exists = TRUE, !.http = FALSE]
           \/ Finish(FALSE)
    <2>1. PICK upTo \in 0..3 :
             /\ secret' = IF upTo >= 1 THEN AppliedSecret ELSE secret
             /\ deploy' = IF upTo >= 2 THEN [deploy EXCEPT !.exists = TRUE, !.http = FALSE] ELSE deploy
             /\ job' = IF upTo = 3 THEN AppliedJob(pass.spec) ELSE job
             /\ \/ upTo = 3 /\ Goto("certs") /\ NoFault
                \/ upTo < 3 /\ Fail /\ Fault
      BY DEF Apply
    <2>2. /\ secret' \in {secret, AppliedSecret}
          /\ deploy' \in {deploy, [deploy EXCEPT !.exists = TRUE, !.http = FALSE]}
          /\ job' \in {job, AppliedJob(pass.spec)}
      BY <2>1
    <2>3. upTo = 3 => deploy' = [deploy EXCEPT !.exists = TRUE, !.http = FALSE]
      BY <2>1
    <2> QED
      BY <2>1, <2>2, <2>3 DEF Goto, Fail
  <1>5. /\ secret' \in Secret /\ secret'.domain = secret.domain /\ NoLeftovers'
    <2>1. secret' = secret \/ (secret = NoSecret /\ secret' = Placeholder)
      BY <1>4 DEF AppliedSecret, NoLeftovers
    <2>2. Placeholder.exists /\ Placeholder.domain = NoSecret.domain
      BY DEF Placeholder, NoSecret
    <2> QED
      BY <1>3, <2>1, <2>2, Defaults DEF NoLeftovers
  <1>6. deploy' \in Deploy /\ job' \in Job
    <2>1. [deploy EXCEPT !.exists = TRUE, !.http = FALSE] \in Deploy
      BY <1>3 DEF Deploy
    <2>2. AppliedJob(pass.spec) \in Job
      BY <1>3, AppliedJobType
    <2> QED
      BY <1>3, <1>4, <2>1, <2>2
  <1>7. CASE /\ pass' = [pass EXCEPT !.pc = "certs"]
             /\ deploy' = [deploy EXCEPT !.exists = TRUE, !.http = FALSE]
    <2>1. PassType' /\ pass'.pc = "certs" /\ pass'.spec = pass.spec /\ pass'.current = pass.current
      BY <1>3, <1>7 DEF PassType, Phases
    <2>2. TypeOK'
      BY <1>1, <1>2, <1>5, <1>6, <2>1 DEF TypeOK, PassType
    <2>3. Guarded'
      BY <1>1, <2>1 DEF Guarded, Working
    <2>4. HttpMode'
      BY <1>1, <1>3, <1>7, <2>1 DEF HttpMode, Working, Deploy
    <2>5. Paid'
      BY <1>1, <1>5, <2>1, PaidKeptObject
    <2>6. MagmalteFollowsSpec'
      BY <2>1, NotSettled
    <2> QED
      BY <1>5, <2>2, <2>3, <2>4, <2>5, <2>6
  <1>8. CASE Finish(FALSE)
    <2>1. PassType' /\ pass'.pc = "status" /\ ~pass'.ready
      BY <1>3, <1>8, FinishFacts
    <2>2. TypeOK'
      BY <1>1, <1>2, <1>5, <1>6, <2>1 DEF TypeOK, PassType
    <2>3. Guarded'
      BY <1>1, <2>1 DEF Guarded, Working
    <2>4. HttpMode'
      <3>1. deploy'.http => deploy'.nodeEnv
        BY <1>3, <1>4 DEF HttpMode, Deploy
      <3> QED
        BY <2>1, <3>1 DEF HttpMode, Working
    <2>5. Paid'
      BY <1>1, <1>5, <2>1, PaidKeptObject
    <2>6. MagmalteFollowsSpec'
      BY <2>1, NotSettled
    <2> QED
      BY <1>5, <2>2, <2>3, <2>4, <2>5, <2>6
  <1> QED
    BY <1>4, <1>7, <1>8

(* A step that ends the pass early, with nothing but the cluster's own     *)
(* objects as they are.                                                    *)
LEMMA FailedStep ==
    ASSUME IInv, Finish(FALSE), UNCHANGED <<api, secret, deploy, job, cache, wake, ops, certs>>,
           faults' \in 0..MaxFaults
    PROVE  IInv'
  <1> USE DEF IInv
  <1>1. PassType' /\ pass'.pc = "status" /\ ~pass'.ready
    BY FinishFacts DEF TypeOK, PassType
  <1>2. TypeOK'
    BY <1>1 DEF TypeOK, PassType
  <1>3. Guarded' /\ HttpMode' /\ NoLeftovers'
    BY <1>1 DEF Guarded, HttpMode, NoLeftovers, Working, Released
  <1>4. Paid'
    BY <1>1, PaidKeptObject
  <1>5. MagmalteFollowsSpec'
    BY <1>1, NotSettled
  <1> QED
    BY <1>2, <1>3, <1>4, <1>5

(* reconcileOrc8rCertSecret: certificates are generated only when the      *)
(* Secret, which the cache shows as it is, has none for the domain.        *)
LEMMA Generation ==
    ASSUME IInv, ReconcileCerts, ~ UNCHANGED <<secret, certs>>
    PROVE  /\ secret' = [exists |-> TRUE, domain |-> pass.spec.domain, cert |-> certs + 1]
           /\ certs' = certs + 1 /\ pass' = [pass EXCEPT !.pc = "rollout"]
           /\ secret.domain # pass.spec.domain
  <1>1. /\ secret' = [exists |-> TRUE, domain |-> pass.spec.domain, cert |-> certs + 1]
        /\ certs' = certs + 1 /\ pass' = [pass EXCEPT !.pc = "rollout"]
        /\ cache.secret = secret
        /\ ~(secret.exists /\ secret.domain = pass.spec.domain)
    BY DEF ReconcileCerts, Writable, Goto
  <1>2. pass.spec.domain # NoSecret.domain
    BY SpecFields DEF IInv, TypeOK, NoSecret
  <1> QED
    BY <1>1, <1>2 DEF IInv, NoLeftovers

(* A generation is paid for: before it the pass needed certificates for    *)
(* its domain, after it only a later pass may.                             *)
LEMMA ReconcileCertsStep == ASSUME IInv, ReconcileCerts PROVE IInv'
  <1> USE DEF IInv
  <1>1. UNCHANGED <<api, deploy, job, cache, wake, ops>> /\ pass.pc = "certs"
    BY DEF ReconcileCerts
  <1>2. faults' \in 0..MaxFaults
    BY FaultsBounded DEF ReconcileCerts, TypeOK
  <1>3. PassType /\ secret \in Secret /\ pass.spec \in Specs /\ certs \in Cert /\ certs \in Int /\ ops \in 0..MaxOps
    BY BoundsAssumption DEF TypeOK, PassType, Cert
  <1>4. CASE Finish(FALSE) /\ UNCHANGED <<secret, certs>>
    BY <1>1, <1>2, <1>4, FailedStep
  <1>5. CASE pass' = [pass EXCEPT !.pc = "rollout"]
    <2>1. /\ PassType' /\ pass'.pc = "rollout" /\ pass'.spec = pass.spec
          /\ pass'.current = pass.current
      BY <1>3, <1>5 DEF PassType, Phases
    <2>2. HttpMode' /\ MagmalteFollowsSpec'
      BY <1>1, <2>1, NotSettled DEF HttpMode, Working
    <2>3. Guarded'
      BY <1>1, <2>1 DEF Guarded, Working
    <2>4. CASE UNCHANGED <<secret, certs>>
      <3>1. TypeOK' /\ NoLeftovers'
        BY <1>1, <1>2, <2>1, <2>4 DEF TypeOK, PassType, NoLeftovers
      <3>2. Paid'
        BY <1>1, <2>1, <2>4, PaidKeptObject
      <3> QED
        BY <2>2, <2>3, <3>1, <3>2
    <2>5. CASE ~ UNCHANGED <<secret, certs>>
      <3>1. /\ secret' = [exists |-> TRUE, domain |-> pass.spec.domain, cert |-> certs + 1]
            /\ certs' = certs + 1 /\ secret.domain # pass.spec.domain
        BY <2>5, Generation
      <3>2. Due \in Int /\ Due' \in Int /\ Due >= 1 /\ Due' >= 0 /\ Due' + 1 = Due
        <4>1. Due = 1 + OneIf(Alive /\ api.spec.domain # pass.spec.domain)
          BY <1>1, <3>1 DEF Due, OneIf
        <4>2. Due' = OneIf(Alive /\ api.spec.domain # pass.spec.domain)
          BY <1>1, <2>1, <3>1 DEF Due, Alive
        <4> QED
          BY <4>1, <4>2 DEF OneIf
      <3>3. \A c, o, d, e \in Int : c + d <= o + 1 /\ e + 1 = d => (c + 1) + e <= o + 1
        OBVIOUS
      <3>4. certs + Due <= ops + 1 /\ ops \in Int
        BY <1>3 DEF Paid
      <3>5. (certs + 1) + Due' <= ops + 1
        BY <1>3, <3>2, <3>3, <3>4
      <3>6. Paid'
        BY <1>1, <3>1, <3>5 DEF Paid
      <3>7. certs + 1 \in Cert
        <4>1. \A c, o, d \in Int : c + d <= o + 1 /\ d >= 1 => c + 1 <= o + 1
          OBVIOUS
        <4>2. certs + 1 <= ops + 1
          BY <1>3, <3>2, <3>4, <4>1
        <4> QED
          BY <1>3, <4>2, BoundsAssumption DEF Cert
      <3>8. secret' \in Secret /\ NoLeftovers'
        BY <1>3, <3>1, <3>7, SpecFields DEF Secret, NoLeftovers
      <3>9. TypeOK'
        BY <1>1, <1>2, <2>1, <3>1, <3>7, <3>8 DEF TypeOK, PassType
      <3> QED
        BY <2>2, <2>3, <3>6, <3>8, <3>9
    <2> QED
      BY <2>4, <2>5
  <1> QED
    BY <1>4, <1>5 DEF ReconcileCerts, Goto, Fail

(* A step of the pass after the certificates: it touches the Deployments'  *)
(* hash or the Job's, and goes on or fails.                                *)
LEMMA LaterStep ==
    ASSUME IInv, UNCHANGED <<api, secret, cache, wake, ops, certs>>, faults' \in 0..MaxFaults,
           pass.pc \in Working \ {"apply"}, pass'.pc \in {"bootstrap", "magmalte", "status"},
           PassType', deploy' \in Deploy, job' \in Job, HttpMode'
    PROVE  IInv'
  <1> USE DEF IInv
  <1>1. TypeOK'
    BY DEF TypeOK, PassType
  <1>2. Guarded' /\ NoLeftovers'
    BY DEF Guarded, NoLeftovers, Working
  <1>3. Paid'
    BY PaidKeptObject
  <1>4. MagmalteFollowsSpec'
    BY NotSettled
  <1> QED
    BY <1>1, <1>2, <1>3, <1>4

(* annotateOrc8rDeploymentsForSecretHash. *)
LEMMA RolloutStep == ASSUME IInv, Rollout PROVE IInv'
  <1> USE DEF IInv
  <1> DEFINE hash == IF cache.secret.exists THEN cache.secret.cert ELSE None
  <1>1. UNCHANGED <<api, secret, job, cache, wake, ops, certs>> /\ pass.pc = "rollout"
    BY DEF Rollout
  <1>2. faults' \in 0..MaxFaults
    BY FaultsBounded DEF Rollout, TypeOK
  <1>3. PassType /\ deploy \in Deploy /\ job \in Job /\ hash \in Hash
    BY Defaults DEF TypeOK, PassType, Secret, Hash
  <1>4. CASE Finish(FALSE) /\ UNCHANGED deploy
    BY <1>1, <1>2, <1>4, FailedStep
  <1>5. CASE /\ pass' = [pass EXCEPT !.pc = "bootstrap", !.hash = hash]
             /\ deploy' \in {deploy, [deploy EXCEPT !.hash = hash]}
    <2>1. /\ PassType' /\ pass'.pc = "bootstrap" /\ pass'.spec = pass.spec
          /\ pass'.current = pass.current
      BY <1>3, <1>5 DEF PassType, Phases
    <2>2. deploy' \in Deploy /\ deploy'.http = deploy.http /\ deploy'.nodeEnv = deploy.nodeEnv
      BY <1>3, <1>5 DEF Deploy
    <2>3. HttpMode'
      BY <1>1, <2>1, <2>2 DEF HttpMode, Working
    <2> QED
      BY <1>1, <1>2, <1>3, <2>1, <2>2, <2>3, LaterStep DEF Working
  <1> QED
    BY <1>4, <1>5 DEF Rollout, Fail

(* recreateOrc8rBootstrapJobForSecretHash: whatever becomes of the Job,    *)
(* Ready is reported from here only when the spec asks for no node port.   *)
LEMMA RerunBootstrapStep == ASSUME IInv, RerunBootstrap PROVE IInv'
  <1> USE DEF IInv
  <1>1. UNCHANGED <<api, secret, deploy, cache, wake, ops, certs>> /\ pass.pc = "bootstrap"
    BY DEF RerunBootstrap
  <1>2. faults' \in 0..MaxFaults
    BY FaultsBounded DEF RerunBootstrap, TypeOK
  <1>3. PassType /\ deploy \in Deploy /\ job \in Job /\ pass.hash \in Hash /\ pass.spec \in Specs
    BY DEF TypeOK, PassType
  <1>4. job' \in Job
    <2>1. job.state # "none" => [job EXCEPT !.hash = pass.hash] \in Job
      BY <1>3, Defaults DEF Job
    <2>2. job' = job \/ job' = NoJob \/ (job.state # "none" /\ job' = [job EXCEPT !.hash = pass.hash])
      BY DEF RerunBootstrap
    <2> QED
      BY <1>3, <2>1, <2>2, Defaults
  <1>5. \/ pass.spec.nodePort /\ pass' = [pass EXCEPT !.pc = "magmalte", !.hash = None]
        \/ ~pass.spec.nodePort /\ Finish(TRUE)
        \/ Finish(FALSE)
    BY DEF RerunBootstrap, Fail
  <1>6. /\ PassType' /\ pass'.pc \in {"magmalte", "status"} /\ pass'.current = pass.current
        /\ pass'.pc = "magmalte" => pass.spec.nodePort /\ pass'.spec = pass.spec
        /\ pass'.pc = "status" /\ pass'.ready => ~pass.spec.nodePort
    <2>1. CASE pass.spec.nodePort /\ pass' = [pass EXCEPT !.pc = "magmalte", !.hash = None]
      BY <1>3, <2>1, Defaults DEF PassType, Phases
    <2>2. CASE ~pass.spec.nodePort /\ Finish(TRUE)
      BY <1>3, <2>2, FinishFacts
    <2>3. CASE Finish(FALSE)
      BY <1>3, <2>3, FinishFacts
    <2> QED
      BY <1>5, <2>1, <2>2, <2>3
  <1>7. HttpMode'
    <2>1. ~deploy.http /\ (pass.current => pass.spec = api.spec)
      BY <1>1 DEF HttpMode, Working
    <2>2. deploy.http \in BOOLEAN /\ pass.spec.nodePort \in BOOLEAN
      BY <1>3, SpecFields DEF Deploy
    <2> QED
      BY <1>1, <1>6, <2>1, <2>2 DEF HttpMode, Working
  <1> QED
    BY <1>1, <1>2, <1>3, <1>4, <1>6, <1>7, LaterStep DEF Working

(* patchMagmalteForHTTPNodePort, or the conflict. *)
LEMMA PatchMagmalteStep == ASSUME IInv, PatchMagmalte PROVE IInv'
  <1> USE DEF IInv
  <1>1. UNCHANGED <<api, secret, job, cache, wake, ops, certs>> /\ pass.pc = "magmalte"
    BY DEF PatchMagmalte
  <1>2. faults' \in 0..MaxFaults
    BY FaultsBounded DEF PatchMagmalte, TypeOK
  <1>3. PassType /\ deploy \in Deploy /\ job \in Job
    BY DEF TypeOK, PassType
  <1>4. CASE Finish(FALSE) /\ UNCHANGED deploy
    BY <1>1, <1>2, <1>4, FailedStep
  <1>5. CASE Finish(TRUE) /\ deploy' = [deploy EXCEPT !.http = TRUE, !.nodeEnv = TRUE]
    <2>1. PassType' /\ pass'.pc = "status" /\ pass'.current = pass.current
      BY <1>3, <1>5, FinishFacts
    <2>2. deploy' \in Deploy /\ deploy'.http = TRUE /\ deploy'.nodeEnv = TRUE
      BY <1>3, <1>5 DEF Deploy
    <2>3. pass.spec.nodePort = TRUE /\ (pass.current => pass.spec = api.spec)
      BY <1>1, <1>3, SpecFields DEF HttpMode, Working, PassType
    <2>4. HttpMode'
      BY <1>1, <2>1, <2>2, <2>3 DEF HttpMode, Working
    <2> QED
      BY <1>1, <1>2, <1>3, <2>1, <2>2, <2>4, LaterStep DEF Working
  <1> QED
    BY <1>4, <1>5 DEF PatchMagmalte, MagmalteFailed, Fail

(* updateOrc8rStatus: the object comes to rest only with a status that was *)
(* there already, for the spec the pass has worked on.                     *)
LEMMA UpdateStatusStep == ASSUME IInv, UpdateStatus PROVE IInv'
  <1> USE DEF IInv
  <1>1. /\ UNCHANGED <<secret, deploy, job, cache, ops, certs>> /\ pass.pc = "status" /\ pass' = Idle
        /\ wake' \in BOOLEAN
    BY DEF UpdateStatus, Return, clusterVars
  <1>2. faults' \in 0..MaxFaults
    BY FaultsBounded DEF UpdateStatus, TypeOK
  <1>3. api \in Object /\ pass.ready \in BOOLEAN
    BY DEF TypeOK
  <1>4. \/ pass.current /\ api' = [api EXCEPT !.ready = pass.ready, !.observed = TRUE]
        \/ wake' /\ api' = api
    BY DEF UpdateStatus, Return
  <1>5. /\ api' \in Object /\ api'.exists = api.exists /\ api'.deleting = api.deleting
        /\ api'.finalizer = api.finalizer /\ api'.spec = api.spec
    BY <1>3, <1>4 DEF Object
  <1>6. TypeOK'
    BY <1>1, <1>2, <1>5, Defaults DEF TypeOK
  <1>7. Guarded' /\ HttpMode' /\ NoLeftovers'
    BY <1>1, <1>5, Defaults DEF Guarded, HttpMode, NoLeftovers, Working, Released
  <1>8. Paid'
    <2>1. Alive' => Alive
      BY <1>5 DEF Alive
    <2> QED
      BY <1>1, <1>5, <2>1, Defaults, PaidKept
  <1>9. MagmalteFollowsSpec'
    <2>1. CASE wake'
      BY <2>1, NotSettled
    <2>2. CASE pass.current /\ api' = [api EXCEPT !.ready = pass.ready, !.observed = TRUE]
      <3>1. api'.ready = pass.ready
        BY <1>3, <2>2 DEF Object
      <3> QED
        BY <1>1, <1>5, <2>2, <3>1 DEF MagmalteFollowsSpec, Settled, HttpMode
    <2> QED
      BY <1>4, <2>1, <2>2
  <1> QED
    BY <1>6, <1>7, <1>8, <1>9

(* deleteNativeRelease, up to an error or to the end. *)
LEMMA DeleteNativeStep == ASSUME IInv, DeleteNative PROVE IInv'
  <1> USE DEF IInv
  <1>1. UNCHANGED <<api, cache, wake, ops, certs>> /\ pass.pc = "deleteNative" /\ api.deleting
    BY DEF DeleteNative, Guarded
  <1>2. faults' \in 0..MaxFaults
    BY FaultsBounded DEF DeleteNative, TypeOK
  <1>3. PassType /\ secret \in Secret /\ deploy \in Deploy /\ job \in Job
    BY DEF TypeOK, PassType
  <1>4. /\ secret' \in {secret, NoSecret} /\ deploy' \in {deploy, NoDeploy} /\ job' \in {job, NoJob}
        /\ \/ /\ pass' = [pass EXCEPT !.pc = "removeFinalizer"]
              /\ secret' = NoSecret /\ deploy' = NoDeploy /\ job' = NoJob
           \/ Finish(FALSE)
    <2>1. PICK upTo \in 0..3 :
             /\ secret' = IF upTo >= 1 THEN NoSecret ELSE secret
             /\ deploy' = IF upTo >= 2 THEN NoDeploy ELSE deploy
             /\ job' = IF upTo = 3 THEN NoJob ELSE job
             /\ \/ upTo = 3 /\ Goto("removeFinalizer") /\ NoFault
                \/ upTo < 3 /\ Fail /\ Fault
      BY DEF DeleteNative
    <2>2. secret' \in {secret, NoSecret} /\ deploy' \in {deploy, NoDeploy} /\ job' \in {job, NoJob}
      BY <2>1
    <2>3. upTo = 3 => secret' = NoSecret /\ deploy' = NoDeploy /\ job' = NoJob
      BY <2>1
    <2> QED
      BY <2>1, <2>2, <2>3 DEF Goto, Fail
  <1>5. /\ PassType' /\ pass'.pc \in {"removeFinalizer", "status"}
        /\ pass'.pc = "status" => ~pass'.ready
        /\ pass'.pc = "removeFinalizer" => secret' = NoSecret /\ deploy' = NoDeploy /\ job' = NoJob
    <2>1. CASE /\ pass' = [pass EXCEPT !.pc = "removeFinalizer"]
               /\ secret' = NoSecret /\ deploy' = NoDeploy /\ job' = NoJob
      BY <1>3, <2>1 DEF PassType, Phases
    <2>2. CASE Finish(FALSE)
      BY <1>3, <2>2, FinishFacts
    <2> QED
      BY <1>4, <2>1, <2>2
  <1>6. TypeOK'
    BY <1>1, <1>2, <1>3, <1>4, <1>5, Defaults DEF TypeOK, PassType
  <1>7. NoLeftovers' /\ HttpMode'
    <2>1. deploy'.http => deploy'.nodeEnv
      BY <1>4 DEF HttpMode, NoDeploy
    <2> QED
      BY <1>4, <1>5, <2>1 DEF NoLeftovers, HttpMode, Working
  <1>8. Guarded'
    <2>1. api.exists /\ api.finalizer
      BY <1>1 DEF Guarded
    <2>2. pass'.pc = "removeFinalizer" => ~Released'
      BY <1>5 DEF Released, NoSecret, NoDeploy, NoJob
    <2> QED
      BY <1>1, <1>5, <2>1, <2>2 DEF Guarded, Working
  <1>9. Paid'
    <2>1. ~Alive /\ ~Alive' /\ pass.pc \notin {"apply", "certs"} /\ pass'.pc \notin {"apply", "certs"}
      BY <1>1, <1>5 DEF Alive
    <2>2. Due = 0 /\ Due' = 0
      BY <2>1 DEF Due, OneIf
    <2> QED
      BY <1>1, <2>2 DEF Paid
  <1>10. MagmalteFollowsSpec'
    BY <1>5, NotSettled
  <1> QED
    BY <1>6, <1>7, <1>8, <1>9, <1>10

(* The finalizer goes last, and the object with it. *)
LEMMA RemoveFinalizerStep == ASSUME IInv, RemoveFinalizer PROVE IInv'
  <1> USE DEF IInv
  <1>1. /\ UNCHANGED <<secret, deploy, job, cache, ops, certs>> /\ pass.pc = "removeFinalizer" /\ pass' = Idle
        /\ wake' \in BOOLEAN /\ (api' = NoObject \/ (wake' /\ api' = api))
    BY DEF RemoveFinalizer, Return, clusterVars
  <1>2. faults' \in 0..MaxFaults
    BY FaultsBounded DEF RemoveFinalizer, TypeOK
  <1>3. api' \in Object /\ ~Released
    BY <1>1, Defaults DEF TypeOK, Guarded
  <1>4. TypeOK'
    BY <1>1, <1>2, <1>3, Defaults DEF TypeOK
  <1>5. Guarded'
    BY <1>1, <1>3, Defaults DEF Guarded, Working, Released
  <1>6. HttpMode' /\ NoLeftovers'
    BY <1>1, Defaults DEF HttpMode, NoLeftovers, Working
  <1>7. Paid'
    <2>1. Alive' => Alive /\ api'.spec = api.spec
      BY <1>1, Defaults DEF Alive
    <2> QED
      BY <1>1, <2>1, Defaults, PaidKept
  <1>8. MagmalteFollowsSpec'
    <2>1. CASE api' = NoObject
      BY <2>1, Defaults DEF MagmalteFollowsSpec, Settled, Alive
    <2>2. CASE wake'
      BY <2>2, NotSettled
    <2> QED
      BY <1>1, <2>1, <2>2
  <1> QED
    BY <1>4, <1>5, <1>6, <1>7, <1>8

-----------------------------------------------------------------------------
(* The rest of the system *)

(* A user's operation pays for the certificates its domain may need. *)
LEMMA UserPays ==
    ASSUME TypeOK, Paid, UNCHANGED <<secret, certs>>, ops' = ops + 1,
           pass'.pc = pass.pc, pass'.spec = pass.spec,
           pass.pc \in {"apply", "certs"} => api.exists
    PROVE  Paid'
  <1>1. certs \in Int /\ ops \in Int
    BY BoundsAssumption DEF TypeOK, Cert
  <1>2. Due \in Int /\ Due' \in Int /\ Due' <= Due + 1
    <2>1. CASE pass.pc \in {"apply", "certs"}
      <3>1. Due' = OneIf(pass.spec.domain # secret.domain)
                      + OneIf(Alive' /\ api'.spec.domain # pass.spec.domain)
        BY <2>1 DEF Due
      <3>2. Due = OneIf(pass.spec.domain # secret.domain)
                     + OneIf(Alive /\ api.spec.domain # pass.spec.domain)
        BY <2>1 DEF Due
      <3> QED
        BY <3>1, <3>2 DEF OneIf
    <2>2. CASE pass.pc \notin {"apply", "certs"}
      <3>1. /\ Due' = OneIf(Alive' /\ api'.spec.domain # secret.domain)
            /\ Due = OneIf(Alive /\ api.spec.domain # secret.domain)
        BY <2>2 DEF Due
      <3> QED
        BY <3>1 DEF OneIf
    <2> QED
      BY <2>1, <2>2
  <1>3. \A c, o, d, e \in Int : c + d <= o + 1 /\ e <= d + 1 => c + e <= (o + 1) + 1
    OBVIOUS
  <1>4. certs + Due <= ops + 1
    BY DEF Paid
  <1>5. certs + Due' <= (ops + 1) + 1
    BY <1>1, <1>2, <1>3, <1>4
  <1> QED
    BY <1>5 DEF Paid

(* The user creates, edits or deletes the object; the pass that is running *)
(* is no longer current.                                                   *)
LEMMA UserKeeps == ASSUME IInv, UserStep PROVE IInv'
  <1> USE DEF IInv
  <1>1. /\ UNCHANGED <<secret, deploy, job, cache, certs, faults>> /\ wake' = TRUE
        /\ pass' = [pass EXCEPT !.current = FALSE]
        /\ ops < MaxOps /\ ops' = ops + 1
    BY DEF UserStep, clusterVars
  <1>2. api \in Object /\ PassType /\ ops' \in 0..MaxOps
    BY <1>1, BoundsAssumption DEF TypeOK, PassType
  <1>3. /\ PassType' /\ pass'.pc = pass.pc /\ pass'.spec = pass.spec /\ ~pass'.current
    BY <1>1, <1>2 DEF PassType
  <1>4. \/ ~api.exists /\ \E s \in Specs : api' = [NoObject EXCEPT !.exists = TRUE, !.spec = s]
        \/ api.exists /\ ~api.deleting /\ \E s \in Specs : api' = [api EXCEPT !.spec = s, !.observed = FALSE]
        \/ api.exists /\ ~api.deleting /\ api.finalizer
              /\ api' = [api EXCEPT !.deleting = TRUE, !.observed = FALSE]
        \/ ~api.finalizer /\ ~api.deleting /\ api' = NoObject
    BY DEF UserStep
  <1>5. /\ api' \in Object
        /\ api.exists /\ api.finalizer => api'.exists /\ api'.finalizer
        /\ api'.deleting => api'.exists /\ api'.finalizer
        /\ api.deleting => api'.deleting
    <2>1. CASE ~api.exists /\ \E s \in Specs : api' = [NoObject EXCEPT !.exists = TRUE, !.spec = s]
      <3>1. PICK s \in Specs : api' = [NoObject EXCEPT !.exists = TRUE, !.spec = s]
        BY <2>1
      <3>2. api' \in Object /\ api'.deleting = NoObject.deleting
        BY <3>1, Defaults DEF Object
      <3>3. ~api.deleting
        BY <2>1 DEF Guarded
      <3> QED
        BY <2>1, <3>2, <3>3, Defaults
    <2>2. CASE api.exists /\ ~api.deleting /\ \E s \in Specs : api' = [api EXCEPT !.spec = s, !.observed = FALSE]
      <3>1. PICK s \in Specs : api' = [api EXCEPT !.spec = s, !.observed = FALSE]
        BY <2>2
      <3> QED
        BY <1>2, <2>2, <3>1 DEF Object
    <2>3. CASE api.exists /\ ~api.deleting /\ api.finalizer
                 /\ api' = [api EXCEPT !.deleting = TRUE, !.observed = FALSE]
      BY <1>2, <2>3 DEF Object
    <2>4. CASE ~api.finalizer /\ ~api.deleting /\ api' = NoObject
      BY <2>4, Defaults
    <2> QED
      BY <1>4, <2>1, <2>2, <2>3, <2>4
  <1>6. TypeOK'
    BY <1>1, <1>2, <1>3, <1>5 DEF TypeOK, PassType
  <1>7. Guarded'
    BY <1>1, <1>3, <1>5 DEF Guarded, Released
  <1>8. HttpMode' /\ NoLeftovers'
    BY <1>1, <1>3 DEF HttpMode, NoLeftovers
  <1>9. Paid'
    BY <1>1, <1>3, UserPays DEF Guarded, Working
  <1>10. MagmalteFollowsSpec'
    BY <1>1, NotSettled
  <1> QED
    BY <1>6, <1>7, <1>8, <1>9, <1>10

(* An informer catches up, which only the next steps of a pass notice. *)
LEMMA CatchUpStep == ASSUME IInv, NEW i \in Informers, CatchUp(i) PROVE IInv'
  <1> USE DEF IInv
  <1>1. UNCHANGED <<api, secret, deploy, job, pass, wake, ops, certs, faults>>
    BY DEF CatchUp, clusterVars
  <1>2. CacheType'
    <2>1. CacheType /\ secret \in Secret /\ deploy \in Deploy /\ Seen(job) \in {Seen(j) : j \in Job}
      BY DEF TypeOK, CacheType
    <2>2. \/ cache' = [cache EXCEPT !.secret = secret]
          \/ cache' = [cache EXCEPT !.deploy = deploy]
          \/ cache' = [cache EXCEPT !.job = Seen(job)]
      BY DEF CatchUp, Informers
    <2> QED
      BY <2>1, <2>2 DEF CacheType
  <1>3. TypeOK'
    BY <1>1, <1>2 DEF TypeOK, CacheType
  <1>4. Guarded' /\ HttpMode' /\ NoLeftovers'
    BY <1>1 DEF Guarded, HttpMode, NoLeftovers, Released
  <1>5. Paid'
    BY <1>1, PaidKeptObject
  <1>6. MagmalteFollowsSpec'
    BY <1>1 DEF MagmalteFollowsSpec, Settled, Alive
  <1> QED
    BY <1>3, <1>4, <1>5, <1>6

(* The bootstrap Job ends. *)
LEMMA EndBootstrapStep == ASSUME IInv, EndBootstrap PROVE IInv'
  <1> USE DEF IInv
  <1>1. /\ UNCHANGED <<api, secret, deploy, cache, pass, wake, ops, certs>> /\ job.state = "active"
        /\ \E st \in {"succeeded", "failed"} : job' = [job EXCEPT !.state = st]
    BY DEF EndBootstrap
  <1>2. faults' \in 0..MaxFaults
    BY FaultsBounded DEF EndBootstrap, TypeOK
  <1>3. job' \in Job /\ job'.state # "none"
    BY <1>1 DEF TypeOK, Job, NoJob
  <1>4. TypeOK'
    BY <1>1, <1>2, <1>3 DEF TypeOK
  <1>5. Guarded' /\ HttpMode' /\ NoLeftovers'
    BY <1>1, <1>3 DEF Guarded, HttpMode, NoLeftovers, Released
  <1>6. Paid'
    BY <1>1, PaidKeptObject
  <1>7. MagmalteFollowsSpec'
    BY <1>1 DEF MagmalteFollowsSpec, Settled, Alive
  <1> QED
    BY <1>4, <1>5, <1>6, <1>7

(* The resync queues the object. *)
LEMMA ResyncStep == ASSUME IInv, Resync PROVE IInv'
  <1> USE DEF IInv
  <1>1. UNCHANGED <<api, secret, deploy, job, cache, pass, ops, certs, faults>> /\ wake' = TRUE
    BY DEF Resync, clusterVars
  <1>2. TypeOK'
    BY <1>1 DEF TypeOK
  <1>3. Guarded' /\ HttpMode' /\ NoLeftovers'
    BY <1>1 DEF Guarded, HttpMode, NoLeftovers, Released
  <1>4. Paid' /\ MagmalteFollowsSpec'
    BY <1>1, PaidKeptObject, NotSettled
  <1> QED
    BY <1>2, <1>3, <1>4

(* A restarted manager has fresh caches and no pass. *)
LEMMA CrashStep == ASSUME IInv, Crash PROVE IInv'
  <1> USE DEF IInv
  <1>1. /\ UNCHANGED <<api, secret, deploy, job, ops, certs>> /\ pass' = Idle /\ wake' = api.exists
        /\ cache' = [secret |-> secret, deploy |-> deploy, job |-> Seen(job)]
    BY DEF Crash, clusterVars
  <1>2. faults' \in 0..MaxFaults
    BY FaultsBounded DEF Crash, TypeOK
  <1>3. CacheType' /\ wake' \in BOOLEAN
    BY <1>1 DEF TypeOK, CacheType, Object
  <1>4. TypeOK'
    BY <1>1, <1>2, <1>3, Defaults DEF TypeOK, CacheType
  <1>5. Guarded' /\ HttpMode' /\ NoLeftovers'
    BY <1>1, Defaults DEF Guarded, HttpMode, NoLeftovers, Working, Released
  <1>6. Paid'
    BY <1>1, Defaults, PaidKeptObject
  <1>7. MagmalteFollowsSpec'
    BY <1>1 DEF MagmalteFollowsSpec, Settled, Alive
  <1> QED
    BY <1>4, <1>5, <1>6, <1>7

-----------------------------------------------------------------------------
(* The theorems *)

(* Every step keeps the inductive invariant. *)
LEMMA NextKeeps == IInv /\ [Next]_vars => IInv'
  <1> SUFFICES ASSUME IInv, [Next]_vars PROVE IInv'
    OBVIOUS
  <1>1. CASE Get
    BY <1>1, GetStep
  <1>2. CASE PassStep
    BY <1>2, AddFinalizerStep, ApplyStep, ReconcileCertsStep, RolloutStep, RerunBootstrapStep,
       PatchMagmalteStep, UpdateStatusStep, DeleteNativeStep, RemoveFinalizerStep DEF PassStep
  <1>3. CASE UserStep \/ EndBootstrap \/ Resync \/ Crash
    BY <1>3, UserKeeps, EndBootstrapStep, ResyncStep, CrashStep
  <1>4. CASE \E i \in Informers : CatchUp(i)
    BY <1>4, CatchUpStep
  <1>5. CASE UNCHANGED vars
    <2>1. UNCHANGED <<api, secret, deploy, job, cache, pass, wake, ops, certs, faults>>
      BY <1>5 DEF vars, clusterVars
    <2>2. TypeOK' /\ Guarded' /\ HttpMode' /\ NoLeftovers'
      BY <2>1 DEF IInv, TypeOK, Guarded, HttpMode, NoLeftovers, Released
    <2>3. Paid' /\ MagmalteFollowsSpec'
      BY <2>1, PaidKeptObject DEF IInv, MagmalteFollowsSpec, Settled, Alive
    <2> QED
      BY <2>2, <2>3 DEF IInv
  <1> QED
    BY <1>1, <1>2, <1>3, <1>4, <1>5 DEF Next

(* The inductive invariant holds in every reachable state. *)
LEMMA Invariance == Spec => []IInv
  BY InitHolds, NextKeeps, PTL DEF Spec

(* Every value the controller keeps stays in range.  For the certificates  *)
(* that says: no interleaving of edits, stale caches, failed writes and    *)
(* restarts makes the controller generate more sets of them than the user  *)
(* has asked for.                                                          *)
THEOREM Orc8rTypeCorrect == Spec => []TypeOK
  <1>1. IInv => TypeOK
    BY DEF IInv
  <1> QED
    BY <1>1, Invariance, PTL

(* Each generation of certificates is charged to one creation or edit of   *)
(* the object: a retry after a failed or conflicting write, or a restart,  *)
(* never generates a second set for the same request.                      *)
THEOREM CertsBoundedByRequests == Spec => [](certs <= ops + 1)
  <1>1. IInv => certs <= ops + 1
    <2> SUFFICES ASSUME IInv PROVE certs <= ops + 1
      OBVIOUS
    <2>1. certs \in Int /\ ops \in Int /\ Due \in Int /\ Due >= 0
      BY BoundsAssumption DEF IInv, TypeOK, Cert, Due, OneIf
    <2>2. certs + Due <= ops + 1
      BY DEF IInv, Paid
    <2>3. \A c, o, d \in Int : c + d <= o + 1 /\ d >= 0 => c <= o + 1
      OBVIOUS
    <2> QED
      BY <2>1, <2>2, <2>3
  <1> QED
    BY <1>1, Invariance, PTL

(* Nothing of the release is left once the object is gone. *)
THEOREM ReleaseDoesNotOutliveObject == Spec => []NoOrphans
  <1>1. IInv => NoOrphans
    BY DEF IInv, Guarded, Released, NoOrphans
  <1> QED
    BY <1>1, Invariance, PTL

(* When the controller has come to rest with Ready=True, magmalte has the  *)
(* command the spec asks for, and in the HTTP mode the environment too.    *)
THEOREM MagmalteModeCorrect == Spec => []MagmalteFollowsSpec
  <1>1. IInv => MagmalteFollowsSpec
    BY DEF IInv
  <1> QED
    BY <1>1, Invariance, PTL

(* What a step may do to the Secret that holds certificates: nothing,      *)
(* remove it, or replace them by ones for another domain.                  *)
LEMMA SecretSteps ==
    ASSUME IInv, [Next]_vars
    PROVE  secret.cert > 0 /\ secret'.exists /\ secret' # secret
              => secret'.cert > 0 /\ secret'.domain # secret.domain
  <1>1. CASE Apply
    <2>1. secret' = secret \/ secret' = AppliedSecret
      <3>1. PICK upTo \in 0..3 : secret' = IF upTo >= 1 THEN AppliedSecret ELSE secret
        BY <1>1 DEF Apply
      <3> QED
        BY <3>1
    <2>2. secret' = secret \/ secret = NoSecret
      BY <2>1 DEF AppliedSecret, IInv, NoLeftovers
    <2> QED
      BY <2>2 DEF NoSecret
  <1>2. CASE ReconcileCerts
    <2>1. CASE UNCHANGED <<secret, certs>>
      BY <2>1
    <2>2. CASE ~ UNCHANGED <<secret, certs>>
      <3>1. /\ secret' = [exists |-> TRUE, domain |-> pass.spec.domain, cert |-> certs + 1]
            /\ secret.domain # pass.spec.domain
        BY <1>2, <2>2, Generation
      <3>2. certs \in Int /\ certs >= 0
        BY BoundsAssumption DEF IInv, TypeOK, Cert
      <3> QED
        BY <3>1, <3>2
    <2> QED
      BY <2>1, <2>2
  <1>3. CASE DeleteNative
    <2>1. secret' = secret \/ secret' = NoSecret
      <3>1. PICK upTo \in 0..3 : secret' = IF upTo >= 1 THEN NoSecret ELSE secret
        BY <1>3 DEF DeleteNative
      <3> QED
        BY <3>1
    <2> QED
      BY <2>1 DEF NoSecret
  <1>4. Apply \/ ReconcileCerts \/ DeleteNative \/ UNCHANGED secret
    <2>1. Get \/ AddFinalizer \/ Rollout \/ RerunBootstrap \/ PatchMagmalte => UNCHANGED secret
      BY DEF Get, AddFinalizer, Rollout, RerunBootstrap, PatchMagmalte, clusterVars
    <2>2. UpdateStatus \/ RemoveFinalizer \/ UserStep \/ EndBootstrap => UNCHANGED secret
      BY DEF UpdateStatus, RemoveFinalizer, UserStep, EndBootstrap, clusterVars
    <2>3. Resync \/ Crash \/ UNCHANGED vars \/ (\E i \in Informers : CatchUp(i)) => UNCHANGED secret
      BY DEF Resync, Crash, CatchUp, vars, clusterVars
    <2> QED
      BY <2>1, <2>2, <2>3 DEF Next, PassStep
  <1> QED
    BY <1>1, <1>2, <1>3, <1>4

(* Generated certificates give way only to ones for another domain,        *)
(* whatever copy of the Secret the pass has in its cache.                  *)
THEOREM CertsAreReused == Spec => CertsReused
  <1> DEFINE Replaced == secret.cert > 0 /\ secret'.exists /\ secret' # secret
                            => secret'.cert > 0 /\ secret'.domain # secret.domain
  <1>1. IInv /\ [Next]_vars => [Replaced]_vars
    BY SecretSteps
  <1> QED
    BY <1>1, Invariance, PTL DEF Spec, CertsReused
=============================================================================
