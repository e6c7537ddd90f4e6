--------------------- MODULE GatewayRegistrationProofs ---------------------
(***************************************************************************)
(* Proofs about GatewayRegistration, for every set of objects, names,      *)
(* gateways, keys and specs: the type invariant, and that the controller   *)
(* reports a registration only after a script confirmed it.                *)
(***************************************************************************)
EXTENDS GatewayRegistration, TLAPS

(* The parts of the type invariant that a worker step, a script or a user  *)
(* can disturb separately.                                                 *)
ObjectsOK == crs \in [Agws -> Cr] /\ status \in [Agws -> Status] /\ queued \subseteq Agws
PassOK    == pass \in Pass
SecretsOK ==
    /\ secrets \in [{SecretOf[a] : a \in Agws} -> Secret]
    /\ secretCache \in [{SecretOf[a] : a \in Agws} -> Secret]
    /\ used \subseteq Keys
JobsOK ==
    /\ jobs \in [JobIds -> Job]
    /\ jobCache \in [JobIds -> [state : JobStates, request : Request]]
    /\ orphans \subseteq [request : Request, step : Steps]
NmsOK ==
    /\ nms \in [Records -> Keys \cup {"none", "generic"}]
    /\ confirmed \subseteq Request
    /\ orc8r \in BOOLEAN
    /\ faults \in 0..MaxFaults

(* The type invariant is the conjunction of its parts. *)
LEMMA TypeParts == TypeOK <=> ObjectsOK /\ PassOK /\ SecretsOK /\ JobsOK /\ NmsOK
  BY DEF TypeOK, ObjectsOK, PassOK, SecretsOK, JobsOK, NmsOK

(* The same after a step. *)
LEMMA TypePartsNext ==
    ObjectsOK' /\ PassOK' /\ SecretsOK' /\ JobsOK' /\ NmsOK' => TypeOK'
  BY DEF TypeOK, ObjectsOK, PassOK, SecretsOK, JobsOK, NmsOK

(* The default values have the types of their variables. *)
LEMMA Defaults ==
    /\ NoCr \in Cr /\ NoCr.spec \in Specs
    /\ NoRequest \in Request
    /\ NoStatus \in Status /\ NoStatus.reg = NoRequest
    /\ NoSecret \in Secret
    /\ NoJob \in Job /\ NoJob.state = "none"
    /\ Idle \in Pass /\ Idle.step = "idle"
  <1>1. (CHOOSE s \in Specs : TRUE) \in Specs
    BY SpecsAssumption
  <1>2. (CHOOSE a \in Agws : TRUE) \in Agws
    BY NamesAssumption
  <1>3. NoCr \in Cr /\ NoCr.spec \in Specs
    BY <1>1 DEF NoCr, Cr
  <1>4. NoRequest \in Request
    <2>1. (CHOOSE n \in Networks : TRUE) \in Networks
      BY GatewaysAssumption
    <2> QED
      BY <2>1 DEF NoRequest, Request
  <1>5. NoStatus \in Status /\ NoStatus.reg = NoRequest
    BY <1>3, <1>4 DEF NoStatus, Status
  <1>6. NoSecret \in Secret
    BY DEF NoSecret, Secret
  <1>7. NoJob \in Job /\ NoJob.state = "none"
    BY <1>4 DEF NoJob, Job, JobStates, Steps
  <1>8. Idle \in Pass /\ Idle.step = "idle"
    BY <1>2, <1>3 DEF Idle, Begin, Pass
  <1> QED
    BY <1>3, <1>4, <1>5, <1>6, <1>7, <1>8

(* The end of a pass keeps the types and changes one object's status, to   *)
(* the registration the pass reports or not at all.                        *)
LEMMA EndPassFacts ==
    ASSUME NEW a \in Agws, NEW s \in Specs, NEW ready \in BOOLEAN, NEW reg \in Request,
           ObjectsOK, EndPass(a, s, ready, reg)
    PROVE  /\ pass' = Idle
           /\ status' \in [Agws -> Status]
           /\ queued' \subseteq Agws
           /\ \A b \in Agws : status'[b].reg \in {status[b].reg, reg}
  <1> DEFINE new == [spec |-> s, observed |-> TRUE, ready |-> ready, reg |-> reg]
  <1>1. new \in Status /\ new.reg = reg
    BY DEF Status
  <1>2. status' = status \/ status' = [status EXCEPT ![a] = new]
    BY DEF EndPass
  <1>3. status' \in [Agws -> Status]
    BY <1>1, <1>2 DEF ObjectsOK
  <1>4. \A b \in Agws : status'[b].reg \in {status[b].reg, reg}
    BY <1>1, <1>2 DEF ObjectsOK
  <1>5. queued' \subseteq Agws
    BY DEF EndPass, ObjectsOK
  <1> QED
    BY <1>3, <1>4, <1>5 DEF EndPass

(* Fields of well-typed values. *)
LEMMA Fields ==
    ASSUME TypeOK
    PROVE  /\ pass.agw \in Agws /\ pass.spec \in Specs /\ pass.key \in Keys \cup {"none"}
           /\ \A a \in Agws : crs[a].spec \in Specs /\ status[a].reg \in Request
           /\ \A s \in Specs : /\ s.net \in Networks /\ s.gw \in Gateways \cup {""}
                               /\ s.import \in Keys \cup {"none"}
                               /\ s.enabled \in BOOLEAN
           /\ \A j \in JobIds : jobs[j].request \in Request /\ jobs[j].step \in Steps
           /\ \A n \in {SecretOf[a] : a \in Agws} : secretCache[n].key \in Keys \cup {"none"}
  <1>1. pass.agw \in Agws /\ pass.spec \in Specs /\ pass.key \in Keys \cup {"none"}
    BY DEF TypeOK, Pass
  <1>2. \A a \in Agws : crs[a].spec \in Specs /\ status[a].reg \in Request
    BY DEF TypeOK, Cr, Status
  <1>3. \A s \in Specs : /\ s.net \in Networks /\ s.gw \in Gateways \cup {""}
                         /\ s.import \in Keys \cup {"none"}
                         /\ s.enabled \in BOOLEAN
    BY SpecsAssumption DEF SpecType
  <1>4. \A j \in JobIds : jobs[j].request \in Request /\ jobs[j].step \in Steps
    BY DEF TypeOK, Job
  <1>5. \A n \in {SecretOf[a] : a \in Agws} : secretCache[n].key \in Keys \cup {"none"}
    BY DEF TypeOK, Secret
  <1> QED
    BY <1>1, <1>2, <1>3, <1>4, <1>5

(* A request is made of a spec's network and gateway id and a key. *)
LEMMA RequestType ==
    ASSUME NEW s \in Specs, NEW k \in Keys \cup {"none"}, TypeOK
    PROVE  requestOf(s, k) \in Request
  BY Fields DEF requestOf, Request

(* A record is what its fields are. *)
LEMMA SameFields ==
    ASSUME NEW N, NEW G, NEW K, NEW q \in [net : N, gw : G, key : K],
           NEW r \in [net : N, gw : G, key : K], q.net = r.net, q.gw = r.gw, q.key = r.key
    PROVE  q = r
  OBVIOUS

(* And so is a request. *)
LEMMA SameRequest ==
    ASSUME NEW q \in Request, NEW r \in Request, q.net = r.net, q.gw = r.gw, q.key = r.key
    PROVE  q = r
  BY SameFields DEF Request

(* The names of an object's two Jobs. *)
LEMMA JobNames ==
    ASSUME NEW a \in Agws
    PROVE  /\ registerJob(a) \in JobIds /\ registerJob(a)[1] = "register"
           /\ deleteJob(a) \in JobIds /\ deleteJob(a)[1] = "delete"
  BY DEF registerJob, deleteJob, JobIds

-----------------------------------------------------------------------------
(***************************************************************************)
(* The inductive invariant.  What the controller may report is what its    *)
(* cached copy of a Job says, so the copy, and the Job it is a copy of,    *)
(* must already be honest: a registration Job succeeds only when a script  *)
(* with its request confirmed the gateway.  What is reported then has the  *)
(* payload of a confirmed request, though not always its network.          *)
(***************************************************************************)
JobsHonest ==
    \A j \in JobIds : j[1] = "register" =>
        /\ jobs[j].state = "succeeded" => jobs[j].request \in confirmed
        /\ jobCache[j].state = "succeeded" => jobCache[j].request \in confirmed

Backed == {r \in Request : \E c \in confirmed : payloadHash(c) = payloadHash(r)}

IInv == TypeOK /\ JobsHonest /\ RegisteredWasConfirmed

(* Reports stay backed while what was confirmed stays confirmed and every  *)
(* new report is withdrawn or backed.                                      *)
LEMMA ReportsBacked ==
    ASSUME RegisteredWasConfirmed, confirmed \subseteq confirmed',
           \A b \in Agws : status'[b].reg \in {status[b].reg, NoRequest} \cup Backed
    PROVE  RegisteredWasConfirmed'
  <1> SUFFICES ASSUME NEW b \in Agws, status'[b].reg # NoRequest
               PROVE  \E c \in confirmed : payloadHash(c) = payloadHash(status'[b].reg)
    BY DEF RegisteredWasConfirmed, payloadHash
  <1>1. CASE status'[b].reg = status[b].reg
    BY <1>1 DEF RegisteredWasConfirmed
  <1>2. CASE status'[b].reg \in Backed
    BY <1>2 DEF Backed
  <1> QED
    BY <1>1, <1>2

(* A report that stands is backed. *)
LEMMA StandingReport ==
    ASSUME TypeOK, RegisteredWasConfirmed, NEW a \in Agws
    PROVE  status[a].reg \in {NoRequest} \cup Backed
  BY Fields DEF RegisteredWasConfirmed, Backed

(* Jobs that are not touched stay honest. *)
LEMMA JobsStayHonest ==
    ASSUME JobsHonest, UNCHANGED <<jobs, jobCache>>, confirmed \subseteq confirmed'
    PROVE  JobsHonest'
  BY DEF JobsHonest

(* No fault counter leaves its bound. *)
LEMMA FaultsBounded ==
    ASSUME NmsOK, Fault \/ NoFault
    PROVE  faults' \in 0..MaxFaults
  BY BoundsAssumption DEF NmsOK, Fault, NoFault

-----------------------------------------------------------------------------
(* One lemma per action *)

(* The initial states have the types and nothing to report. *)
LEMMA InitHolds == Init => IInv
  <1> SUFFICES ASSUME Init PROVE IInv
    OBVIOUS
  <1>1. ObjectsOK
    BY Defaults DEF Init, ObjectsOK
  <1>2. PassOK
    BY Defaults DEF Init, PassOK
  <1>3. \A k \in Found \ {"generic"} : [NoSecret EXCEPT !.key = k] \in Secret
    BY FoundAssumption DEF NoSecret, Secret
  <1>4. SecretsOK
    BY <1>3 DEF Init, SecretsOK
  <1>5. JobsOK
    BY Defaults DEF Init, JobsOK, Seen, Job
  <1>6. NmsOK
    <2>1. nms \in [Records -> Keys \cup {"none", "generic"}]
      BY FoundAssumption DEF Init
    <2>2. faults \in 0..MaxFaults
      BY BoundsAssumption DEF Init
    <2> QED
      BY <2>1, <2>2 DEF Init, NmsOK
  <1>7. JobsHonest
    BY Defaults DEF Init, JobsHonest, Seen
  <1>8. RegisteredWasConfirmed
    BY Defaults DEF Init, RegisteredWasConfirmed
  <1> QED
    BY <1>1, <1>2, <1>4, <1>5, <1>6, <1>7, <1>8, TypeParts DEF IInv

(* CreateOrUpdate on the identity Secret, or an early end of the pass. *)
LEMMA IdentityStep ==
    ASSUME IInv, NEW a \in Agws, ReconcileIdentity(a)
    PROVE  IInv'
  <1> USE DEF IInv
  <1>1. ObjectsOK /\ PassOK /\ SecretsOK /\ JobsOK /\ NmsOK
    BY TypeParts
  <1>2. crs[a].spec \in Specs /\ status[a].reg \in Request /\ SecretOf[a] \in {SecretOf[b] : b \in Agws}
    BY Fields
  <1>3. \/ /\ pass' = Begin("read", a, crs[a].spec)
           /\ queued' \subseteq queued /\ UNCHANGED status
        \/ EndPass(a, crs[a].spec, FALSE, status[a].reg)
    BY DEF ReconcileIdentity, IdentityWritten, IdentityFailed
  <1>4. /\ status' \in [Agws -> Status] /\ queued' \subseteq Agws /\ pass' \in Pass
        /\ \A b \in Agws : status'[b].reg \in {status[b].reg, NoRequest} \cup Backed
    <2>1. CASE pass' = Begin("read", a, crs[a].spec) /\ queued' \subseteq queued /\ UNCHANGED status
      BY <1>1, <1>2, <2>1 DEF ObjectsOK, Begin, Pass
    <2>2. CASE EndPass(a, crs[a].spec, FALSE, status[a].reg)
      <3>1. /\ pass' = Idle /\ status' \in [Agws -> Status] /\ queued' \subseteq Agws
            /\ \A b \in Agws : status'[b].reg \in {status[b].reg, status[a].reg}
        BY <1>1, <1>2, <2>2, EndPassFacts
      <3>2. status[a].reg \in {NoRequest} \cup Backed
        BY StandingReport
      <3> QED
        BY <3>1, <3>2, Defaults
    <2> QED
      BY <1>3, <2>1, <2>2
  <1>5. ObjectsOK' /\ PassOK'
    BY <1>1, <1>4 DEF ReconcileIdentity, IdentityWritten, IdentityFailed, ObjectsOK, PassOK
  <1>6. \A k \in Keys : [key |-> k, owner |-> a, dangling |-> FALSE] \in Secret
    BY DEF Secret
  <1>7. desiredAGWPrivateKey(crs[a].spec, secretCache[SecretOf[a]].key) \subseteq Keys
    BY <1>2, Fields DEF desiredAGWPrivateKey
  <1>8. \/ UNCHANGED <<secrets, used>>
        \/ \E k \in Keys : /\ secrets' = [secrets EXCEPT ![SecretOf[a]] =
                                              [key |-> k, owner |-> a, dangling |-> FALSE]]
                            /\ used' = used \cup {k}
    BY <1>7 DEF ReconcileIdentity, IdentityWritten, IdentityFailed
  <1>9. SecretsOK'
    BY <1>1, <1>6, <1>8 DEF ReconcileIdentity, IdentityWritten, IdentityFailed, SecretsOK
  <1>10. JobsOK'
    BY <1>1 DEF ReconcileIdentity, IdentityWritten, IdentityFailed, JobsOK, jobVars
  <1>11. NmsOK'
    <2>1. Fault \/ NoFault
      BY DEF ReconcileIdentity, IdentityWritten, IdentityFailed
    <2> QED
      BY <1>1, <2>1, FaultsBounded DEF ReconcileIdentity, IdentityWritten, IdentityFailed, NmsOK, nmsVars
  <1>12. JobsHonest'
    BY JobsStayHonest DEF ReconcileIdentity, IdentityWritten, IdentityFailed, jobVars, nmsVars
  <1>13. RegisteredWasConfirmed'
    BY <1>4, ReportsBacked DEF ReconcileIdentity, IdentityWritten, IdentityFailed, nmsVars
  <1> QED
    BY <1>5, <1>9, <1>10, <1>11, <1>12, <1>13, TypePartsNext

(* The second read of the Secret. *)
LEMMA ReadStep ==
    ASSUME IInv, ReadIdentity
    PROVE  IInv'
  <1> USE DEF IInv
  <1>1. ObjectsOK /\ PassOK /\ SecretsOK /\ JobsOK /\ NmsOK
    BY TypeParts
  <1>2. pass.agw \in Agws /\ pass.spec \in Specs /\ status[pass.agw].reg \in Request
    BY Fields
  <1>3. secretCache[SecretOf[pass.agw]].key \in Keys \cup {"none"}
    BY <1>2, Fields
  <1>4. /\ status' \in [Agws -> Status] /\ queued' \subseteq Agws /\ pass' \in Pass
        /\ \A b \in Agws : status'[b].reg \in {status[b].reg, NoRequest} \cup Backed
    <2>1. CASE UNCHANGED <<status, queued>>
              /\ pass' = [pass EXCEPT !.step = "register", !.key = secretCache[SecretOf[pass.agw]].key]
      BY <1>1, <1>3, <2>1 DEF ObjectsOK, PassOK, Pass
    <2>2. CASE EndPass(pass.agw, pass.spec, FALSE, status[pass.agw].reg)
      <3>1. /\ pass' = Idle /\ status' \in [Agws -> Status] /\ queued' \subseteq Agws
            /\ \A b \in Agws : status'[b].reg \in {status[b].reg, status[pass.agw].reg}
        BY <1>1, <1>2, <2>2, EndPassFacts
      <3>2. status[pass.agw].reg \in {NoRequest} \cup Backed
        BY <1>2, StandingReport
      <3> QED
        BY <3>1, <3>2, Defaults
    <2> QED
      BY <2>1, <2>2 DEF ReadIdentity
  <1>5. ObjectsOK' /\ PassOK'
    BY <1>1, <1>4 DEF ReadIdentity, ObjectsOK, PassOK
  <1>6. SecretsOK' /\ JobsOK' /\ NmsOK'
    BY <1>1 DEF ReadIdentity, SecretsOK, JobsOK, NmsOK, secretVars, jobVars, nmsVars
  <1>7. JobsHonest'
    BY JobsStayHonest DEF ReadIdentity, jobVars, nmsVars
  <1>8. RegisteredWasConfirmed'
    BY <1>4, ReportsBacked DEF ReadIdentity, nmsVars
  <1> QED
    BY <1>5, <1>6, <1>7, <1>8, TypePartsNext

(* Creating a Job, if its name is free, or deleting one keeps the types    *)
(* and the honesty of all Jobs: a new Job has not succeeded.               *)
LEMMA JobWrites ==
    ASSUME JobsOK, JobsHonest, NEW j \in JobIds, NEW p \in Request,
           DeleteJob(j) \/ CreateJob(j, p) \/ UNCHANGED <<jobs, orphans>>,
           UNCHANGED <<jobCache, confirmed>>
    PROVE  JobsOK' /\ JobsHonest'
  <1>1. NewJob(j, p) \in Job /\ NewJob(j, p).state = "running"
    BY DEF NewJob, FirstStep, Job, JobStates, Steps
  <1>2. \/ jobs' = jobs
        \/ jobs' = [jobs EXCEPT ![j] = NoJob]
        \/ jobs' = [jobs EXCEPT ![j] = NewJob(j, p)]
    BY DEF DeleteJob, CreateJob
  <1>3. jobs' \in [JobIds -> Job]
    BY <1>1, <1>2, Defaults DEF JobsOK
  <1>4. [request |-> jobs[j].request, step |-> jobs[j].step] \in [request : Request, step : Steps]
    BY DEF JobsOK, Job
  <1>5. orphans' \subseteq [request : Request, step : Steps]
    BY <1>4 DEF DeleteJob, CreateJob, JobsOK
  <1>6. \A i \in JobIds : jobs'[i].state = "succeeded" => jobs'[i] = jobs[i]
    BY <1>1, <1>2, Defaults DEF JobsOK
  <1> QED
    BY <1>3, <1>5, <1>6 DEF JobsOK, JobsHonest

(* The registration handler reports what the cached Job says. *)
LEMMA RegisterStep ==
    ASSUME IInv, Register
    PROVE  IInv'
  <1> USE DEF IInv
  <1> DEFINE j == registerJob(pass.agw)
             p == requestOf(pass.spec, pass.key)
             Report(registered) == EndPass(pass.agw, pass.spec, registered \/ ~pass.spec.enabled,
                                           IF registered THEN p ELSE NoRequest)
  <1>1. ObjectsOK /\ PassOK /\ SecretsOK /\ JobsOK /\ NmsOK
    BY TypeParts
  <1>2. pass.agw \in Agws /\ pass.spec \in Specs /\ pass.spec.enabled \in BOOLEAN
    BY Fields
  <1>3. p \in Request /\ j \in JobIds /\ j[1] = "register"
    BY <1>2, Fields, RequestType, JobNames
  <1>4. DeleteJob(j) \/ CreateJob(j, p) \/ UNCHANGED <<jobs, orphans>>
    BY DEF Register
  <1>5. JobsOK' /\ JobsHonest'
    BY <1>1, <1>3, <1>4, JobWrites DEF Register, nmsVars
  <1>6. \E registered \in BOOLEAN :
            Report(registered) /\ (registered => p \in Backed)
    <2>1. CASE Report(FALSE)
      BY <2>1
    <2>2. CASE Current(jobCache[j], p) /\ Report(jobCache[j].state = "succeeded")
      BY <1>3, <2>2 DEF Current, JobsHonest, Backed
    <2> QED
      BY <2>1, <2>2 DEF Register
  <1>7. PICK registered \in BOOLEAN : Report(registered) /\ (registered => p \in Backed)
    BY <1>6
  <1>8. /\ pass' = Idle /\ status' \in [Agws -> Status] /\ queued' \subseteq Agws
        /\ \A b \in Agws : status'[b].reg \in {status[b].reg, IF registered THEN p ELSE NoRequest}
    <2>1. (registered \/ ~pass.spec.enabled) \in BOOLEAN
          /\ (IF registered THEN p ELSE NoRequest) \in Request
      BY <1>3, Defaults
    <2> HIDE DEF p
    <2> QED
      BY <1>1, <1>2, <1>7, <2>1, EndPassFacts
  <1>9. ObjectsOK' /\ PassOK'
    BY <1>1, <1>8, Defaults DEF Register, ObjectsOK, PassOK
  <1>10. SecretsOK'
    BY <1>1 DEF Register, SecretsOK, secretVars
  <1>11. NmsOK'
    <2>1. Fault \/ NoFault
      BY DEF Register
    <2> QED
      BY <1>1, <2>1, FaultsBounded DEF Register, NmsOK, nmsVars
  <1>12. RegisteredWasConfirmed'
    BY <1>7, <1>8, ReportsBacked DEF Register, nmsVars
  <1> QED
    BY <1>5, <1>9, <1>10, <1>11, <1>12, TypePartsNext

(* The deregistration handler: it creates its Job or lets the deletion go on. *)
LEMMA DeregisterStep ==
    ASSUME IInv, NEW a \in Agws, Deregister(a)
    PROVE  IInv'
  <1> USE DEF IInv
  <1> DEFINE p == requestOf(crs[a].spec, "none")
  <1>1. ObjectsOK /\ PassOK /\ SecretsOK /\ JobsOK /\ NmsOK
    BY TypeParts
  <1>2. crs[a].spec \in Specs
    BY Fields
  <1>3. p \in Request /\ deleteJob(a) \in JobIds
    BY <1>2, RequestType, JobNames
  <1>4. CreateJob(deleteJob(a), p) \/ UNCHANGED <<jobs, orphans>>
    BY DEF Deregister
  <1>5. JobsOK' /\ JobsHonest'
    BY <1>1, <1>3, <1>4, JobWrites DEF Deregister, nmsVars
  <1>6. \/ /\ pass' = Begin("finish", a, crs[a].spec)
           /\ queued' \subseteq queued /\ UNCHANGED status
        \/ EndPass(a, crs[a].spec, FALSE, status[a].reg)
    BY DEF Deregister, WaitForDeregistration
  <1>7. /\ status' \in [Agws -> Status] /\ queued' \subseteq Agws /\ pass' \in Pass
        /\ \A b \in Agws : status'[b].reg \in {status[b].reg, NoRequest} \cup Backed
    <2>1. CASE /\ pass' = Begin("finish", a, crs[a].spec)
               /\ queued' \subseteq queued /\ UNCHANGED status
      BY <1>1, <1>2, <2>1 DEF ObjectsOK, Begin, Pass
    <2>2. CASE EndPass(a, crs[a].spec, FALSE, status[a].reg)
      <3>1. status[a].reg \in Request /\ status[a].reg \in {NoRequest} \cup Backed
        BY Fields, StandingReport
      <3>2. /\ pass' = Idle /\ status' \in [Agws -> Status] /\ queued' \subseteq Agws
            /\ \A b \in Agws : status'[b].reg \in {status[b].reg, status[a].reg}
        BY <1>1, <1>2, <2>2, <3>1, EndPassFacts
      <3> QED
        BY <3>1, <3>2, Defaults
    <2> QED
      BY <1>6, <2>1, <2>2
  <1>8. ObjectsOK' /\ PassOK'
    BY <1>1, <1>7 DEF Deregister, ObjectsOK, PassOK
  <1>9. SecretsOK' /\ NmsOK'
    BY <1>1 DEF Deregister, SecretsOK, NmsOK, secretVars, nmsVars
  <1>10. RegisteredWasConfirmed'
    BY <1>7, ReportsBacked DEF Deregister, nmsVars
  <1> QED
    BY <1>5, <1>8, <1>9, <1>10, TypePartsNext

(* The object goes, its status with it, and its Secret has no owner. *)
LEMMA FinishStep ==
    ASSUME IInv, FinishDeletion
    PROVE  IInv'
  <1> USE DEF IInv
  <1> DEFINE Dangling(f) == [n \in DOMAIN f |->
                 IF f[n].owner = pass.agw /\ n = SecretOf[pass.agw]
                 THEN [f[n] EXCEPT !.dangling = TRUE] ELSE f[n]]
  <1>1. ObjectsOK /\ PassOK /\ SecretsOK /\ JobsOK /\ NmsOK
    BY TypeParts
  <1>2. pass.agw \in Agws
    BY Fields
  <1>3. ObjectsOK' /\ PassOK'
    BY <1>1, <1>2, Defaults DEF FinishDeletion, ObjectsOK, PassOK
  <1>4. ASSUME NEW f \in [{SecretOf[a] : a \in Agws} -> Secret]
        PROVE  Dangling(f) \in [{SecretOf[a] : a \in Agws} -> Secret]
    <2>1. \A x \in Secret : [x EXCEPT !.dangling = TRUE] \in Secret
      BY DEF Secret
    <2> QED
      BY <2>1
  <1>5. /\ \/ secrets' = Dangling(secrets)
           \/ secrets' = Dangling([secrets EXCEPT ![SecretOf[pass.agw]] = NoSecret])
        /\ secretCache' = Dangling(secretCache)
    BY DEF FinishDeletion
  <1>6. SecretsOK'
    <2>1. secrets' \in [{SecretOf[a] : a \in Agws} -> Secret]
      <3>1. [secrets EXCEPT ![SecretOf[pass.agw]] = NoSecret]
               \in [{SecretOf[a] : a \in Agws} -> Secret]
        BY <1>1, Defaults DEF SecretsOK
      <3>2. CASE secrets' = Dangling(secrets)
        BY <1>1, <1>4, <3>2 DEF SecretsOK
      <3>3. CASE secrets' = Dangling([secrets EXCEPT ![SecretOf[pass.agw]] = NoSecret])
        BY <1>4, <3>1, <3>3
      <3> QED
        BY <1>5, <3>2, <3>3
    <2>2. secretCache' \in [{SecretOf[a] : a \in Agws} -> Secret]
      BY <1>1, <1>4, <1>5 DEF SecretsOK
    <2> QED
      BY <1>1, <2>1, <2>2 DEF SecretsOK, FinishDeletion
  <1>7. JobsOK' /\ NmsOK'
    BY <1>1 DEF FinishDeletion, JobsOK, NmsOK, jobVars, nmsVars
  <1>8. JobsHonest'
    BY JobsStayHonest DEF FinishDeletion, jobVars, nmsVars
  <1>9. \A b \in Agws : status'[b].reg \in {status[b].reg, NoRequest} \cup Backed
    BY <1>1, Defaults DEF FinishDeletion, ObjectsOK
  <1>10. RegisteredWasConfirmed'
    BY <1>9, ReportsBacked DEF FinishDeletion, nmsVars
  <1> QED
    BY <1>3, <1>6, <1>7, <1>8, <1>10, TypePartsNext

-----------------------------------------------------------------------------
(* The scripts *)

(* A request keeps the types of the records; a registration script ends    *)
(* well only with its request confirmed, and nothing confirmed is lost.    *)
LEMMA RequestFacts ==
    ASSUME NmsOK, NEW p \in Request, NEW step, NEW next,
           RegisterRequest(p, step, next) \/ DeleteRequest(p, step, next)
    PROVE  /\ nms' \in [Records -> Keys \cup {"none", "generic"}]
           /\ confirmed \subseteq confirmed' /\ confirmed' \subseteq Request
           /\ Fault \/ NoFault
           /\ RegisterRequest(p, step, next) /\ next = "done" => p \in confirmed'
  <1>1. p.key \in Keys \cup {"none"}
    BY DEF Request
  <1>2. \/ nms' = nms
        \/ nms' = [nms EXCEPT ![RecordOf(p)] = "none"]
        \/ nms' = [nms EXCEPT ![RecordOf(p)] = p.key]
    BY DEF RegisterRequest, DeleteRequest, nmsVars
  <1>3. nms' \in [Records -> Keys \cup {"none", "generic"}]
    BY <1>1, <1>2 DEF NmsOK
  <1>4. confirmed' = confirmed \/ confirmed' = confirmed \cup {p}
    BY DEF RegisterRequest, DeleteRequest, nmsVars
  <1>5. Fault \/ NoFault
    BY DEF RegisterRequest, DeleteRequest
  <1>6. RegisterRequest(p, step, next) /\ next = "done" => p \in confirmed'
    BY DEF RegisterRequest
  <1> QED
    BY <1>3, <1>4, <1>5, <1>6 DEF NmsOK

(* The pod of a Job takes a step. *)
LEMMA RunJobStep ==
    ASSUME IInv, NEW j \in JobIds, RunJob(j)
    PROVE  IInv'
  <1> USE DEF IInv
  <1>1. ObjectsOK /\ PassOK /\ SecretsOK /\ JobsOK /\ NmsOK
    BY TypeParts
  <1>2. jobs[j].request \in Request
    BY Fields
  <1>3. PICK state \in JobStates, step \in Steps :
          /\ jobs' = [jobs EXCEPT ![j].step = step, ![j].state = state]
          /\ nms' \in [Records -> Keys \cup {"none", "generic"}]
          /\ confirmed \subseteq confirmed' /\ confirmed' \subseteq Request
          /\ Fault \/ NoFault
          /\ state = "succeeded" /\ j[1] = "register" => jobs[j].request \in confirmed'
    <2>1. CASE \E next \in Steps :
              /\ IF j[1] = "register" THEN RegisterRequest(jobs[j].request, jobs[j].step, next)
                                      ELSE DeleteRequest(jobs[j].request, jobs[j].step, next)
              /\ jobs' = [jobs EXCEPT ![j].step = next,
                                      ![j].state = IF next = "done" THEN "succeeded" ELSE @]
      <3>1. PICK next \in Steps :
              /\ IF j[1] = "register" THEN RegisterRequest(jobs[j].request, jobs[j].step, next)
                                      ELSE DeleteRequest(jobs[j].request, jobs[j].step, next)
              /\ jobs' = [jobs EXCEPT ![j].step = next,
                                      ![j].state = IF next = "done" THEN "succeeded" ELSE @]
        BY <2>1
      <3>2. /\ nms' \in [Records -> Keys \cup {"none", "generic"}]
            /\ confirmed \subseteq confirmed' /\ confirmed' \subseteq Request
            /\ Fault \/ NoFault
            /\ j[1] = "register" /\ next = "done" => jobs[j].request \in confirmed'
        BY <1>1, <1>2, <3>1, RequestFacts
      <3>3. jobs[j].state = "running"
        BY DEF RunJob
      <3>4. jobs' = [jobs EXCEPT ![j].step = next,
                                 ![j].state = IF next = "done" THEN "succeeded" ELSE "running"]
        BY <1>1, <3>1, <3>3 DEF JobsOK, Job
      <3> QED
        BY <3>2, <3>4 DEF JobStates
    <2>2. CASE jobs' = [jobs EXCEPT ![j].state = "failed"] /\ Fault /\ UNCHANGED nmsVars
      <3>1. jobs' = [jobs EXCEPT ![j].step = jobs[j].step, ![j].state = "failed"]
        BY <1>1, <2>2 DEF JobsOK, Job
      <3>2. jobs[j].step \in Steps
        BY Fields
      <3> QED
        BY <1>1, <2>2, <3>1, <3>2 DEF JobStates, NmsOK, nmsVars
    <2> QED
      BY <2>1, <2>2 DEF RunJob
  <1>4. [jobs[j] EXCEPT !.step = step, !.state = state] \in Job
        /\ [jobs[j] EXCEPT !.step = step, !.state = state].state = state
        /\ [jobs[j] EXCEPT !.step = step, !.state = state].request = jobs[j].request
    BY <1>1 DEF JobsOK, Job
  <1>5. jobs' = [jobs EXCEPT ![j] = [jobs[j] EXCEPT !.step = step, !.state = state]]
    BY <1>1, <1>3 DEF JobsOK, Job
  <1>6. JobsOK'
    BY <1>1, <1>4, <1>5 DEF RunJob, JobsOK
  <1>7. NmsOK'
    BY <1>1, <1>3, FaultsBounded DEF RunJob, NmsOK
  <1>8. ObjectsOK' /\ PassOK' /\ SecretsOK'
    BY <1>1 DEF RunJob, ObjectsOK, PassOK, SecretsOK, secretVars
  <1>9. JobsHonest'
    BY <1>1, <1>3, <1>4, <1>5 DEF RunJob, JobsOK, JobsHonest
  <1>10. RegisteredWasConfirmed'
    BY <1>3, ReportsBacked DEF RunJob
  <1> QED
    BY <1>6, <1>7, <1>8, <1>9, <1>10, TypePartsNext

(* A script without a Job takes a step. *)
LEMMA RunOrphanStep ==
    ASSUME IInv, NEW o \in orphans, RunOrphan(o)
    PROVE  IInv'
  <1> USE DEF IInv
  <1>1. ObjectsOK /\ PassOK /\ SecretsOK /\ JobsOK /\ NmsOK
    BY TypeParts
  <1>2. o.request \in Request
    BY <1>1 DEF JobsOK
  <1>3. PICK next \in Steps :
          /\ RegisterRequest(o.request, o.step, next)
          /\ orphans' = (orphans \ {o}) \cup
                (IF next = "done" THEN {} ELSE {[request |-> o.request, step |-> next]})
    BY DEF RunOrphan
  <1>4. /\ nms' \in [Records -> Keys \cup {"none", "generic"}]
        /\ confirmed \subseteq confirmed' /\ confirmed' \subseteq Request
        /\ Fault \/ NoFault
    BY <1>1, <1>2, <1>3, RequestFacts
  <1>5. JobsOK'
    BY <1>1, <1>2, <1>3 DEF RunOrphan, JobsOK
  <1>6. NmsOK'
    BY <1>1, <1>4, FaultsBounded DEF RunOrphan, NmsOK
  <1>7. ObjectsOK' /\ PassOK' /\ SecretsOK'
    BY <1>1 DEF RunOrphan, ObjectsOK, PassOK, SecretsOK, secretVars
  <1>8. JobsHonest' /\ RegisteredWasConfirmed'
    BY <1>4, JobsStayHonest, ReportsBacked DEF RunOrphan
  <1> QED
    BY <1>5, <1>6, <1>7, <1>8, TypePartsNext

-----------------------------------------------------------------------------
(* The user and the cluster *)

(* A new generation of an object changes no report. *)
LEMMA ChangeFacts ==
    ASSUME ObjectsOK, PassOK, NEW a \in Agws, NEW cr \in Cr, Change(a, cr)
    PROVE  /\ ObjectsOK' /\ PassOK'
           /\ \A b \in Agws : status'[b].reg = status[b].reg
  <1>1. [status[a] EXCEPT !.observed = FALSE] \in Status
        /\ [status[a] EXCEPT !.observed = FALSE].reg = status[a].reg
    BY DEF ObjectsOK, Status
  <1>2. status' = [status EXCEPT ![a] = [status[a] EXCEPT !.observed = FALSE]]
    BY DEF Change, ObjectsOK
  <1>3. [pass EXCEPT !.stale = TRUE] \in Pass
    BY DEF PassOK, Pass
  <1>4. PassOK'
    BY <1>3 DEF Change, PassOK
  <1>5. ObjectsOK'
    BY <1>1, <1>2 DEF Change, ObjectsOK
  <1> QED
    BY <1>1, <1>2, <1>4, <1>5 DEF ObjectsOK

(* What the user does to an object. *)
LEMMA UserStep ==
    ASSUME IInv, User
    PROVE  IInv'
  <1> USE DEF IInv
  <1>1. ObjectsOK /\ PassOK /\ SecretsOK /\ JobsOK /\ NmsOK
    BY TypeParts
  <1>2. PICK a \in Agws : UserDelete(a) \/ \E s \in Specs : UserCreate(a, s) \/ UserEdit(a, s)
    BY DEF User
  <1>3. crs[a] \in Cr
    BY <1>1 DEF ObjectsOK
  <1>4. /\ ObjectsOK' /\ PassOK'
        /\ \A b \in Agws : status'[b].reg = status[b].reg
    <2>1. CASE UserDelete(a)
      <3>1. [crs[a] EXCEPT !.deleting = TRUE] \in Cr
        BY <1>3 DEF Cr
      <3> QED
        BY <1>1, <2>1, <3>1, ChangeFacts DEF UserDelete
    <2>2. ASSUME NEW s \in Specs, UserEdit(a, s)
          PROVE  /\ ObjectsOK' /\ PassOK'
                 /\ \A b \in Agws : status'[b].reg = status[b].reg
      <3>1. [crs[a] EXCEPT !.spec = s] \in Cr
        BY <1>3 DEF Cr
      <3> QED
        BY <1>1, <2>2, <3>1, ChangeFacts DEF UserEdit
    <2>3. ASSUME NEW s \in Specs, UserCreate(a, s)
          PROVE  /\ ObjectsOK' /\ PassOK'
                 /\ \A b \in Agws : status'[b].reg = status[b].reg
      <3>1. [exists |-> TRUE, deleting |-> FALSE, spec |-> s] \in Cr
        BY DEF Cr
      <3> QED
        BY <1>1, <2>3, <3>1 DEF UserCreate, ObjectsOK, PassOK
    <2> QED
      BY <1>2, <2>1, <2>2, <2>3
  <1>5. UNCHANGED <<secretVars, jobVars, nmsVars, orc8r, faults>>
    BY <1>2 DEF UserDelete, UserCreate, UserEdit
  <1>6. SecretsOK' /\ JobsOK' /\ NmsOK'
    BY <1>1, <1>5 DEF SecretsOK, JobsOK, NmsOK, secretVars, jobVars, nmsVars
  <1>7. JobsHonest' /\ RegisteredWasConfirmed'
    BY <1>4, <1>5, JobsStayHonest, ReportsBacked DEF jobVars, nmsVars
  <1> QED
    BY <1>4, <1>6, <1>7, TypePartsNext

(* What the controller sees of the Jobs is as honest as the Jobs. *)
LEMMA SeenFacts ==
    ASSUME JobsOK, JobsHonest, UNCHANGED <<jobs, orphans, confirmed>>,
           jobCache' = jobCache \/ jobCache' = [j \in JobIds |-> Seen(jobs[j])]
    PROVE  JobsOK' /\ JobsHonest'
  <1>1. \A j \in JobIds : /\ Seen(jobs[j]) \in [state : JobStates, request : Request]
                          /\ Seen(jobs[j]).state = jobs[j].state
                          /\ Seen(jobs[j]).request = jobs[j].request
    BY DEF JobsOK, Job, Seen
  <1> QED
    BY <1>1 DEF JobsOK, JobsHonest

(* Caches, restarts, expiry, garbage collection and the Orc8r. *)
LEMMA ClusterStep ==
    ASSUME IInv, Cluster
    PROVE  IInv'
  <1> USE DEF IInv
  <1>1. ObjectsOK /\ PassOK /\ SecretsOK /\ JobsOK /\ NmsOK
    BY TypeParts
  <1>2. CASE SyncSecrets
    BY <1>1, <1>2, TypePartsNext, JobsStayHonest, ReportsBacked
       DEF SyncSecrets, ObjectsOK, PassOK, SecretsOK, JobsOK, NmsOK, jobVars, nmsVars
  <1>3. CASE SyncJobs
    <2>1. JobsOK' /\ JobsHonest'
      BY <1>1, <1>3, SeenFacts DEF SyncJobs, nmsVars
    <2> QED
      BY <1>1, <1>3, <2>1, TypePartsNext, ReportsBacked
         DEF SyncJobs, ObjectsOK, PassOK, SecretsOK, NmsOK, secretVars, nmsVars
  <1>4. CASE Orc8rChanges
    BY <1>1, <1>4, TypePartsNext, JobsStayHonest, ReportsBacked
       DEF Orc8rChanges, ObjectsOK, PassOK, SecretsOK, JobsOK, NmsOK, secretVars, jobVars, nmsVars
  <1>5. CASE Crash
    <2>1. JobsOK' /\ JobsHonest'
      BY <1>1, <1>5, SeenFacts DEF Crash, nmsVars
    <2>2. NmsOK'
      BY <1>1, <1>5, FaultsBounded DEF Crash, NmsOK, nmsVars
    <2>3. ObjectsOK' /\ PassOK' /\ SecretsOK'
      BY <1>1, <1>5, Defaults DEF Crash, ObjectsOK, PassOK, SecretsOK
    <2> QED
      BY <1>5, <2>1, <2>2, <2>3, TypePartsNext, ReportsBacked DEF Crash, nmsVars
  <1>6. ASSUME NEW j \in JobIds, ExpireJob(j)
        PROVE  IInv'
    <2>1. jobs' \in [JobIds -> Job]
          /\ \A i \in JobIds : jobs'[i].state = "succeeded" => jobs'[i] = jobs[i]
      BY <1>1, <1>6, Defaults DEF ExpireJob, JobsOK
    <2>2. JobsOK' /\ JobsHonest'
      BY <1>1, <1>6, <2>1 DEF ExpireJob, JobsOK, JobsHonest, nmsVars
    <2> QED
      BY <1>1, <1>6, <2>2, TypePartsNext, ReportsBacked
         DEF ExpireJob, ObjectsOK, PassOK, SecretsOK, NmsOK, secretVars, nmsVars
  <1>7. ASSUME NEW o \in orphans, KillOrphan(o)
        PROVE  IInv'
    BY <1>1, <1>7, TypePartsNext, JobsStayHonest, ReportsBacked
       DEF KillOrphan, ObjectsOK, PassOK, SecretsOK, JobsOK, NmsOK, secretVars, nmsVars
  <1>8. ASSUME NEW n \in {SecretOf[a] : a \in Agws}, CollectSecret(n)
        PROVE  IInv'
    <2>1. SecretsOK'
      BY <1>1, <1>8, Defaults DEF CollectSecret, SecretsOK
    <2> QED
      BY <1>1, <1>8, <2>1, TypePartsNext, JobsStayHonest, ReportsBacked
         DEF CollectSecret, ObjectsOK, PassOK, JobsOK, NmsOK, jobVars, nmsVars
  <1>9. ASSUME NEW a \in Agws, Resync(a)
        PROVE  IInv'
    BY <1>1, <1>9, TypePartsNext, JobsStayHonest, ReportsBacked
       DEF Resync, ObjectsOK, PassOK, SecretsOK, JobsOK, NmsOK, secretVars, jobVars, nmsVars
  <1>10. ASSUME NEW j \in JobIds, RunJob(j)
         PROVE  IInv'
    BY <1>10, RunJobStep
  <1>11. ASSUME NEW o \in orphans, RunOrphan(o)
         PROVE  IInv'
    BY <1>11, RunOrphanStep
  <1> QED
    BY <1>2, <1>3, <1>4, <1>5, <1>6, <1>7, <1>8, <1>9, <1>10, <1>11 DEF Cluster

-----------------------------------------------------------------------------
(* Every step of the specification preserves the invariant. *)
LEMMA InductiveStep == IInv /\ [Next]_vars => IInv'
  <1> SUFFICES ASSUME IInv, [Next]_vars PROVE IInv'
    OBVIOUS
  <1>1. CASE Worker
    BY <1>1, ReadStep, RegisterStep, FinishStep, IdentityStep, DeregisterStep DEF Worker
  <1>2. CASE UNCHANGED vars
    <2>1. ObjectsOK /\ PassOK /\ SecretsOK /\ JobsOK /\ NmsOK
      BY TypeParts DEF IInv
    <2> QED
      BY <1>2, <2>1, TypePartsNext, JobsStayHonest, ReportsBacked
         DEF vars, IInv, ObjectsOK, PassOK, SecretsOK, JobsOK, NmsOK, secretVars, jobVars, nmsVars
  <1> QED
    BY <1>1, <1>2, UserStep, ClusterStep DEF Next

(* The type invariant holds for every value of the constants. *)
THEOREM RegistrationTypeCorrect == Spec => []TypeOK
  <1>1. IInv => TypeOK
    BY DEF IInv
  <1> QED
    BY <1>1, InitHolds, InductiveStep, PTL DEF Spec

(* The controller reports GatewayRegistered for a gateway id and a key     *)
(* only after a script carrying exactly these found the gateway in the     *)
(* NMS, whatever is edited, deleted, recreated or restarted, whichever     *)
(* objects share a Job name, and however stale the caches are.             *)
THEOREM RegistrationIsConfirmed == Spec => []RegisteredWasConfirmed
  <1>1. IInv => RegisteredWasConfirmed
    BY DEF IInv
  <1> QED
    BY <1>1, InitHolds, InductiveStep, PTL DEF Spec

(* Where all specs name the same network, that script looked in the        *)
(* network of the report.  Without the hypothesis this is false: the       *)
(* payload's hash does not tell networks apart.                            *)
THEOREM ConfirmedInTheOnlyNetwork ==
    ASSUME \A m, n \in Networks : m = n
    PROVE  Spec => []RegisteredInNetwork
  <1>1. IInv => RegisteredInNetwork
    <2> SUFFICES ASSUME IInv, NEW a \in Agws, status[a].reg # NoRequest
                 PROVE  status[a].reg \in confirmed
      BY DEF RegisteredInNetwork
    <2>1. PICK r \in confirmed : payloadHash(r) = payloadHash(status[a].reg)
      BY DEF IInv, RegisteredWasConfirmed
    <2>2. r \in Request /\ status[a].reg \in Request
      BY Fields DEF IInv, TypeOK
    <2>3. r.gw = status[a].reg.gw /\ r.key = status[a].reg.key
      BY <2>1 DEF payloadHash
    <2>4. r.net = status[a].reg.net
      BY <2>2 DEF Request
    <2>5. r = status[a].reg
      BY <2>2, <2>3, <2>4, SameRequest
    <2> QED
      BY <2>5
  <1> QED
    BY <1>1, InitHolds, InductiveStep, PTL DEF Spec
=============================================================================
