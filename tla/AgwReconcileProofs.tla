------------------------- MODULE AgwReconcileProofs -------------------------
(***************************************************************************)
(* Proofs about AgwReconcile, for every set of specs and every bound.      *)
(*                                                                         *)
(* The argument.  Only a deletion pass takes the finalizer away, and a     *)
(* deletion pass starts from a copy that is being deleted; informer copies *)
(* never go back, so while such a pass runs neither the API server nor the *)
(* cache holds a live object (Finalizers).  A status write is accepted     *)
(* only on the version the pass read, so what the pass found out about its *)
(* copy (PassFacts) is true of the object it is written to (Versions).     *)
(***************************************************************************)
EXTENDS AgwReconcile, TLAPS

-----------------------------------------------------------------------------
(* Type correctness *)

LEMMA InitialTypes ==
    /\ NoObject \in Object
    /\ \A s \in Specs : NewObject(s) \in Object
    /\ NoLocal \in Local
    /\ NoResult \in Result
  <1>1. (CHOOSE s \in Specs : TRUE) \in Specs
    BY SpecsAssumption
  <1>2. ASSUME NEW s \in Specs PROVE NewObject(s) \in Object
    BY BoundsAssumption DEF NewObject, Object, CondTypes, CondStatus, Reasons
  <1>3. NoObject \in Object
    BY <1>1, <1>2, BoundsAssumption DEF NoObject, NewObject, Object, CondTypes, CondStatus, Reasons
  <1> QED
    BY <1>2, <1>3 DEF NoLocal, Local, NoResult, Result, Reasons

(* The updates the actions make of an object, field by field. *)
Differ(o, p, fields) ==
    /\ "exists" \notin fields => p.exists = o.exists
    /\ "gen" \notin fields => p.gen = o.gen
    /\ "spec" \notin fields => p.spec = o.spec
    /\ "deleting" \notin fields => p.deleting = o.deleting
    /\ "finalizer" \notin fields => p.finalizer = o.finalizer
    /\ "obs" \notin fields => p.obs = o.obs
    /\ "conds" \notin fields => p.conds = o.conds
    /\ "reason" \notin fields => p.reason = o.reason
    /\ "registered" \notin fields => p.registered = o.registered

(* Setting a condition keeps an object an object. *)
LEMMA ConditionUpdate ==
    ASSUME NEW o \in Object, NEW c \in CondTypes, NEW v \in CondStatus
    PROVE  /\ setAGWCondition(o, c, v) \in Object
           /\ Differ(o, setAGWCondition(o, c, v), {"conds"})
           /\ setAGWCondition(o, c, v).conds[c] = v
           /\ \A d \in CondTypes \ {c} : setAGWCondition(o, c, v).conds[d] = o.conds[d]
  BY DEF setAGWCondition, Object, Differ

(* Removing a condition keeps an object an object. *)
LEMMA ConditionRemoval ==
    ASSUME NEW o, NEW c
    PROVE  removeAGWCondition(o, c) = setAGWCondition(o, c, "None")
  BY DEF removeAGWCondition

(* So does setting the status fields of the identity. *)
LEMMA RegisteredUpdate ==
    ASSUME NEW o \in Object, NEW b \in BOOLEAN
    PROVE  /\ updateAGWStatusDetails(o, b) \in Object
           /\ Differ(o, updateAGWStatusDetails(o, b), {"registered"})
           /\ updateAGWStatusDetails(o, b).registered = b
  BY DEF updateAGWStatusDetails, Object, Differ

(* Adding or removing the finalizer keeps the type. *)
LEMMA FinalizerUpdate ==
    ASSUME NEW o \in Object, NEW b \in BOOLEAN
    PROVE  /\ WithFinalizer(o, b) \in Object
           /\ Differ(o, WithFinalizer(o, b), {"finalizer"})
           /\ WithFinalizer(o, b).finalizer = b
  BY DEF WithFinalizer, Object, Differ

(* An edit within the generation bound keeps the type. *)
LEMMA SpecUpdate ==
    ASSUME NEW o \in Object, NEW s \in Specs, o.gen + 1 < MaxGeneration
    PROVE  /\ WithSpec(o, s) \in Object
           /\ Differ(o, WithSpec(o, s), {"spec", "gen"})
           /\ WithSpec(o, s).spec = s
           /\ WithSpec(o, s).gen = o.gen + 1
  <1>1. o.gen + 1 \in 0..MaxGeneration
    BY BoundsAssumption DEF Object
  <1>2. \A g \in 0..MaxGeneration :
          LET p == [o EXCEPT !.spec = s, !.gen = g]
          IN  p \in Object /\ Differ(o, p, {"spec", "gen"}) /\ p.spec = s /\ p.gen = g
    BY DEF Object, Differ
  <1> QED
    BY <1>1, <1>2 DEF WithSpec

(* A deletion timestamp within that bound keeps the type. *)
LEMMA Termination ==
    ASSUME NEW o \in Object, o.gen < MaxGeneration
    PROVE  /\ Terminating(o) \in Object
           /\ Differ(o, Terminating(o), {"deleting", "gen"})
           /\ Terminating(o).deleting
           /\ Terminating(o).gen = o.gen + 1
  <1>1. o.gen + 1 \in 0..MaxGeneration
    BY BoundsAssumption DEF Object
  <1>2. \A g \in 0..MaxGeneration :
          LET p == [o EXCEPT !.deleting = TRUE, !.gen = g]
          IN  p \in Object /\ Differ(o, p, {"deleting", "gen"}) /\ p.deleting /\ p.gen = g
    BY DEF Object, Differ
  <1> QED
    BY <1>1, <1>2 DEF Terminating

(* The status a pass writes keeps the type. *)
LEMMA StatusUpdate ==
    ASSUME NEW o \in Object, NEW g \in 0..MaxGeneration,
           NEW c \in [CondTypes -> CondStatus], NEW r \in Reasons, NEW b \in BOOLEAN
    PROVE  LET p == WithStatus(o, g, c, r, b)
           IN  /\ p \in Object
               /\ Differ(o, p, {"obs", "conds", "reason", "registered"})
               /\ p.obs = g /\ p.conds = c /\ p.reason = r /\ p.registered = b
  BY DEF WithStatus, Object, Differ

(* The local variables of a pass keep their type. *)
LEMMA LocalUpdate ==
    ASSUME NEW l \in Local, NEW a \in BOOLEAN, NEW b \in BOOLEAN
    PROVE  /\ WithDatapath(l, a) \in Local
           /\ WithDatapath(l, a).datapathReady = a
           /\ WithDatapath(l, a).simulator = l.simulator
           /\ WithGate(l, a, b) \in Local
           /\ WithGate(l, a, b).datapathReady = l.datapathReady
           /\ WithGate(l, a, b).simulator = a
           /\ WithGate(l, a, b).gatePending = b
  BY DEF WithDatapath, WithGate, Local

(* The fault counter stays within its bound. *)
LEMMA FaultTypes ==
    ASSUME faults \in 0..MaxFaults
    PROVE  /\ Fault => faults' \in 0..MaxFaults
           /\ NoFault => faults' \in 0..MaxFaults
  BY BoundsAssumption DEF Fault, NoFault

(* A pass that goes on to its status write is well typed. *)
LEMMA FinishTypes ==
    ASSUME TypeOK, NEW o \in Object, NEW v \in {"True", "False"},
           NEW r \in Reasons, NEW b \in BOOLEAN, Finish(o, v, r, b)
    PROVE  ObjectsOK' /\ PassOK' /\ QueueOK'
  <1> USE DEF TypeOK, Finish, queueVars, objectVars
  <1>1. ObjectsOK' /\ QueueOK'
    BY DEF ObjectsOK, QueueOK
  <1>2. [ready |-> v, reason |-> r, requeue |-> b] \in Result
    BY DEF Result
  <1>3. PassOK'
    BY <1>2 DEF PassOK, Phases
  <1> QED
    BY <1>1, <1>3

(* So is one that reports Ready=False. *)
LEMMA UpdateTypes ==
    ASSUME TypeOK, NEW o \in Object, NEW r \in Reasons, updateAGWStatus(o, r)
    PROVE  ObjectsOK' /\ PassOK' /\ QueueOK'
  BY FinishTypes DEF updateAGWStatus

(* So is one that goes on with its next phase. *)
LEMMA ContinueTypes ==
    ASSUME TypeOK, NEW o \in Object, NEW p \in Phases, Continue(p, o), local' \in Local
    PROVE  ObjectsOK' /\ PassOK' /\ QueueOK'
  BY DEF TypeOK, ObjectsOK, PassOK, QueueOK, Continue, queueVars, objectVars

(* A pass that returned, and the queue it leaves, are well typed. *)
LEMMA ReturnTypes ==
    ASSUME TypeOK, NEW b \in BOOLEAN, Return(b)
    PROVE  PassOK' /\ QueueOK'
  BY InitialTypes DEF TypeOK, PassOK, QueueOK, Return, Phases

(* A write of an object keeps the API server and the cache well typed. *)
LEMMA WriteTypes ==
    ASSUME TypeOK, NEW o \in Object, Write(o)
    PROVE  ObjectsOK'
  BY DEF TypeOK, ObjectsOK, Write

(* What the phases of a pass do to the pass's copy keeps its type. *)
LEMMA PassCopies ==
    ASSUME TypeOK
    PROVE  /\ mem \in Object
           /\ \A c \in CondTypes, v \in CondStatus : setAGWCondition(mem, c, v) \in Object
           /\ \A c \in CondTypes : removeAGWCondition(mem, c) \in Object
           /\ \A c \in CondTypes, v \in CondStatus, b \in BOOLEAN :
                 updateAGWStatusDetails(setAGWCondition(mem, c, v), b) \in Object
  <1>1. mem \in Object
    BY DEF TypeOK, PassOK
  <1>2. \A c \in CondTypes, v \in CondStatus : setAGWCondition(mem, c, v) \in Object
    BY <1>1, ConditionUpdate
  <1>3. \A c \in CondTypes : removeAGWCondition(mem, c) \in Object
    BY <1>2, ConditionRemoval DEF CondStatus
  <1>4. \A c \in CondTypes, v \in CondStatus, b \in BOOLEAN :
            updateAGWStatusDetails(setAGWCondition(mem, c, v), b) \in Object
    BY <1>2, RegisteredUpdate
  <1> QED
    BY <1>1, <1>2, <1>3, <1>4

(* The status of a pass, put on any object and generation. *)
LEMMA PassStatusUpdate ==
    ASSUME TypeOK, NEW o \in Object, NEW g \in 0..MaxGeneration
    PROVE  LET p == PassStatus(o, g)
           IN  /\ p \in Object
               /\ Differ(o, p, {"obs", "conds", "reason", "registered"})
               /\ p.obs = g /\ p.reason = result.reason /\ p.registered = mem.registered
               /\ \A d \in CondTypes \ {"Ready"} : p.conds[d] = mem.conds[d]
  <1> DEFINE m == setAGWCondition(mem, "Ready", result.ready)
  <1>1. /\ mem \in Object /\ result.ready \in CondStatus /\ result.reason \in Reasons
        /\ "Ready" \in CondTypes
    BY DEF TypeOK, PassOK, Result, CondStatus, CondTypes
  <1>2. /\ m \in Object
        /\ \A d \in CondTypes \ {"Ready"} : m.conds[d] = mem.conds[d]
    BY <1>1, ConditionUpdate
  <1>3. m.conds \in [CondTypes -> CondStatus] /\ mem.registered \in BOOLEAN
    BY <1>1, <1>2 DEF Object
  <1> HIDE DEF m
  <1> QED
    BY <1>1, <1>2, <1>3, StatusUpdate DEF PassStatus, m

(* One lemma for each phase of a creating or deleting pass. *)
LEMMA ReconcileIdentityTypes == TypeOK /\ ReconcileIdentity => TypeOK'
  <1> SUFFICES ASSUME TypeOK, ReconcileIdentity PROVE TypeOK'
    OBVIOUS
  <1>1. WorldOK'
    BY FaultTypes DEF ReconcileIdentity, TypeOK, WorldOK, worldVars, gateVars
  <1>2. ObjectsOK' /\ PassOK' /\ QueueOK'
    BY PassCopies, ContinueTypes, UpdateTypes DEF ReconcileIdentity, TypeOK, PassOK, Phases, Reasons, CondTypes, CondStatus
  <1> QED
    BY <1>1, <1>2 DEF TypeOK

(* The datapath check keeps the types. *)
LEMMA CheckDatapathTypes == TypeOK /\ CheckDatapath => TypeOK'
  <1> SUFFICES ASSUME TypeOK, CheckDatapath PROVE TypeOK'
    OBVIOUS
  <1>1. WorldOK'
    BY FaultTypes DEF CheckDatapath, TypeOK, WorldOK, worldVars, gateVars
  <1>l. WithDatapath(local, TRUE) \in Local /\ WithDatapath(local, agwDatapathNodesReady) \in Local
    BY LocalUpdate DEF TypeOK, PassOK, WorldOK, agwDatapathNodesReady
  <1>2. ObjectsOK' /\ PassOK' /\ QueueOK'
    BY <1>l, PassCopies, ContinueTypes, UpdateTypes DEF CheckDatapath, TypeOK, PassOK, Phases, Reasons, CondTypes, CondStatus
  <1> QED
    BY <1>1, <1>2 DEF TypeOK

(* The trust-bundle phase keeps the types. *)
LEMMA ReconcileLifecycleTypes == TypeOK /\ ReconcileLifecycle => TypeOK'
  <1> SUFFICES ASSUME TypeOK, ReconcileLifecycle PROVE TypeOK'
    OBVIOUS
  <1>1. WorldOK'
    BY FaultTypes DEF ReconcileLifecycle, TypeOK, WorldOK, worldVars, gateVars
  <1>2. ObjectsOK' /\ PassOK' /\ QueueOK'
    BY PassCopies, ContinueTypes, UpdateTypes DEF ReconcileLifecycle, TypeOK, PassOK, Phases, Reasons, CondTypes, CondStatus
  <1> QED
    BY <1>1, <1>2 DEF TypeOK

(* The registration phase keeps the types. *)
LEMMA ReconcileRegistrationTypes == TypeOK /\ ReconcileRegistration => TypeOK'
  <1> SUFFICES ASSUME TypeOK, ReconcileRegistration PROVE TypeOK'
    OBVIOUS
  <1>1. WorldOK'
    BY FaultTypes DEF ReconcileRegistration, TypeOK, WorldOK, worldVars, gateVars
  <1>2. ObjectsOK' /\ PassOK' /\ QueueOK'
    BY PassCopies, ContinueTypes, UpdateTypes DEF ReconcileRegistration, TypeOK, PassOK, Phases, Reasons, CondTypes, CondStatus
  <1> QED
    BY <1>1, <1>2 DEF TypeOK

(* The UERANSIM start gate keeps the types. *)
LEMMA StartGateTypes == TypeOK /\ StartGate => TypeOK'
  <1> SUFFICES ASSUME TypeOK, StartGate PROVE TypeOK'
    OBVIOUS
  <1>1. WorldOK'
    BY FaultTypes DEF StartGate, TypeOK, WorldOK, worldVars, gateVars
  <1>l. \A a, b \in BOOLEAN : WithGate(local, a, b) \in Local
    BY LocalUpdate DEF TypeOK, PassOK
  <1>2. ObjectsOK' /\ PassOK' /\ QueueOK'
    BY <1>l, PassCopies, ContinueTypes, UpdateTypes DEF StartGate, TypeOK, PassOK, Phases, Reasons, CondTypes, CondStatus, WorldOK
  <1> QED
    BY <1>1, <1>2 DEF TypeOK

(* Applying the manifest keeps the types. *)
LEMMA ReconcileNativeTypes == TypeOK /\ ReconcileNative => TypeOK'
  <1> SUFFICES ASSUME TypeOK, ReconcileNative PROVE TypeOK'
    OBVIOUS
  <1>1. WorldOK'
    BY FaultTypes DEF ReconcileNative, TypeOK, WorldOK, worldVars, gateVars, Release, nativeAGWApplyFilter, Groups
  <1>2. ObjectsOK' /\ PassOK' /\ QueueOK'
    BY PassCopies, ContinueTypes, UpdateTypes DEF ReconcileNative, TypeOK, PassOK, Phases, Reasons, CondTypes, CondStatus
  <1> QED
    BY <1>1, <1>2 DEF TypeOK

(* The rollout annotation and pod clean-up keep the types. *)
LEMMA RolloutTypes == TypeOK /\ Rollout => TypeOK'
  <1> SUFFICES ASSUME TypeOK, Rollout PROVE TypeOK'
    OBVIOUS
  <1>1. WorldOK'
    BY FaultTypes DEF Rollout, TypeOK, WorldOK, worldVars, gateVars
  <1>2. ObjectsOK' /\ PassOK' /\ QueueOK'
    BY PassCopies, ContinueTypes, UpdateTypes DEF Rollout, TypeOK, PassOK, Phases, Reasons, CondTypes, CondStatus
  <1> QED
    BY <1>1, <1>2 DEF TypeOK

(* Labelling the datapath nodes keeps the types. *)
LEMMA ReconcileLabelsTypes == TypeOK /\ ReconcileLabels => TypeOK'
  <1> SUFFICES ASSUME TypeOK, ReconcileLabels PROVE TypeOK'
    OBVIOUS
  <1>1. WorldOK'
    BY FaultTypes DEF ReconcileLabels, TypeOK, WorldOK, worldVars, gateVars, NodesPrepared
  <1>2. ObjectsOK' /\ PassOK' /\ QueueOK'
    BY PassCopies, ContinueTypes, UpdateTypes DEF ReconcileLabels, TypeOK, PassOK, Phases, Reasons, CondTypes, CondStatus
  <1> QED
    BY <1>1, <1>2 DEF TypeOK

(* The validation phase keeps the types. *)
LEMMA ValidateTypes == TypeOK /\ Validate => TypeOK'
  <1> SUFFICES ASSUME TypeOK, Validate PROVE TypeOK'
    OBVIOUS
  <1>1. WorldOK'
    BY FaultTypes DEF Validate, TypeOK, WorldOK, worldVars, gateVars
  <1>2. ObjectsOK' /\ PassOK' /\ QueueOK'
    BY PassCopies, FinishTypes DEF Validate, TypeOK, PassOK, Phases, Reasons, CondTypes, CondStatus
  <1> QED
    BY <1>1, <1>2 DEF TypeOK

(* The deregistration phase keeps the types. *)
LEMMA DeregisterTypes == TypeOK /\ Deregister => TypeOK'
  <1> SUFFICES ASSUME TypeOK, Deregister PROVE TypeOK'
    OBVIOUS
  <1>1. WorldOK'
    BY FaultTypes DEF Deregister, TypeOK, WorldOK, worldVars, gateVars
  <1>2. ObjectsOK' /\ PassOK' /\ QueueOK'
    BY PassCopies, ContinueTypes, UpdateTypes DEF Deregister, TypeOK, PassOK, Phases, Reasons, CondTypes, CondStatus
  <1> QED
    BY <1>1, <1>2 DEF TypeOK

(* Deleting the manifest's objects keeps the types. *)
LEMMA DeleteNativeTypes == TypeOK /\ DeleteNative => TypeOK'
  <1> SUFFICES ASSUME TypeOK, DeleteNative PROVE TypeOK'
    OBVIOUS
  <1>1. WorldOK'
    BY FaultTypes DEF DeleteNative, TypeOK, WorldOK, worldVars, gateVars
  <1>2. ObjectsOK' /\ PassOK' /\ QueueOK'
    BY PassCopies, ContinueTypes, UpdateTypes DEF DeleteNative, TypeOK, PassOK, Phases, Reasons, CondTypes, CondStatus
  <1> QED
    BY <1>1, <1>2 DEF TypeOK

(* Every step of a pass keeps the types. *)
LEMMA PassTypes ==
    TypeOK /\ (Get \/ AddFinalizer \/ UpdateStatus \/ RemoveLabels
               \/ cleanupAGWDurableState \/ RemoveFinalizer) => TypeOK'
  <1> SUFFICES ASSUME TypeOK,
                      Get \/ AddFinalizer \/ UpdateStatus \/ RemoveLabels
                          \/ cleanupAGWDurableState \/ RemoveFinalizer
               PROVE  TypeOK'
    OBVIOUS
  <1>1. CASE Get
    BY <1>1 DEF Get, FirstPhase, TypeOK, ObjectsOK, PassOK, QueueOK, WorldOK, Phases,
       objectVars, worldVars, gateVars
  <1>2. CASE AddFinalizer
    <2>1. WithFinalizer(api, TRUE) \in Object
      BY FinalizerUpdate DEF TypeOK, ObjectsOK
    <2>2. ObjectsOK'
      BY <1>2, <2>1, WriteTypes DEF AddFinalizer, TypeOK, ObjectsOK, objectVars
    <2>3. WorldOK'
      BY <1>2, FaultTypes DEF AddFinalizer, TypeOK, WorldOK, worldVars, gateVars
    <2> QED
      BY <1>2, <2>2, <2>3, ReturnTypes DEF AddFinalizer, TypeOK
  <1>3. CASE UpdateStatus
    <2>1. NewStatus \in Object
      <3>1. api \in Object /\ mem.gen \in 0..MaxGeneration
        BY DEF TypeOK, ObjectsOK, PassOK, Object
      <3> QED
        BY <3>1, PassStatusUpdate DEF NewStatus
    <2>2. ObjectsOK'
      BY <1>3, <2>1, WriteTypes DEF UpdateStatus, TypeOK, ObjectsOK, objectVars
    <2>3. WorldOK'
      BY <1>3, FaultTypes DEF UpdateStatus, TypeOK, WorldOK, worldVars, gateVars
    <2>4. result.requeue \in BOOLEAN
      BY DEF TypeOK, PassOK, Result
    <2> QED
      BY <1>3, <2>2, <2>3, <2>4, ReturnTypes DEF UpdateStatus, TypeOK
  <1>4. CASE RemoveLabels
    <2>1. WorldOK'
      BY <1>4, FaultTypes DEF RemoveLabels, TypeOK, WorldOK, gateVars
    <2>2. ObjectsOK' /\ PassOK' /\ QueueOK'
      BY <1>4, PassCopies, ContinueTypes, ReturnTypes
      DEF RemoveLabels, TypeOK, PassOK, ObjectsOK, objectVars, Phases
    <2> QED
      BY <2>1, <2>2 DEF TypeOK
  <1>5. CASE cleanupAGWDurableState
    <2>1. WorldOK'
      BY <1>5, FaultTypes DEF cleanupAGWDurableState, TypeOK, WorldOK, gateVars
    <2>2. ObjectsOK' /\ PassOK' /\ QueueOK'
      BY <1>5, PassCopies, ContinueTypes, ReturnTypes
      DEF cleanupAGWDurableState, TypeOK, PassOK, ObjectsOK, objectVars, Phases
    <2> QED
      BY <2>1, <2>2 DEF TypeOK
  <1>6. CASE RemoveFinalizer
    <2>1. WithFinalizer(api, FALSE) \in Object /\ NoObject \in Object
      BY FinalizerUpdate, InitialTypes DEF TypeOK, ObjectsOK
    <2>2. ObjectsOK'
      BY <1>6, <2>1, WriteTypes DEF RemoveFinalizer, TypeOK, ObjectsOK, objectVars
    <2>3. WorldOK'
      BY <1>6, FaultTypes DEF RemoveFinalizer, TypeOK, WorldOK, gateVars
    <2>4. PassOK' /\ QueueOK'
      BY <1>6, ReturnTypes DEF RemoveFinalizer
    <2> QED
      BY <2>2, <2>3, <2>4 DEF TypeOK
  <1> QED
    BY <1>1, <1>2, <1>3, <1>4, <1>5, <1>6

(* Every step of the user keeps the types. *)
LEMMA UserTypes == TypeOK /\ User => TypeOK'
  <1> SUFFICES ASSUME TypeOK, User PROVE TypeOK'
    OBVIOUS
  <1>1. \A s \in Specs : /\ NewObject(s) \in Object
                         /\ api.gen + 1 < MaxGeneration => WithSpec(api, s) \in Object
    BY InitialTypes, SpecUpdate DEF TypeOK, ObjectsOK
  <1>2. /\ NoObject \in Object
        /\ api.gen < MaxGeneration => Terminating(api) \in Object
    BY InitialTypes, Termination DEF TypeOK, ObjectsOK
  <1>3. ObjectsOK'
    BY <1>1, <1>2, WriteTypes DEF User, UserCreate, UserEdit, UserDelete
  <1>4. PassOK' /\ QueueOK' /\ WorldOK'
    BY DEF User, UserCreate, UserEdit, UserDelete, TypeOK, PassOK, QueueOK, WorldOK,
       queueVars, worldVars, gateVars
  <1> QED
    BY <1>3, <1>4 DEF TypeOK

(* Every step of the API machinery and the cluster keeps the types. *)
LEMMA EnvironmentTypes == TypeOK /\ Environment => TypeOK'
  <1> SUFFICES ASSUME TypeOK, Environment PROVE TypeOK'
    OBVIOUS
  <1> USE DEF TypeOK, objectVars, passVars, queueVars, worldVars, gateVars
  <1>1. CASE SyncCache
    BY <1>1 DEF SyncCache, ObjectsOK, PassOK, QueueOK, WorldOK
  <1>2. CASE SetGate
    BY <1>2 DEF SetGate, ObjectsOK, PassOK, QueueOK, WorldOK
  <1>3. CASE SyncGate
    BY <1>3 DEF SyncGate, mapUERANSIMGateConfigMap, ObjectsOK, PassOK, QueueOK, WorldOK
  <1>4. CASE TimerFires
    BY <1>4 DEF TimerFires, ObjectsOK, PassOK, QueueOK, WorldOK
  <1>5. CASE Resync
    BY <1>5 DEF Resync, ObjectsOK, PassOK, QueueOK, WorldOK
  <1>6. CASE NodePrepStatus
    BY <1>6, FaultTypes DEF NodePrepStatus, ObjectsOK, PassOK, QueueOK, WorldOK
  <1>7. CASE GarbageCollect
    BY <1>7 DEF GarbageCollect, ObjectsOK, PassOK, QueueOK, WorldOK
  <1>8. CASE Crash
    <2>1. ObjectsOK' /\ PassOK'
      BY <1>8, InitialTypes DEF Crash, ObjectsOK, PassOK, Phases
    <2>2. QueueOK'
      BY <1>8 DEF Crash, ObjectsOK, Object, QueueOK
    <2>3. WorldOK'
      BY <1>8, FaultTypes DEF Crash, WorldOK
    <2> QED
      BY <2>1, <2>2, <2>3
  <1>9. ASSUME NEW h \in Volatile, NEW v \in HandlerResults, HandlerChange(h, v)
        PROVE  TypeOK'
    <2>1. WorldOK'
      BY <1>9, FaultTypes DEF HandlerChange, WorldOK
    <2> QED
      BY <1>9, <2>1 DEF HandlerChange, ObjectsOK, PassOK, QueueOK
  <1> QED
    BY <1>1, <1>2, <1>3, <1>4, <1>5, <1>6, <1>7, <1>8, <1>9 DEF Environment

(* The type invariant is inductive. *)
LEMMA TypeStep == TypeOK /\ [Next]_vars => TypeOK'
  <1>1. TypeOK /\ UNCHANGED vars => TypeOK'
    BY DEF vars, objectVars, passVars, queueVars, worldVars, gateVars,
       TypeOK, ObjectsOK, PassOK, QueueOK, WorldOK
  <1> QED
    BY <1>1, PassTypes, UserTypes, EnvironmentTypes, ReconcileIdentityTypes,
       CheckDatapathTypes, ReconcileLifecycleTypes, ReconcileRegistrationTypes,
       StartGateTypes, ReconcileNativeTypes, RolloutTypes, ReconcileLabelsTypes,
       ValidateTypes, DeregisterTypes, DeleteNativeTypes
    DEF Next, Reconcile

(* The initial state is well typed. *)
LEMMA InitTypes == Init => TypeOK
  <1> SUFFICES ASSUME Init PROVE TypeOK
    OBVIOUS
  <1>1. ObjectsOK /\ PassOK /\ QueueOK
    BY InitialTypes DEF Init, ObjectsOK, PassOK, QueueOK, Phases
  <1>2. handlers \in [HandlerNames -> HandlerResults]
    BY DEF Init, HandlerResults
  <1>3. faults \in 0..MaxFaults
    BY BoundsAssumption DEF Init
  <1> QED
    BY <1>1, <1>2, <1>3 DEF Init, TypeOK, WorldOK

(* The types hold in every state, for every set of specs and every bound:  *)
(* no phase of Reconcile, no API call and no crash leaves a malformed      *)
(* object, condition or queue behind.                                      *)
THEOREM TypeCorrect == Spec => []TypeOK
  <1> QED
    BY InitTypes, TypeStep, PTL DEF Spec

-----------------------------------------------------------------------------
(* The inductive invariant *)

Held(o) == o.exists /\ o.finalizer
Live(o) == Held(o) /\ ~o.deleting

Applying   == {"rollout", "labels", "validate"}
Registered == Applying \cup {"ueransim", "native"}
Identified == Registered \cup {"datapath", "lifecycle", "register"}
Creating   == Identified \cup {"identity"}
Emptied    == {"unlabel", "cleanup", "removeFinalizer"}
Deleting   == Emptied \cup {"deregister", "deleteNative"}

SettledReasons == {"NativeResourcesReady", "WaitingForUERANSIMGate"}
Base == {"pvc", "nodePrep", "workloads"}

(* The copies of the object and its resourceVersion. *)
Versions ==
    /\ cacheCurrent => cache = api
    /\ memCurrent =>
          /\ cacheCurrent
          /\ mem.exists = api.exists /\ mem.gen = api.gen /\ mem.spec = api.spec
          /\ mem.deleting = api.deleting /\ mem.finalizer = api.finalizer
    /\ api.obs <= api.gen
    /\ api.exists => api.gen > 0
    /\ Settled =>
          /\ api.finalizer
          /\ cache.spec = api.spec
          /\ pc \in Creating => mem.spec = api.spec

(* Who may hold the finalizer while which pass runs. *)
Finalizers ==
    /\ api.deleting => Held(api)
    /\ Live(cache) => Held(api)
    /\ cache.deleting => ~Live(api)
    /\ pc = "addFinalizer" /\ cache.deleting => api.deleting
    /\ pc \in Creating => Live(mem) /\ Held(api)
    /\ pc \in Deleting => ~Live(api) /\ ~Live(cache)
    /\ pc \in Emptied => native = {}
    /\ native # {} => Held(api)

Identities ==
    /\ "workloads" \in native => idSecret = "owned"
    /\ pc \in Identified => idSecret = "owned"

(* The prerequisites of o's spec are reported as met in o's conditions. *)
Met(o) ==
    /\ o.conds["IdentityReady"] = "True"
    /\ o.spec.datapath => o.spec.selector /\ o.conds["DatapathReady"] = "True"
    /\ o.conds["TrustBundleSynced"] = "True"
    /\ o.spec.registration => o.conds["GatewayRegistered"] = "True" /\ o.registered

(* What the running pass has established, phase by phase. *)
PassFacts ==
    /\ pc \in Identified => mem.conds["IdentityReady"] = "True"
    /\ pc \in Registered \cup {"lifecycle", "register"} =>
          /\ mem.spec.datapath => mem.spec.selector
          /\ mem.spec.datapath /\ local.datapathReady => mem.conds["DatapathReady"] = "True"
    /\ pc \in Registered \cup {"register"} => mem.conds["TrustBundleSynced"] = "True"
    /\ pc \in Registered /\ mem.spec.registration =>
          mem.conds["GatewayRegistered"] = "True" /\ mem.registered
    /\ pc = "validate" /\ mem.spec.datapath => local.datapathReady
    /\ pc \in Registered /\ local.simulator => pc = "ueransim" \/ mem.spec.ueransim # "Off"
    /\ pc \in Applying => Base \subseteq native
    /\ pc \in Applying /\ mem.spec.ueransim = "Off" => "simulator" \notin native
    /\ pc = "status" /\ result.reason \in SettledReasons =>
          /\ Met(mem)
          /\ Live(mem)
          /\ Base \subseteq native
          /\ mem.spec.ueransim = "Off" => "simulator" \notin native

IInv ==
    /\ TypeOK
    /\ Versions
    /\ Finalizers
    /\ Identities
    /\ PassFacts
    /\ SettledMeansReconciled
    /\ SimulatorFollowsSpec

(* The phases of a pass that creates, and of one that deletes. *)
CreatingStep ==
    \/ ReconcileIdentity \/ CheckDatapath \/ ReconcileLifecycle
    \/ ReconcileRegistration \/ StartGate \/ ReconcileNative \/ Rollout
    \/ ReconcileLabels \/ Validate

DeletingStep ==
    \/ Deregister \/ DeleteNative \/ RemoveLabels \/ cleanupAGWDurableState

(* The pass's copy keeps what identifies it. *)
SameVersion == Differ(mem, mem', {"conds", "registered"})

(* What the updates of the pass's copy leave alone. *)
LEMMA CopyUpdates ==
    ASSUME TypeOK, NEW c \in CondTypes, NEW v \in CondStatus, NEW b \in BOOLEAN
    PROVE  /\ Differ(mem, mem, {"conds", "registered"})
           /\ Differ(mem, setAGWCondition(mem, c, v), {"conds", "registered"})
           /\ Differ(mem, removeAGWCondition(mem, c), {"conds", "registered"})
           /\ Differ(mem, updateAGWStatusDetails(setAGWCondition(mem, c, v), b),
                     {"conds", "registered"})
  <1>1. mem \in Object /\ setAGWCondition(mem, c, v) \in Object /\ "None" \in CondStatus
    BY PassCopies DEF CondStatus
  <1>2. Differ(mem, setAGWCondition(mem, c, v), {"conds"})
    BY <1>1, ConditionUpdate
  <1>3. Differ(mem, removeAGWCondition(mem, c), {"conds"})
    BY <1>1, ConditionUpdate, ConditionRemoval
  <1>4. Differ(setAGWCondition(mem, c, v),
               updateAGWStatusDetails(setAGWCondition(mem, c, v), b), {"registered"})
    BY <1>1, RegisteredUpdate
  <1> QED
    BY <1>2, <1>3, <1>4 DEF Differ

(* What every phase of a creating pass leaves alone. *)
LEMMA CreatingFrame ==
    ASSUME TypeOK, CreatingStep
    PROVE  /\ pc \in Creating
           /\ pc' \in Identified \cup {"status"}
           /\ UNCHANGED <<api, cache, cacheCurrent, memCurrent>>
           /\ SameVersion
           /\ native' = native \/ (pc = "native" /\ Base \cap native \subseteq native')
           /\ "simulator" \in native' => "simulator" \in native \/ (pc = "native" /\ local.simulator)
           /\ idSecret' = idSecret \/ idSecret' = "owned"
           /\ pc = "identity" /\ pc' # "status" => idSecret' = "owned"
  <1> USE DEF Identified, Creating, Registered, Applying, SameVersion, Continue,
              updateAGWStatus, Finish, objectVars, worldVars
  <1>0. /\ Differ(mem, mem, {"conds", "registered"})
        /\ \A c \in CondTypes, v \in CondStatus :
              Differ(mem, setAGWCondition(mem, c, v), {"conds", "registered"})
        /\ \A c \in CondTypes : Differ(mem, removeAGWCondition(mem, c), {"conds", "registered"})
        /\ \A c \in CondTypes, v \in CondStatus, b \in BOOLEAN :
              Differ(mem, updateAGWStatusDetails(setAGWCondition(mem, c, v), b),
                     {"conds", "registered"})
    BY CopyUpdates DEF CondTypes, CondStatus
  <1>1. CASE ReconcileIdentity
    BY <1>0, <1>1 DEF ReconcileIdentity, CondTypes, CondStatus
  <1>2. CASE CheckDatapath
    BY <1>0, <1>2 DEF CheckDatapath, CondTypes, CondStatus
  <1>3. CASE ReconcileLifecycle
    BY <1>0, <1>3 DEF ReconcileLifecycle, CondTypes, CondStatus
  <1>4. CASE ReconcileRegistration
    BY <1>0, <1>4 DEF ReconcileRegistration, CondTypes, CondStatus
  <1>5. CASE StartGate
    BY <1>0, <1>5 DEF StartGate
  <1>6. CASE ReconcileNative
    BY <1>0, <1>6 DEF ReconcileNative, Release, nativeAGWApplyFilter, Base, Groups
  <1>7. CASE Rollout
    BY <1>0, <1>7 DEF Rollout
  <1>8. CASE ReconcileLabels
    BY <1>0, <1>8 DEF ReconcileLabels
  <1>9. CASE Validate
    BY <1>0, <1>9 DEF Validate, CondTypes, CondStatus
  <1> QED
    BY <1>1, <1>2, <1>3, <1>4, <1>5, <1>6, <1>7, <1>8, <1>9 DEF CreatingStep

(* What every phase of a deleting pass leaves alone. *)
LEMMA DeletingFrame ==
    ASSUME DeletingStep
    PROVE  /\ pc \in Deleting
           /\ pc' \in Deleting \cup {"status", "idle"}
           /\ UNCHANGED <<api, cache, cacheCurrent>>
           /\ pc' # "idle" => UNCHANGED <<mem, memCurrent>>
           /\ pc' = "idle" => memCurrent' = FALSE
           /\ native' \subseteq native
           /\ pc' \in Emptied => native' = {} \/ pc \in Emptied
           /\ pc = "cleanup" \/ UNCHANGED idSecret
           /\ pc' = "status" => result'.reason \in {"Waiting", "Failed"}
  <1> USE DEF Deleting, Emptied, Continue, updateAGWStatus, Finish, Return, objectVars, worldVars
  <1>1. CASE Deregister
    BY <1>1 DEF Deregister
  <1>2. CASE DeleteNative
    BY <1>2 DEF DeleteNative
  <1>3. CASE RemoveLabels
    BY <1>3 DEF RemoveLabels
  <1>4. CASE cleanupAGWDurableState
    BY <1>4 DEF cleanupAGWDurableState
  <1> QED
    BY <1>1, <1>2, <1>3, <1>4 DEF DeletingStep

(* Steps that change neither the object's copies nor the pass. *)
QuietStep ==
    \/ SetGate \/ SyncGate \/ TimerFires \/ Resync \/ NodePrepStatus \/ GarbageCollect
    \/ \E h \in Volatile, v \in HandlerResults : HandlerChange(h, v)

(* A step that touches neither objects nor pass keeps what is said of them. *)
LEMMA QuietFrame ==
    ASSUME QuietStep \/ UNCHANGED vars
    PROVE  /\ UNCHANGED <<api, cache, cacheCurrent, mem, memCurrent, pc, local, result, native>>
           /\ idSecret' = idSecret \/ (idSecret = "dangling" /\ idSecret' = "none")
  BY DEF QuietStep, SetGate, SyncGate, TimerFires, Resync, NodePrepStatus,
     GarbageCollect, HandlerChange, vars, objectVars, passVars, worldVars

(* The fields of a new and of an absent object. *)
LEMMA FreshFields ==
    /\ ~NoObject.exists /\ ~NoObject.deleting /\ ~NoObject.finalizer
    /\ NoObject.gen = 0 /\ NoObject.obs = 0
    /\ \A s \in Specs : LET o == NewObject(s)
                        IN  /\ o.exists /\ ~o.deleting /\ ~o.finalizer
                            /\ o.gen = 1 /\ o.obs = 0
  BY DEF NoObject, NewObject

(* The fields an induction step compares, and their types. *)
LEMMA FieldTypes ==
    ASSUME NEW o \in Object
    PROVE  /\ o.gen \in Nat /\ o.obs \in Nat
           /\ o.exists \in BOOLEAN /\ o.deleting \in BOOLEAN /\ o.finalizer \in BOOLEAN
           /\ o.registered \in BOOLEAN /\ o.spec \in Specs
  BY BoundsAssumption DEF Object

-----------------------------------------------------------------------------
(* Copies with the current resourceVersion stay equal to the object. *)
LEMMA VersionsStep ==
    ASSUME IInv, [Next]_vars
    PROVE  Versions'
  <1> USE DEF IInv, TypeOK, ObjectsOK
  <1>t. api \in Object /\ cache \in Object /\ mem \in Object /\ cacheCurrent \in BOOLEAN
        /\ memCurrent \in BOOLEAN
    BY DEF PassOK
  <1>1. CASE CreatingStep
    BY <1>1, CreatingFrame DEF Versions, Settled, SameVersion, Differ, Creating
  <1>2. CASE DeletingStep
    <2>1. pc' \notin Creating
      BY <1>2, DeletingFrame DEF Creating, Identified, Registered, Applying, Deleting, Emptied
    <2>2. memCurrent' => memCurrent /\ mem' = mem
      BY <1>2, DeletingFrame
    <2> QED
      BY <1>2, <2>1, <2>2, DeletingFrame DEF Versions, Settled
  <1>3. CASE QuietStep \/ UNCHANGED vars
    BY <1>3, QuietFrame DEF Versions, Settled
  <1>4. CASE Get
    BY <1>4, <1>t DEF Get, FirstPhase, Versions, Settled, objectVars, Creating,
       Identified, Registered, Applying
  <1>5. CASE AddFinalizer
    <2>1. CASE UNCHANGED objectVars
      BY <1>5, <2>1 DEF AddFinalizer, Return, Versions, Settled, objectVars, Creating,
         Identified, Registered, Applying
    <2>2. CASE ~api.finalizer /\ Write(WithFinalizer(api, TRUE))
      <3>1. Differ(api, api', {"finalizer"})
        BY <1>t, <2>2, FinalizerUpdate DEF Write
      <3>2. ~Settled
        BY <2>2 DEF Versions
      <3> QED
        BY <1>5, <2>2, <3>1, <3>2 DEF AddFinalizer, Write, Return, Versions, Settled, Differ
    <2> QED
      BY <1>5, <2>1, <2>2 DEF AddFinalizer
  <1>6. CASE UpdateStatus
    <2>1. CASE UNCHANGED objectVars
      BY <1>6, <2>1 DEF UpdateStatus, Return, Versions, Settled, objectVars, Creating,
         Identified, Registered, Applying
    <2>2. CASE api.exists /\ memCurrent /\ Write(NewStatus)
      <3>1. /\ Differ(api, api', {"obs", "conds", "reason", "registered"})
            /\ api'.obs = mem.gen /\ api'.reason = result.reason
        BY <1>t, <2>2, FieldTypes, PassStatusUpdate DEF Write, NewStatus, Object
      <3>2. mem.gen = api.gen /\ cache = api /\ mem.finalizer = api.finalizer /\ api.gen \in Nat
        BY <1>t, <2>2, FieldTypes DEF Versions
      <3>3. result.reason \in SettledReasons => mem.finalizer
        BY <1>6 DEF UpdateStatus, PassFacts, Live, Held
      <3> QED
        BY <1>6, <2>2, <3>1, <3>2, <3>3
        DEF UpdateStatus, Write, Return, Versions, Settled, SettledReasons, Differ, Creating,
            Identified, Registered, Applying
    <2> QED
      BY <1>6, <2>1, <2>2 DEF UpdateStatus
  <1>7. CASE RemoveFinalizer
    <2>1. CASE UNCHANGED objectVars
      BY <1>7, <2>1 DEF RemoveFinalizer, Return, Versions, Settled, objectVars, Creating,
         Identified, Registered, Applying
    <2>2. CASE Write(NoObject)
      <3>1. ~memCurrent'
        BY <1>7 DEF RemoveFinalizer, Return
      <3> QED
        BY <2>2, <3>1, FreshFields DEF Write, Versions, Settled
    <2>3. CASE api.exists /\ ~api.deleting /\ api.finalizer
      BY <1>7, <2>3 DEF RemoveFinalizer, Finalizers, Deleting, Emptied, Live, Held
    <2> QED
      BY <1>7, <2>1, <2>2, <2>3 DEF RemoveFinalizer
  <1>8. ASSUME NEW s \in Specs, UserCreate(s)
        PROVE  Versions'
    BY <1>8, FreshFields DEF UserCreate, Write, Versions, Settled
  <1>9. ASSUME NEW s \in Specs, UserEdit(s)
        PROVE  Versions'
    <2>1. Differ(api, api', {"spec", "gen"}) /\ api'.gen = api.gen + 1
      BY <1>9, <1>t, SpecUpdate DEF UserEdit, Write
    <2>2. api.gen \in Nat /\ api.obs \in Nat
      BY <1>t, FieldTypes
    <2> QED
      BY <1>9, <2>1, <2>2 DEF UserEdit, Write, Versions, Settled, Differ
  <1>10. CASE UserDelete
    <2>1. CASE api' = NoObject
      BY <1>10, <2>1, FreshFields DEF UserDelete, Write, Versions, Settled
    <2>2. CASE api' = Terminating(api)
      <3>1. Differ(api, api', {"deleting", "gen"}) /\ api'.gen = api.gen + 1
        BY <1>10, <1>t, <2>2, Termination DEF UserDelete
      <3>2. api.gen \in Nat /\ api.obs \in Nat
        BY <1>t, FieldTypes
      <3> QED
        BY <1>10, <3>1, <3>2 DEF UserDelete, Write, Versions, Settled, Differ
    <2> QED
      BY <1>10, <2>1, <2>2 DEF UserDelete, Write
  <1>11. CASE SyncCache
    BY <1>11 DEF SyncCache, Versions, Settled, passVars
  <1>12. CASE Crash
    BY <1>12 DEF Crash, Versions, Settled, Creating, Identified, Registered, Applying
  <1> QED
    BY <1>1, <1>2, <1>3, <1>4, <1>5, <1>6, <1>7, <1>8, <1>9, <1>10, <1>11, <1>12
    DEF Next, Reconcile, User, Environment, CreatingStep, DeletingStep, QuietStep

(* The facts about finalizers are preserved. *)
LEMMA FinalizersStep ==
    ASSUME IInv, [Next]_vars
    PROVE  Finalizers'
  <1> USE DEF IInv, TypeOK, ObjectsOK
  <1>t. api \in Object /\ cache \in Object /\ mem \in Object
    BY DEF PassOK
  <1>p. /\ Creating \cap Deleting = {} /\ Emptied \subseteq Deleting
        /\ {"idle", "status", "addFinalizer"} \cap (Creating \cup Deleting) = {}
        /\ Identified \subseteq Creating /\ "native" \in Creating
        /\ "removeFinalizer" \in Emptied /\ "deregister" \in Deleting \ Emptied
        /\ "identity" \in Creating
    BY DEF Creating, Identified, Registered, Applying, Deleting, Emptied
  <1>1. CASE CreatingStep
    <2>1. pc \in Creating /\ pc' \notin Deleting /\ pc' # "addFinalizer" /\ Held(api)
      BY <1>1, <1>p, CreatingFrame DEF Finalizers
    <2>2. Live(mem) /\ Live(mem')
      BY <1>1, <2>1, CreatingFrame DEF Finalizers, SameVersion, Differ, Live, Held
    <2> QED
      BY <1>1, <1>p, <2>1, <2>2, CreatingFrame DEF Finalizers, Live, Held
  <1>2. CASE DeletingStep
    <2>1. pc \in Deleting /\ pc' \notin Creating /\ pc' # "addFinalizer"
      BY <1>2, <1>p, DeletingFrame
    <2>2. pc' \in Emptied => native' = {}
      BY <1>2, DeletingFrame DEF Finalizers
    <2> QED
      BY <1>2, <2>1, <2>2, DeletingFrame DEF Finalizers, Live, Held
  <1>3. CASE QuietStep \/ UNCHANGED vars
    BY <1>3, QuietFrame DEF Finalizers, Live, Held
  <1>4. CASE Get
    <2>1. CASE UNCHANGED pc
      BY <1>4, <2>1, <1>p DEF Get, FirstPhase, Finalizers, Live, Held, objectVars, worldVars
    <2>2. CASE cache.deleting /\ pc' = "deregister"
      BY <1>4, <2>2, <1>p DEF Get, Finalizers, Live, Held, objectVars, worldVars
    <2>3. CASE ~cache.deleting /\ pc' = "addFinalizer"
      BY <1>4, <2>3, <1>p DEF Get, Finalizers, Live, Held, objectVars, worldVars
    <2>4. CASE Live(cache) /\ mem' = cache /\ pc' = "identity"
      BY <1>4, <2>4, <1>p DEF Get, Finalizers, Live, Held, objectVars, worldVars
    <2> QED
      BY <1>4, <2>1, <2>2, <2>3, <2>4 DEF Get, FirstPhase, Live, Held
  <1>5. CASE AddFinalizer
    <2>1. pc = "addFinalizer" /\ pc' = "idle" /\ native' = native
      BY <1>5 DEF AddFinalizer, Return, worldVars
    <2>2. CASE UNCHANGED objectVars
      BY <1>p, <2>1, <2>2 DEF Finalizers, Live, Held, objectVars
    <2>3. CASE api.exists /\ ~api.finalizer /\ Write(WithFinalizer(api, TRUE))
      <3>1. Differ(api, api', {"finalizer"}) /\ api'.finalizer
        BY <1>t, <2>3, FinalizerUpdate DEF Write
      <3>2. ~cache.deleting /\ ~api.deleting /\ native = {}
        BY <2>1, <2>3 DEF Finalizers, Held
      <3> QED
        BY <1>p, <2>1, <2>3, <3>1, <3>2 DEF Write, Finalizers, Live, Held, Differ
    <2> QED
      BY <1>5, <2>2, <2>3 DEF AddFinalizer
  <1>6. CASE UpdateStatus
    <2>1. pc' = "idle" /\ native' = native
      BY <1>6 DEF UpdateStatus, Return, worldVars
    <2>2. CASE UNCHANGED objectVars
      BY <1>p, <2>1, <2>2 DEF Finalizers, Live, Held, objectVars
    <2>3. CASE Write(NewStatus)
      <3>1. Differ(api, api', {"obs", "conds", "reason", "registered"})
        BY <1>t, <2>3, FieldTypes, PassStatusUpdate DEF Write, NewStatus, Object
      <3> QED
        BY <1>p, <2>1, <2>3, <3>1 DEF Write, Finalizers, Live, Held, Differ
    <2> QED
      BY <1>6, <2>2, <2>3 DEF UpdateStatus
  <1>7. CASE RemoveFinalizer
    <2>1. /\ pc = "removeFinalizer" /\ pc' = "idle" /\ native' = native
          /\ native = {} /\ ~Live(api) /\ ~Live(cache)
      BY <1>7, <1>p DEF RemoveFinalizer, Return, Finalizers
    <2>2. CASE UNCHANGED objectVars
      BY <1>p, <2>1, <2>2 DEF Finalizers, Live, Held, objectVars
    <2>3. CASE Write(NoObject)
      BY <1>p, <2>1, <2>3, FreshFields DEF Write, Finalizers, Live, Held
    <2>4. CASE api.exists /\ ~api.deleting /\ api.finalizer
      BY <2>1, <2>4 DEF Live, Held
    <2> QED
      BY <1>7, <2>2, <2>3, <2>4 DEF RemoveFinalizer
  <1>8. ASSUME NEW s \in Specs, UserCreate(s)
        PROVE  Finalizers'
    BY <1>8, FreshFields DEF UserCreate, Write, Finalizers, Live, Held, worldVars
  <1>9. ASSUME NEW s \in Specs, UserEdit(s)
        PROVE  Finalizers'
    <2>1. Differ(api, api', {"spec", "gen"})
      BY <1>9, <1>t, SpecUpdate DEF UserEdit, Write
    <2> QED
      BY <1>9, <2>1 DEF UserEdit, Write, Finalizers, Live, Held, Differ, worldVars
  <1>10. CASE UserDelete
    <2>1. CASE ~api.finalizer /\ api' = NoObject
      BY <1>10, <2>1, FreshFields DEF UserDelete, Write, Finalizers, Live, Held, worldVars
    <2>2. CASE api.finalizer /\ api' = Terminating(api)
      <3>1. Differ(api, api', {"deleting", "gen"}) /\ api'.deleting
        BY <1>10, <1>t, <2>2, Termination DEF UserDelete
      <3> QED
        BY <1>10, <2>2, <3>1 DEF UserDelete, Write, Finalizers, Live, Held, Differ, worldVars
    <2> QED
      BY <1>10, <2>1, <2>2 DEF UserDelete, Write
  <1>11. CASE SyncCache
    BY <1>11, <1>p DEF SyncCache, Finalizers, Live, Held, passVars, worldVars
  <1>12. CASE Crash
    BY <1>12, <1>p DEF Crash, Finalizers, Live, Held, worldVars
  <1> QED
    BY <1>1, <1>2, <1>3, <1>4, <1>5, <1>6, <1>7, <1>8, <1>9, <1>10, <1>11, <1>12
    DEF Next, Reconcile, User, Environment, CreatingStep, DeletingStep, QuietStep

(* The facts about the identity Secret are preserved. *)
LEMMA IdentitiesStep ==
    ASSUME IInv, [Next]_vars
    PROVE  Identities'
  <1> USE DEF IInv, Identities
  <1>p. /\ Identified \subseteq Creating \ {"identity"} /\ Creating \subseteq Identified \cup {"identity"}
        /\ Identified \cap (Deleting \cup {"idle", "status", "addFinalizer", "identity"}) = {}
        /\ {"cleanup", "removeFinalizer"} \subseteq Emptied /\ "native" \in Identified
        /\ "deregister" \in Deleting
    BY DEF Creating, Identified, Registered, Applying, Deleting, Emptied
  <1>1. CASE CreatingStep
    BY <1>1, <1>p, CreatingFrame
  <1>2. CASE DeletingStep
    BY <1>2, <1>p, DeletingFrame DEF Finalizers
  <1>3. CASE QuietStep \/ UNCHANGED vars
    BY <1>3, QuietFrame
  <1>4. CASE RemoveFinalizer
    BY <1>4, <1>p DEF RemoveFinalizer, Return, Finalizers
  <1>5. CASE Get
    BY <1>5, <1>p DEF Get, FirstPhase, worldVars
  <1>6. CASE AddFinalizer \/ UpdateStatus \/ Crash
    BY <1>6, <1>p DEF AddFinalizer, UpdateStatus, Crash, Return, worldVars
  <1>7. CASE User \/ SyncCache
    BY <1>7 DEF User, UserCreate, UserEdit, UserDelete, SyncCache, passVars, worldVars
  <1> QED
    BY <1>1, <1>2, <1>3, <1>4, <1>5, <1>6, <1>7
    DEF Next, Reconcile, Environment, CreatingStep, DeletingStep, QuietStep

(* The conditions and the spec of the copies the phases make. *)
LEMMA CopyFields ==
    ASSUME TypeOK, NEW c \in CondTypes, NEW v \in CondStatus
    PROVE  LET m == setAGWCondition(mem, c, v)
           IN  /\ m.conds[c] = v
               /\ \A d \in CondTypes \ {c} : m.conds[d] = mem.conds[d]
               /\ m.spec = mem.spec
               /\ m.registered = mem.registered
               /\ \A b \in BOOLEAN :
                     /\ updateAGWStatusDetails(m, b).conds = m.conds
                     /\ updateAGWStatusDetails(m, b).spec = m.spec
                     /\ updateAGWStatusDetails(m, b).registered = b
  <1> DEFINE m == setAGWCondition(mem, c, v)
  <1>1. mem \in Object
    BY DEF TypeOK, PassOK
  <1>2. /\ m \in Object /\ Differ(mem, m, {"conds"})
        /\ m.conds[c] = v
        /\ \A d \in CondTypes \ {c} : m.conds[d] = mem.conds[d]
    BY <1>1, ConditionUpdate
  <1>3. ASSUME NEW b \in BOOLEAN
        PROVE  /\ Differ(m, updateAGWStatusDetails(m, b), {"registered"})
               /\ updateAGWStatusDetails(m, b).registered = b
    BY <1>2, RegisteredUpdate
  <1> HIDE DEF m
  <1> QED
    BY <1>2, <1>3 DEF Differ, m

(* What a pass has established holds until it ends. *)
LEMMA PassFactsStep ==
    ASSUME IInv, [Next]_vars
    PROVE  PassFacts'
  <1>i. TypeOK /\ Finalizers /\ PassFacts
    BY DEF IInv
  <1>p. /\ Registered = {"rollout", "labels", "validate", "ueransim", "native"}
        /\ Applying = {"rollout", "labels", "validate"}
        /\ Identified = {"rollout", "labels", "validate", "ueransim", "native", "datapath",
                         "lifecycle", "register"}
        /\ Creating = Identified \cup {"identity"}
        /\ Deleting = {"unlabel", "cleanup", "removeFinalizer", "deregister", "deleteNative"}
        /\ SettledReasons = {"NativeResourcesReady", "WaitingForUERANSIMGate"}
    BY DEF Creating, Identified, Registered, Applying, Deleting, Emptied, SettledReasons
  <1>1. CASE pc' \in Deleting \cup {"idle", "addFinalizer", "identity"}
    BY <1>1, <1>p DEF PassFacts
  <1>2. CASE UNCHANGED <<pc, mem, local, result, native>>
    BY <1>i, <1>2 DEF PassFacts, Met, Live, Held
  <1>3. CASE DeletingStep
    BY <1>1, <1>3, <1>p, DeletingFrame DEF PassFacts
  <1>4. CASE CreatingStep
    <2> USE DEF Continue, updateAGWStatus, Finish
    <2>s. /\ CondTypes = {"Ready", "IdentityReady", "DatapathReady", "TrustBundleSynced",
                           "GatewayRegistered", "UERANSIMValidated"}
          /\ {"None", "True", "False", "Unknown"} \subseteq CondStatus
      BY DEF CondTypes, CondStatus
    <2>c. \A c \in CondTypes, v \in CondStatus :
            /\ setAGWCondition(mem, c, v).conds[c] = v
            /\ \A d \in CondTypes \ {c} : setAGWCondition(mem, c, v).conds[d] = mem.conds[d]
            /\ setAGWCondition(mem, c, v).spec = mem.spec
            /\ setAGWCondition(mem, c, v).registered = mem.registered
      BY <1>i, CopyFields
    <2>r. \A c \in CondTypes, v \in CondStatus, b \in BOOLEAN :
            LET m == updateAGWStatusDetails(setAGWCondition(mem, c, v), b)
            IN  m.conds[c] = v /\ m.spec = mem.spec /\ m.registered = b
                /\ \A d \in CondTypes \ {c} : m.conds[d] = mem.conds[d]
      BY <1>i, CopyFields
    <2>l. Live(mem')
      BY <1>i, <1>4, CreatingFrame DEF Finalizers, SameVersion, Differ, Live, Held
    <2>k. /\ local \in Local
          /\ \A a \in BOOLEAN : WithDatapath(local, a).datapathReady = a
          /\ \A a, b \in BOOLEAN : /\ WithGate(local, a, b).datapathReady = local.datapathReady
                                   /\ WithGate(local, a, b).simulator = a
      <3>1. local \in Local
        BY <1>i DEF TypeOK, PassOK
      <3> QED
        BY <3>1, LocalUpdate
    <2>w. /\ agwDatapathNodesReady \in BOOLEAN /\ gateCache \in BOOLEAN
          /\ mem.spec.datapath \in BOOLEAN
      BY <1>i, SpecsAssumption DEF agwDatapathNodesReady, TypeOK, PassOK, Object, SpecType, WorldOK
    <2>f. CASE pc' = "status" /\ result'.reason \in {"Failed", "Waiting"}
      BY <2>f, <1>p DEF PassFacts
    <2>1. CASE ReconcileIdentity
      <3>1. CASE pc' = "datapath"
        <4>1. mem' = updateAGWStatusDetails(setAGWCondition(mem, "IdentityReady", "True"), FALSE)
          BY <2>1, <3>1 DEF ReconcileIdentity
        <4>2. mem'.conds["IdentityReady"] = "True"
          <5>1. "IdentityReady" \in CondTypes /\ "True" \in CondStatus
            BY <2>s
          <5>2. \A b \in BOOLEAN :
                  updateAGWStatusDetails(setAGWCondition(mem, "IdentityReady", "True"), b)
                    .conds["IdentityReady"] = "True"
            BY <5>1, <2>r
          <5> QED
            BY <4>1, <5>2
        <4> QED
          BY <3>1, <4>2, <1>p DEF PassFacts
      <3>2. pc' = "datapath" \/ updateAGWStatus(mem', "Failed")
        BY <2>1 DEF ReconcileIdentity
      <3>3. updateAGWStatus(mem', "Failed") => pc' = "status" /\ result'.reason = "Failed"
        OBVIOUS
      <3> QED
        BY ONLY <2>f, <3>1, <3>2, <3>3
    <2>2. CASE CheckDatapath
      <3>1. CASE pc' = "lifecycle"
        <4>1. /\ mem'.spec = mem.spec
              /\ mem'.conds["IdentityReady"] = mem.conds["IdentityReady"]
              /\ mem.spec.datapath => mem.spec.selector
          <5>1. \/ mem' = mem /\ ~mem.spec.datapath
                \/ /\ mem.spec.selector
                   /\ \E v \in {"True", "False"} : mem' = setAGWCondition(mem, "DatapathReady", v)
            BY <2>2, <3>1 DEF CheckDatapath
          <5> QED
            BY <5>1, <2>c, <2>s
        <4>2. ASSUME mem.spec.datapath, local'.datapathReady
              PROVE  mem'.conds["DatapathReady"] = "True"
          <5>1. local' = WithDatapath(local, agwDatapathNodesReady)
            BY <2>2, <3>1, <4>2 DEF CheckDatapath
          <5>2. agwDatapathNodesReady
            BY <5>1, <4>2, <2>k, <2>w
          <5>3. mem' = setAGWCondition(mem, "DatapathReady", "True")
            BY <2>2, <3>1, <4>2, <5>2 DEF CheckDatapath
          <5> QED
            BY <5>3, <2>c, <2>s
        <4>3. mem.conds["IdentityReady"] = "True"
          BY <1>i, <2>2, <1>p DEF CheckDatapath, PassFacts
        <4> QED
          BY <3>1, <4>1, <4>2, <4>3, <1>p DEF PassFacts
      <3>2. pc' = "lifecycle" \/ updateAGWStatus(mem', "Failed")
        BY <2>2 DEF CheckDatapath
      <3>3. updateAGWStatus(mem', "Failed") => pc' = "status" /\ result'.reason = "Failed"
        OBVIOUS
      <3> QED
        BY ONLY <2>f, <3>1, <3>2, <3>3
    <2>3. CASE ReconcileLifecycle
      <3>1. CASE pc' = "register"
        <4>1. mem' = setAGWCondition(mem, "TrustBundleSynced", "True") /\ local' = local
              /\ pc = "lifecycle"
          BY <2>3, <3>1 DEF ReconcileLifecycle
        <4> QED
          BY <1>i, <3>1, <4>1, <2>c, <2>s, <1>p DEF PassFacts
      <3>2. pc' = "register" \/ (pc' = "status" /\ result'.reason \in {"Failed", "Waiting"})
        BY <2>3 DEF ReconcileLifecycle
      <3> QED
        BY ONLY <2>f, <3>1, <3>2
    <2>4. CASE ReconcileRegistration
      <3>1. CASE pc' = "ueransim"
        <4>1. /\ mem'.spec = mem.spec /\ local' = local
              /\ \A d \in CondTypes \ {"GatewayRegistered"} : mem'.conds[d] = mem.conds[d]
          <5>1. PICK v \in {"True", "False"}, b \in BOOLEAN :
                    /\ local' = local
                    /\ mem' = updateAGWStatusDetails(setAGWCondition(mem, "GatewayRegistered", v), b)
            BY <2>4, <3>1 DEF ReconcileRegistration
          <5>2. "GatewayRegistered" \in CondTypes /\ v \in CondStatus
            BY <2>s
          <5> QED
            BY <5>1, <5>2, <2>r
        <4>2. ASSUME mem.spec.registration
              PROVE  mem'.conds["GatewayRegistered"] = "True" /\ mem'.registered
          <5>1. mem' = updateAGWStatusDetails(setAGWCondition(mem, "GatewayRegistered", "True"), TRUE)
            BY <2>4, <3>1, <4>2 DEF ReconcileRegistration
          <5> QED
            BY <5>1, <2>r, <2>s
        <4> QED
          BY <1>i, <2>4, <2>s, <3>1, <4>1, <4>2, <1>p DEF ReconcileRegistration, PassFacts
      <3>2. pc' = "ueransim" \/ (pc' = "status" /\ result'.reason \in {"Failed", "Waiting"})
        BY <2>4 DEF ReconcileRegistration
      <3> QED
        BY ONLY <2>f, <3>1, <3>2
    <2>5. CASE StartGate
      <3>1. CASE pc' = "native"
        <4>1. /\ mem' = mem /\ native' = native /\ pc = "ueransim"
              /\ local'.datapathReady = local.datapathReady
              /\ local'.simulator => mem.spec.ueransim # "Off"
          BY <2>5, <3>1, <2>k, <2>w DEF StartGate, worldVars
        <4> QED
          BY <1>i, <3>1, <4>1, <1>p DEF PassFacts
      <3>2. pc' = "native" \/ (pc' = "status" /\ result'.reason = "Failed")
        BY <2>5 DEF StartGate
      <3> QED
        BY ONLY <2>f, <3>1, <3>2
    <2>6. CASE ReconcileNative
      BY <1>i, <2>6, <1>p DEF PassFacts, ReconcileNative, Release, nativeAGWApplyFilter, Base, Groups
    <2>7. CASE Rollout
      BY <1>i, <2>7, <1>p DEF PassFacts, Rollout, worldVars
    <2>8. CASE ReconcileLabels
      BY <1>i, <2>8, <2>l, <1>p DEF PassFacts, ReconcileLabels, DatapathPending, Met
    <2>9. CASE Validate
      <3>1. /\ pc = "validate" /\ pc' = "status" /\ native' = native
            /\ mem'.spec = mem.spec /\ mem'.registered = mem.registered
            /\ \A d \in CondTypes \ {"UERANSIMValidated"} : mem'.conds[d] = mem.conds[d]
        <4>1. /\ pc = "validate" /\ pc' = "status" /\ native' = native
              /\ \/ mem' = mem
                 \/ \E v \in CondStatus : mem' = setAGWCondition(mem, "UERANSIMValidated", v)
          BY <2>9, <2>s, ConditionRemoval DEF Validate, worldVars
        <4> QED
          BY <4>1, <2>c, <2>s
      <3> QED
        BY <1>i, <3>1, <2>l, <2>s, <1>p DEF PassFacts, Met
    <2> QED
      BY <1>4, <2>1, <2>2, <2>3, <2>4, <2>5, <2>6, <2>7, <2>8, <2>9 DEF CreatingStep
  <1>5. CASE AddFinalizer \/ UpdateStatus \/ RemoveFinalizer \/ Crash
    BY <1>1, <1>5 DEF AddFinalizer, UpdateStatus, RemoveFinalizer, Crash, Return
  <1>6. CASE Get
    BY <1>1, <1>6, <1>p DEF Get, FirstPhase
  <1>7. CASE User \/ SyncCache
    BY <1>2, <1>7 DEF User, UserCreate, UserEdit, UserDelete, SyncCache, passVars, worldVars
  <1>8. CASE QuietStep \/ UNCHANGED vars
    BY <1>2, <1>8, QuietFrame
  <1> QED
    BY <1>3, <1>4, <1>5, <1>6, <1>7, <1>8
    DEF Next, Reconcile, Environment, CreatingStep, DeletingStep, QuietStep

(* The two properties of a settled status, together. *)
LEMMA SettledStep ==
    ASSUME IInv, [Next]_vars
    PROVE  SettledMeansReconciled' /\ SimulatorFollowsSpec'
  <1> DEFINE Good == /\ Settled => Met(api)
                     /\ Settled /\ ~api.deleting => Base \subseteq native
                     /\ Settled /\ api.spec.ueransim = "Off" => "simulator" \notin native
  <1>i. /\ TypeOK /\ Versions /\ Finalizers /\ PassFacts /\ Good
        /\ api \in Object /\ mem \in Object
    BY DEF IInv, SettledMeansReconciled, SimulatorFollowsSpec, Met, Base, TypeOK, ObjectsOK, PassOK
  <1> SUFFICES Good'
    BY DEF SettledMeansReconciled, SimulatorFollowsSpec, Met, Base
  <1>u. CASE ~Settled'
    BY <1>u
  <1>v. CASE UNCHANGED <<api, native>>
    BY <1>i, <1>v DEF Settled, Met
  <1>1. CASE CreatingStep
    <2>1. /\ api' = api
          /\ native' = native \/ (pc = "native" /\ Base \cap native \subseteq native')
          /\ "simulator" \in native' => "simulator" \in native \/ (pc = "native" /\ local.simulator)
      BY <1>i, <1>1, CreatingFrame
    <2>2. ASSUME Settled, api.spec.ueransim = "Off"
          PROVE  "simulator" \notin native'
      <3>1. pc = "native" => mem.spec = api.spec
        BY <1>i, <2>2 DEF Versions, Creating, Identified, Registered
      <3>2. ~(pc = "native" /\ local.simulator)
        BY <1>i, <2>2, <3>1 DEF PassFacts, Registered
      <3> QED
        BY <1>i, <2>1, <2>2, <3>2
    <2> QED
      BY <1>i, <2>1, <2>2 DEF Settled, Met
  <1>2. CASE DeletingStep
    <2>1. api' = api /\ native' \subseteq native /\ pc \in Deleting
      BY <1>2, DeletingFrame
    <2>2. Settled => api.deleting
      BY <1>i, <2>1 DEF Versions, Finalizers, Settled, Live, Held
    <2> QED
      BY <1>i, <2>1, <2>2 DEF Settled, Met
  <1>3. CASE QuietStep \/ UNCHANGED vars
    BY <1>v, <1>3, QuietFrame
  <1>4. CASE Get \/ SyncCache \/ Crash
    BY <1>v, <1>4 DEF Get, SyncCache, Crash, objectVars, worldVars
  <1>5. CASE AddFinalizer
    <2>1. CASE UNCHANGED objectVars
      BY <1>v, <1>5, <2>1 DEF AddFinalizer, objectVars, worldVars
    <2>2. CASE ~api.finalizer /\ Write(WithFinalizer(api, TRUE))
      <3>1. Differ(api, api', {"finalizer"}) /\ ~Settled
        BY <1>i, <2>2, FinalizerUpdate DEF Write, Versions
      <3> QED
        BY <1>u, <3>1 DEF Settled, Differ
    <2> QED
      BY <1>5, <2>1, <2>2 DEF AddFinalizer
  <1>6. CASE UpdateStatus
    <2>1. CASE UNCHANGED objectVars
      BY <1>v, <1>6, <2>1 DEF UpdateStatus, objectVars, worldVars
    <2>2. CASE memCurrent /\ Write(NewStatus) /\ Settled'
      <3>1. /\ Differ(api, api', {"obs", "conds", "reason", "registered"})
            /\ api'.reason = result.reason /\ api'.registered = mem.registered
            /\ \A d \in CondTypes \ {"Ready"} : api'.conds[d] = mem.conds[d]
        BY <1>i, <2>2, FieldTypes, PassStatusUpdate DEF Write, NewStatus, Object
      <3>2. api'.spec = mem.spec
        BY <1>i, <2>2, <3>1 DEF Versions, Differ
      <3>3. result.reason \in SettledReasons
        BY <2>2, <3>1 DEF Settled, SettledReasons
      <3>4. /\ Met(mem) /\ Base \subseteq native
            /\ mem.spec.ueransim = "Off" => "simulator" \notin native
        BY <1>i, <1>6, <3>3 DEF PassFacts, UpdateStatus
      <3>5. Met(api')
        BY <3>1, <3>2, <3>4 DEF Met, CondTypes
      <3>6. native' = native
        BY <1>6 DEF UpdateStatus, worldVars
      <3> QED
        BY <3>2, <3>4, <3>5, <3>6 DEF Met
    <2> QED
      BY <1>6, <1>u, <2>1, <2>2 DEF UpdateStatus
  <1>7. CASE RemoveFinalizer
    <2>1. native' = native
      BY <1>7 DEF RemoveFinalizer
    <2>2. CASE UNCHANGED objectVars
      BY <1>v, <2>1, <2>2 DEF objectVars
    <2>3. CASE Write(NoObject)
      BY <1>u, <2>3, FreshFields DEF Write, Settled
    <2>4. CASE api.exists /\ ~api.deleting /\ api.finalizer
      BY <1>i, <1>7, <2>4 DEF RemoveFinalizer, Finalizers, Deleting, Emptied, Live, Held
    <2> QED
      BY <1>7, <2>2, <2>3, <2>4 DEF RemoveFinalizer
  <1>8. CASE User
    <2>1. ASSUME NEW s \in Specs, UserCreate(s)
          PROVE  ~Settled'
      BY <2>1, FreshFields DEF UserCreate, Write, Settled
    <2>2. api.gen \in Nat /\ api.obs \in Nat /\ api.obs <= api.gen
      BY <1>i, FieldTypes DEF Versions
    <2>3. ASSUME NEW s \in Specs, UserEdit(s)
          PROVE  ~Settled'
      <3>1. Differ(api, api', {"spec", "gen"}) /\ api'.gen = api.gen + 1
        BY <1>i, <2>3, SpecUpdate DEF UserEdit, Write
      <3> QED
        BY <2>2, <3>1 DEF Settled, Differ
    <2>4. CASE UserDelete
      <3>1. CASE api' = NoObject
        BY <1>u, <3>1, FreshFields DEF Settled
      <3>2. CASE api' = Terminating(api)
        <4>1. Differ(api, api', {"deleting", "gen"}) /\ api'.gen = api.gen + 1
          BY <1>i, <2>4, <3>2, Termination DEF UserDelete
        <4>2. ~Settled'
          BY <2>2, <4>1 DEF Settled, Differ
        <4> QED
          BY <1>u, <4>2
      <3> QED
        BY <2>4, <3>1, <3>2 DEF UserDelete, Write
    <2> QED
      BY <1>8, <1>u, <2>1, <2>3, <2>4 DEF User
  <1> QED
    BY <1>1, <1>2, <1>3, <1>4, <1>5, <1>6, <1>7, <1>8
    DEF Next, Reconcile, Environment, CreatingStep, DeletingStep, QuietStep

-----------------------------------------------------------------------------
(* The inductive invariant holds initially. *)
LEMMA InvariantInit == Init => IInv
  <1> SUFFICES ASSUME Init PROVE IInv
    OBVIOUS
  <1>1. TypeOK
    BY InitTypes
  <1>2. pc \notin Creating \cup Deleting /\ pc # "status"
    BY DEF Init, Creating, Identified, Registered, Applying, Deleting, Emptied
  <1>3. Versions
    BY FreshFields DEF Init, Versions, Settled
  <1>4. Finalizers
    BY <1>2, FreshFields DEF Init, Finalizers, Deleting, Live, Held
  <1>5. Identities /\ PassFacts
    BY <1>2 DEF Init, Identities, PassFacts, Creating, Identified, Registered
  <1>6. SettledMeansReconciled /\ SimulatorFollowsSpec
    BY FreshFields DEF Init, SettledMeansReconciled, SimulatorFollowsSpec, Settled
  <1> QED
    BY <1>1, <1>3, <1>4, <1>5, <1>6 DEF IInv

(* Every step preserves the inductive invariant. *)
LEMMA InvariantStep == IInv /\ [Next]_vars => IInv'
  BY TypeStep, VersionsStep, FinalizersStep, IdentitiesStep, PassFactsStep, SettledStep
  DEF IInv

(* The inductive invariant holds throughout. *)
LEMMA Invariant == Spec => []IInv
  BY InvariantInit, InvariantStep, PTL DEF Spec

(* The status of the current generation never claims more than the pass    *)
(* that wrote it has established, for every interleaving of edits,         *)
(* deletions, recreations, stale reads, faults and crashes.                *)
THEOREM SettledIsReconciled == Spec => []SettledMeansReconciled
  BY Invariant, PTL DEF IInv

(* No pass that works on an old copy starts the simulator again once the   *)
(* status has settled on a generation without it.                          *)
THEOREM SimulatorStaysOff == Spec => []SimulatorFollowsSpec
  BY Invariant, PTL DEF IInv

(* The finalizer outlives every rendered object. *)
THEOREM NothingOrphaned == Spec => []NoOrphans
  <1>1. IInv => NoOrphans
    BY DEF IInv, Finalizers, Held, NoOrphans
  <1> QED
    BY <1>1, Invariant, PTL

(* Workloads never run without the identity Secret they mount. *)
THEOREM IdentityOutlivesWorkloads == Spec => []WorkloadsHaveIdentity
  <1>1. IInv => WorkloadsHaveIdentity
    BY DEF IInv, Identities, WorkloadsHaveIdentity
  <1> QED
    BY <1>1, Invariant, PTL

=============================================================================
