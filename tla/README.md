# A TLA+ model of magma-operator

`magma-operator` is a Kubernetes operator (controller-runtime, Go) that deploys
the Magma orchestrator (`MagmaOrc8r`) and access gateways (`MagmaAGW`) from
manifests built into the binary. This directory models its two controllers: the
reconcile loop of a `MagmaAGW` with the handlers it calls (identity and
registration, trust bundle, simulator validation), and the `MagmaOrc8r`
controller with its certificates. The modules are checked with TLC on small
instances; every safety property that the passing runs check, the refinement of
`TrustDelivery` and the action properties included, is also proved with TLAPS, for
all values of the constants.

## The system

| Part | Source | State it keeps | Interacts with |
|---|---|---|---|
| AGW reconcile loop | `magmaagw_controller.go` | finalizer, status and conditions of the object; work queue, caches | every part below, in a fixed order, once per pass |
| Datapath gate | same file | the datapath-ready label on nodes | the `agw-node-prep` DaemonSet |
| AGW identity | `agw_identity.go` | the identity Secret (challenge key, hardware ID) | owner reference, garbage collector, import Secret |
| Gateway registration | `agw_identity.go` | Jobs `<name>-register-gateway`, `<name>-delete-gateway` in the Orc8r namespace | NMS REST API, from a script in the Job's pod |
| Trust bundle, host alias | `agw_lifecycle.go` | the AGW cert Secret, the Job `<release>-rootca-sync`, a rollout annotation | Orc8r cert Secret, the AGW's PVC |
| UERANSIM validation | `agw_validation.go` | a one-shot Job and a rollout annotation | simulator Deployments and pods |
| Native runner | `native_runner.go` | the rendered objects of `agw.yaml` / `orc8r.yaml` | server-side apply |
| Orc8r controller, certificates | `magmaorc8r_controller.go`, `orc8r_certs.go` | finalizer, status, cert Secret, bootstrap Job | native runner |
| Manager | `cmd/main.go` | leader election | one worker per controller |

What is hard here: a pass reads everything from informer caches that lag behind the
API server and works on one copy of its object to the end; users edit, delete and
recreate the object meanwhile; hardly anything is watched, so progress hangs on
requeues; any call may fail and the manager may restart between any two calls;
Jobs are deleted in the background, so that their scripts run on next to their
replacements; finished Jobs vanish after an hour; and names are derived so that
different objects may share Jobs and Secrets. `PROJECT.json` lists these hazards
line by line with the property that covers each.

What makes the parts correct:

* reconcile loop: a settled status is about the current generation; nothing is
  orphaned; no early return is forgotten; deletion and convergence come to an end;
* identity and registration: "registered" is reported only for a confirmed id and
  key, and in the end in the spec's network; generated keys are not shared; registration and deregistration finish;
* trust bundle: the workloads are rolled for a CA only once the PVC has it, the
  PVC ends up with the CA the Orc8r serves, and the gateway with a certificate
  under it;
* simulator validation: one Job per trigger, and the condition is that Job's outcome;
* datapath gate: workloads go only to prepared nodes, labels do not leak;
* native runner: applied objects follow the filter, Secrets are not overwritten;
* Orc8r controller: certificates are replaced only for another domain, Deployments
  and bootstrap Job follow them, nothing is orphaned.

## Modules

### `AgwReconcile`

One `MagmaAGW` object and the passes over it. `api` is the object in the API
server, `cache` the informer's copy, `mem` the copy of the running pass;
`cacheCurrent` and `memCurrent` say whether a copy has the API server's
resourceVersion, which is all that optimistic concurrency looks at. `pc` is the
next phase of the pass; each phase of `Reconcile` (and of `reconcileAGWDeletion`)
is one action:

| Action | Code |
|---|---|
| `Get`, `AddFinalizer` | reading the object, the finalizer patch and the immediate requeue |
| `ReconcileIdentity` | identity Secret, status details, condition `IdentityReady` |
| `CheckDatapath` | selector check and `agwDatapathNodesReady` |
| `ReconcileLifecycle`, `ReconcileRegistration` | trust bundle and registration: ready, waiting or failing |
| `StartGate` | `enableUERANSIM`, start policy, gate ConfigMap from the cache |
| `ReconcileNative`, `Rollout` | the loop over `agw.yaml` with its filter, then annotation and pod clean-up |
| `ReconcileLabels`, `Validate` | the datapath labels, the closed gate, the validation |
| `UpdateStatus` | `updateAGWStatusWithRequeue` / `updateAGWReadyStatusWithRequeue` with conflict and error |
| `Deregister`, `DeleteNative`, `RemoveLabels`, `cleanupAGWDurableState`, `RemoveFinalizer` | the deletion |

Around the pass: `UserCreate`, `UserEdit`, `UserDelete`, `SyncCache`, `SyncGate`
(the ConfigMap watch with `mapUERANSIMGateConfigMap`), `TimerFires`, `Resync`,
`Crash`, the gate ConfigMap, the DaemonSet's readiness and the garbage collector.
What the sub-handlers find is the variable `handlers`; it changes at any time.

Abstractions. The objects of `agw.yaml` form four groups (PVC, node prep,
workloads, simulator), and a failing loop leaves any subset done. The nodes that
the selector matches are one node. The PVC has the name that `cleanupAGWDurableState`
expects, as it does for a release called `agwc`. An unsupported
`ueransimStartPolicy` is left out: the CRD's enum rejects it. `labels` with no
matching node behaves like a DaemonSet that is not ready. `spec.releaseName` is fixed: it
may be edited, and the controller then works on objects of the new name only, so that the
workloads and simulator of the old name run on until the object is deleted and the
garbage collector follows their owner references.

### `GatewayRegistration`

Several objects, their identity Secrets, the registration and deregistration Jobs,
the scripts inside the Jobs, and the NMS records. A pass is cut where another actor
matters: `ReconcileIdentity` (`CreateOrUpdate` against the cached Secret, with
conflict and foreign controller), `ReadIdentity` (the second, possibly stale, read),
`Register` (`reconcileAGWGatewayRegistration`), and for a terminating object
`Deregister` and `FinishDeletion`. `RunJob` and `RunOrphan` take one HTTP request of
a script; `RegisterRequest` follows the shell script line by line: look-up, generic
look-up, DELETE, POST, confirmation, with `curl -f` and without.

A script gets a `Request`: the network through its environment, and the payload, which
is the id and the key. A Job is `Current` if the hash of its payload is the pass's, as
in the code (`agw_identity.go:221`); the network is not hashed (`:456-489`), so a Job
made for another network counts. The NMS has one record per network and id.

Abstractions. A key stands for the key and the hardware ID it came with; the payload
is the gateway id and the key, since name, description and tier only add further
ways for the hash to differ. `networkID` stands for all that reaches the script through
its environment; the API host and the admin certificate Secret, which it gets from there
too, behave alike. An empty `gw` is a spec with either id missing. `orc8rNamespace`, which
decides where the Jobs live, is not edited. Networks exist (the script waits for its own).
The waiting loops of the script and the tier are part of its first look-up. An LTE record is a generic record as well, POST fails on an
existing one. A generated key is one that was never used. The object holds its
finalizer from the first pass on: that part is in `AgwReconcile`. `confirmed` is a
history variable that no action reads. A finished Job expires after an hour and a
pass that waits for it comes after 20 seconds, so `ExpireJob` does not take a
succeeded Job from a queued pass while the Orc8r is up.

### `TrustBundle` and `TrustDelivery`

`TrustBundle` is `reconcileAGWTrustBundle` and what the rest of the pass does with
its hash. The CA travels from the Orc8r cert Secret (`served`) into the AGW cert
Secret (`secret`), through the Job `<release>-rootca-sync` (`job`, `pod`) onto the
volume (`pvc`), and then onto the Deployments' annotation (`deploy`).

| Action | Code |
|---|---|
| `Start` | reading the Orc8r Secret (and, before it, the host alias's Service) |
| `WriteAGWSecret` | `CreateOrUpdate` of the AGW cert Secret against the cached copy |
| `SyncVolume` | the PVC look-up and `reconcileRootCASyncJob`: replace, ready, wait, create |
| `Apply`, `Rollout` | the native release, then `annotateAGWCoreDeploymentsForRootCA` |
| `WriteStatus` | the status with `TrustBundleSynced` and `trustBundleHash` |
| `MountSync`, `FinishSync`, `FailSync` | the Job's pod: mounts the Secret, runs the script, fails before or after its `rm` |
| `OrphanFinishes`, `CollectOrphans` | pods of Jobs that were deleted in the background |
| `ConfigJob` | the manifest's own configuration Job, which copies the CA as well |
| `Expire` | both TTLs |

Around them Orc8r generates new CAs, magmad bootstraps, five informers lag, and the
manager restarts. CAs are numbers in the order of their generation; `delivered` and
`jobSeen` are history variables.

`TrustDelivery` says what this amounts to, without Secrets, Jobs and caches: a CA is
served, delivered to the volume, announced to the workloads, in this order and never
backwards, and the announcement catches up. `TrustBundle` instantiates it with the
newest CA served and the Deployments' annotation. `Delivery` is the safety part of that
specification, `DeliveryCatchesUp` its liveness.

The release is called `agwc`, as in the samples: then the name that the code derives for
the PVC is the one in the manifest. A volume that is not in the cache at all counts as
needing no copy, which is what the code does.

### `Orc8rController`

`MagmaOrc8rReconciler.Reconcile`, phase by phase: `Get`, `AddFinalizer`, `Apply` (the
loop over `orc8r.yaml` as Secrets, Deployments and Jobs, with preserved Secrets and Jobs
that cannot be patched), `ReconcileCerts` (`reconcileOrc8rCertSecret`), `Rollout`,
`RerunBootstrap`, `PatchMagmalte`, `UpdateStatus`, and for a deleted object
`DeleteNative` and `RemoveFinalizer`. Secret, Deployments and bootstrap Job have cached
copies that lag each on its own, and may at the start be those of an object that has
just been deleted. A set of certificates is a number, 0 the manifest's placeholder. The
object is read without a lag: a pass that starts from an old copy behaves like one that
started before the edit. magmalte's HTTP mode is two flags: `http`, the command and
arguments, which the manifest sets too and `Apply` takes back, and `nodeEnv`,
`NODE_ENV=development`, which the manifest does not name (`orc8r.yaml:3853-3885`) and
server-side apply therefore leaves in place. `Writable` and `PatchMagmalte` compare copies
by value where the API server compares resourceVersions: an outdated copy that happens to
be equal again would conflict in reality, with the same outcome as a fault. `releaseName`
is fixed here as well; objects of an old name are left to the garbage collector.

### `UeransimValidation`

`reconcileUERANSIMValidation` with the apply filter before it and the status write after
it: `Get`, `Apply`, `Validate` (up to the Job it finds), `RollAndRun` (rollout,
readiness, pod choice, Job), `UpdateStatus`. The Deployment controller, the kubelet and
the Job are `ObserveUe`, `UeRuns`, `DeletePods` and `JobEnds`: the UE's Deployment has the
default rolling update, so that the old pod runs on until the new one is up. Caches hold
only what the pass reads: annotations, readiness, the running pods, the Job's outcome.
Any of them may be arbitrarily old, so the reads between two writes are one step. The
gNB's status is taken to follow its spec at once, as a late gNB delays the Job just as a
late UE does. The start policy is `Immediate`; the gate is in `AgwReconcile`.

### How they fit together

`AgwReconcile` treats its handlers as results: ready, waiting or failing, changing at any
time. `GatewayRegistration`, `TrustBundle` and `UeransimValidation` are the handlers
themselves, each with the part of the pass around it. `TrustBundle` takes the Orc8r's CA
as it comes; `Orc8rController` is where it comes from. The modules are not composed into
one specification: the handlers share no state but the object and the queue.

### MC modules

`MCAgwReconcile`, `MCGatewayRegistration`, `MCOrc8rController` and
`MCUeransimValidation` define the sets of specs and names of the runs. Nothing else is
overridden; `TrustBundle` needs numbers only.

## Runs

| Run | Result | Shows |
|---|---|---|
| `AgwSafety` | pass | `TypeOK`; `SettledMeansReconciled`: a status that settled for a generation reports that generation's prerequisites and objects; `SimulatorFollowsSpec`: no simulator outlives the spec that enabled it; `NoOrphans`, `WorkloadsHaveIdentity`, `DeletionCompletes` |
| `AgwLiveness` | pass | `SettledMeansReconciled` with the datapath gate on; `Converges`: no early return goes without a requeue or an event; `GateCloses`: closing the gate stops the simulator |
| `GwRegistration` | pass | `TypeOK`, `RegisteredWasConfirmed`, `KeysNotShared`, with two objects that share an identity Secret |
| `GwNetwork` | pass | `RegisteredWasConfirmed`, `RegistrationCompletes` while networkID and the switch are edited; `RegistrationFollowsNetwork`: a report for a network no script has looked in does not outlast the old Job's expiry and the pass after it |
| `GwRemoval` | pass | `RegistrationCompletes` with a key imported over another one, `DeregistrationCompletes`, with failing scripts, restarts and recreated objects |
| `TrustBundle` | pass | `TypeOK`; `SyncedIsDelivered`: a reported sync was a real one; `Delivery`: the refinement of `TrustDelivery` step by step; `DeliveryCatchesUp`: the rollout catches up with the CA served; `VolumeConverges`: no late pod, placeholder or failed Job leaves another CA for good; `GatewayCertified`: the gateway always comes back to a certificate under the served CA |
| `Orc8rController` | pass | `TypeOK`; `CertsReused`: generated certificates give way only to ones for another domain; `CertsServed`: Secret and Deployments end on one set for the domain; `BootstrapRuns`, `ReadyAgain`: no failed, outdated or unpatchable bootstrap Job and no conflict blocks the controller; `MagmalteFollowsSpec`; `NoOrphans`, `DeletionCompletes` |
| `UeransimValidation` | pass | `TypeOK`; `VerdictOfTrigger`, `VerdictReached`: the condition ends as the outcome of a Job for the trigger in the spec; `OneShot`: no second Job for a trigger |
| `AgwPVC` | violation | by default the PVC does not survive the object |
| `GwIdentity` | violation | a recreated object counts as registered with the key of its predecessor in the NMS |
| `GwRecord` | violation | a running registration script restores the record that deregistration removed |
| `UeransimAttach` | violation | a validation Job may exec into the UE pod of the previous trigger |

The four violations are disagreements between the documentation of the repository and
the code; `findings` in `PROJECT.json` quotes both sides. `GwIdentity` also rests on the
identity Secret being garbage collected with its owner, although the README says that
it is preserved by default.

Met while modelling, without a run:

* An edit of `networkID` alone starts no registration: the succeeded Job of the old network
  has the same payload hash, so `GatewayRegistered` is reported for a network in which no
  script has looked, until the Job expires and the object is reconciled again
  (`agw_identity.go:221`). `RegisteredInNetwork` states the opposite; TLC refutes it in the
  instance of `GwNetwork` (an edit between the read of the object and the registration, or
  after it), and `ConfirmedInTheOnlyNetwork` proves it for a single network. Nor does a later
  deletion remove the record of the old network: the deregistration Job gets the current one.
* `NODE_ENV=development` stays on magmalte when `nmsNodePort` is unset
  (`magmaorc8r_controller.go:250`): nothing removes it, and `MagmalteFollowsSpec` asks for it
  only while the node port is set.
* The deletion takes the datapath-ready label from the nodes the selector matches then
  (`magmaagw_controller.go:355`): a selector that was emptied or changed before leaves
  labels behind, although `README.md:191-193` says that operator-applied labels are
  removed.
* The PVC is looked up as `<release>-claim` (`agw_lifecycle.go:126`) while `agw.yaml`
  names it `agwc-claim`: under another release name the look-up finds nothing and the
  trust bundle counts as synced.
* The bootstrap Job is applied before the certificates are generated and then only
  annotated (`magmaorc8r_controller.go:199-204`): its pod may have mounted the placeholder.
* Both DELETEs of the deregistration script end in `|| true` (`agw_identity.go:416`), so
  that the Job succeeds although the record is still there.

### Bounds

`MaxGeneration = 3` allows an edit and a deletion of one incarnation of the object
(2: one of them); recreation is not bounded, so that passes meet any number of
incarnations. `MaxFaults = 1` is one failed call, restart or setback at any point;
each early return is an error path of one call, and the next pass starts afresh, so
a second fault adds nothing but another early return. `Volatile` names the
sub-handlers whose finding changes in a run; one at a time suffices because a pass
stops at the first one that is not ready. In `GatewayRegistration`, two objects are
enough to share a Secret; one orphaned script and one current one race; two keys let an
object be recreated with another identity (in `GwRegistration` keys and
objects are interchangeable model values, under symmetry). `GwNetwork` has two networks,
one object and one key, so that only the network tells two requests apart; in `GwRemoval`
the Secret and the record may hold `k2` before `k1` is imported over it (`k3` is only the
spare key that `UserCreate` asks for). Objects that share Job names - the same name in two
namespaces - have no run of their own: theorem `RegistrationIsConfirmed` holds for every
`JobOf` and `SecretOf`. The faults of the scripts and of the controller are in
`GwNetwork` and `GwRemoval`; the other runs of this module have none and spend their
states on interleavings. `UserCreate` waits until a key is left for the object: a bound, since
keys do not run out in reality.

`TrustBundle`: `MaxCA = 2` has one regeneration under a running pass, Job or orphan; what
a third CA meets is what the second met. `Orc8rController`: `MaxOps` bounds the user's
creations, edits and deletions, `TwoSpecs` differ in domain, node port and template.
`UeransimValidation`: `MaxEvents` bounds edits, failed calls and crashes together, and
`AllSpecs` lets an edit change the trigger, the validation or the simulator; `Created` is
the first spec. In these three modules one fault (or two events) may fall on any call.

### Fairness

`AgwReconcile`: the worker keeps working, informers deliver, a delayed re-add comes
back - controller-runtime's guarantees. Nothing is assumed of the user, the gate, the
handlers, the DaemonSet or the resync. `GatewayRegistration`: in addition the queue
serves its keys in turn (strong fairness per object, because one worker serves all),
pods of Jobs take their steps, the TTL controller, the garbage collector and the
kubelet do their work. The Orc8r may come and go for ever; the liveness properties
demand progress only while it is up and the object is left alone.

`TrustBundle`, `Orc8rController` and `UeransimValidation` assume in addition the
informers' periodic resync (controller-runtime's SyncPeriod, ten hours by default): after
`Ready=True` nothing else starts a pass when Secrets, Jobs or Deployments change. Pods run
and Jobs end, the TTL controller and the garbage collector work, magmad retries its
bootstrap, the Orc8r's Secret comes into being; users, faults and new CAs are assumed of
nobody. Two guards stand for durations: a sync Job that succeeded does not expire (an
hour) before a pass (every 20 seconds) has seen it, and the bootstrap Job's pod outlives
the part of a pass between applying and annotating it - were it faster, the Job would be
taken for one that ran for other certificates and run again.

## Proofs

| Module | Theorem | States |
|---|---|---|
| `AgwReconcileProofs` | `TypeCorrect`, `SettledIsReconciled`, `SimulatorStaysOff`, `NothingOrphaned`, `IdentityOutlivesWorkloads` | `TypeOK`, `SettledMeansReconciled`, `SimulatorFollowsSpec`, `NoOrphans`, `WorkloadsHaveIdentity` |
| `GatewayRegistrationProofs` | `RegistrationTypeCorrect`, `RegistrationIsConfirmed`, `ConfirmedInTheOnlyNetwork` | `TypeOK`, `RegisteredWasConfirmed`, `RegisteredInNetwork` for a single network |
| `GatewayKeysProofs` | `GeneratedKeysAreNotShared` | `KeysNotShared` |
| `TrustBundleProofs` | `TrustTypeCorrect`, `SyncedWasDelivered`, `HandlerImplementsDelivery` | `TypeOK`, `SyncedIsDelivered`, `Delivery` |
| `Orc8rControllerProofs` | `Orc8rTypeCorrect`, `CertsBoundedByRequests`, `CertsAreReused`, `MagmalteModeCorrect`, `ReleaseDoesNotOutliveObject` | `TypeOK`, `certs <= ops + 1`, `CertsReused`, `MagmalteFollowsSpec`, `NoOrphans` |
| `UeransimValidationProofs` | `ValidationTypeCorrect`, `VerdictIsOfTrigger`, `TriggerIsOneShot` | `TypeOK`, `VerdictOfTrigger`, `OneShot` |

Each proof has one inductive invariant, one lemma per action that keeps it, and lemmas
about the operators the actions share. Hardly any property is inductive by itself: a
pass acts on a copy that may be stale, so what it relies on has to be carried along.
TLC checked each invariant on the module's runs before it was proved. The assumptions
are the ASSUMEs of the modules (types of the specs, non-empty sets, names that are no
placeholders, bounds that are numbers), which TLC evaluates in every run.

`AgwReconcile`. The invariant `IInv` adds

* `Versions`: a copy that is current equals the object (for the pass's copy: in
  everything but conditions and registration), so that a status write that succeeds is
  about the generation the pass read;
* `Finalizers`: a pass beyond its first phases implies an existing object with the
  finalizer, and no object loses it while rendered objects exist; this needs that a
  terminating object has no other way out than the pass that deletes everything;
* `Identities`: from the identity phase on, and while workloads exist, the Secret is
  there and owned by the object;
* `PassFacts`: what the finished phases of a pass have established in its copy (the
  conditions) and in the cluster (the applied groups) holds until its status write.

The one-worker assumption enters here: no other pass touches the cluster in between.

`GatewayRegistration`, for any number of objects, any sharing of Job and Secret names,
any number of orphaned scripts. For `RegisteredWasConfirmed`, `JobsHonest` says that
every registration Job that succeeded, in the API server or in the cache, has its request
in `confirmed`: the annotation on the Job makes a cached success evidence for exactly
that payload, however old it is, but not for the network. The report is therefore
`Backed`: some confirmed request has its id and key. With a single network that request
is the report itself. For `KeysNotShared`, the invariant `KInv` is about who
holds a generated key - one that no spec imports and that was not there at the start. An
object holds a key if a Secret or a cached copy that it owns has it, if it is reported as
registered with it, or if its pass has read it:

* `HeldIsUsed`, `HeldByOne`: a held key is never drawn again, and has one holder;
* `GeneratedHasOwner`: a copy of a Secret with a generated key names an owner, so that a
  pass that finds no foreign owner there finds no foreign key either;
* `OwnerStays`: the cache and the API server never name two different owners of a Secret.
  A Secret may lose its owner behind the cache's back, when it is deleted or collected,
  but gets a new one only by a write through an up-to-date copy; here optimistic
  concurrency is needed;
* `PassControls`: between writing the Secret and reading it again, neither copy belongs
  to another object; without it the second read could pick up a foreign key.

`TrustBundle`, for any number of CAs and faults. CAs are numbered by age, so the
invariant is a chain of inequalities:

* `Ordered`: every place that holds a CA - Secrets, caches, Job, pods, orphans, volume,
  Deployments - is no newer than the place it was copied from;
* `PassAhead`: the hash a pass carries is no older than the Secret's before it writes the
  Secret, is the Secret's own after that, and is delivered once the pass is past the Job;
* `JobDelivers`: a pod mounts the Secret no earlier than its Job is created, so a success,
  cached or not, vouches for the Job's hash, and a newer content only helps.

With it every step of the handler and its Jobs maps to a step of `TrustDelivery` or to a
stutter: a new CA to `Regenerate`, the end of a Job's script or a pass that finds no
volume to `Deliver`, the rollout to `Announce`, everything else to nothing.

`Orc8rController`, for all specs and bounds:

* `Guarded`: the finalizer is there while anything of the release is and while a pass may
  still create some of it; a pass about to remove it has nothing left behind;
* `HttpMode`: magmalte's command through a pass: taken back by the apply, set for the spec
  the pass has read and never without its environment, reported only if that spec is still
  the object's;
* `Paid`: `certs + Due <= ops + 1`, where `Due` counts the sets of certificates that the
  running pass and the one after it may still have to generate. A failed or conflicting
  write, a stale Secret or a restart leaves the sum alone. This is what keeps `certs` in
  its type, and is worth its own theorem: the operator does not churn certificates.

`UeransimValidation`, for all specs and bounds:

* `JobsHonest`: the Job and the cached copy of it claim an outcome only if a Job for that
  trigger had it; `PassHonest` carries this through the pass to the status write;
* `OnceStarted` (`Served` or `Superseded`) and `AbsentWhenRolled`: the trigger that the
  last Job was created for is either the one in the spec, and then that Job exists and
  every copy a pass can act on is of it or of nothing, so that a second Create fails; or
  it was overtaken by an edit, and then no pass works for it any more.

Only model-checked, because fairness and ENABLED are out of the prover's reach:
`Converges`, `GateCloses`, `DeletionCompletes` (both modules), `RegistrationCompletes`,
`RegistrationFollowsNetwork`, `DeregistrationCompletes`, `DeliveryCatchesUp`, `VolumeConverges`, `GatewayCertified`,
`CertsServed`, `ReadyAgain`, `BootstrapRuns` and `VerdictReached`. The four properties
of the violation runs do not hold, and so have no theorem.

## Plan

The model is complete as far as it is planned, and the safety properties of the runs are
proved. Left, in this order:

1. `GatewayRegistration`: under which conditions the properties of `GwIdentity` and
   `GwRecord` do hold - no orphaned script, names that are not shared - as theorems.
2. `AgwReconcile`: action properties about the gate and the finalizer that the
   invariant already implies, such as that no step removes the finalizer of an object
   whose release is still there.
3. `TrustBundle`: what a late or failed pod may leave on the volume, as the safety part
   of `VolumeConverges`.

## Not modelled

* The datapath gate in detail: several nodes, objects that share a label, and the
  DaemonSet's observedGeneration. `AgwReconcile` has one label and one readiness flag that
  changes at any time.
* The Orc8r host alias keeps no state: it reads a Service and hands its address to the
  rendering.
* Template rendering, selector and value helpers, metadata normalisation: text
  substitution. Key and certificate encoding: cryptography.
* Manager flags, generated deepcopy code, CRD and RBAC manifests: configuration without
  behaviour of its own. What the models take from the manager is one leader with one
  worker per controller, and restarts.
