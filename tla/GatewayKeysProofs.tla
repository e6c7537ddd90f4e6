------------------------- MODULE GatewayKeysProofs -------------------------
(***************************************************************************)
(* The proof that two AGWs are never registered with the same generated    *)
(* key, for every set of objects, Secret names, keys and specs.            *)
(***************************************************************************)
EXTENDS GatewayRegistrationProofs

SecretNames == {SecretOf[a] : a \in Agws}

(* Keys that only the controller itself can have brought into the system.  *)
Generated == Keys \ (Imports \cup Found)

(* Object a has, or has lately had, key k: a copy of a Secret that a owns  *)
(* holds it, a is reported to be registered with it, or a's pass read it.  *)
Owns(secret, a, k) == secret.key = k /\ secret.owner = a

Holds(a, k) ==
    \/ \E n \in SecretNames : Owns(secrets[n], a, k) \/ Owns(secretCache[n], a, k)
    \/ status[a].reg.key = k
    \/ pass.agw = a /\ pass.key = k

(***************************************************************************)
(* The inductive invariant.  A generated key was drawn from the unused     *)
(* ones, so one that is held is used, and nobody else gets it.  It stays   *)
(* with its holder because the key of a Secret is read only by a pass that *)
(* may control it, and the owner does not change behind the cache's back:  *)
(* a Secret whose cached copy has an owner is that owner's or nobody's,    *)
(* since a write through a stale copy fails.                               *)
(***************************************************************************)
HeldIsUsed    == \A a \in Agws, k \in Generated : Holds(a, k) => k \in used
HeldByOne     == \A a, b \in Agws, k \in Generated : Holds(a, k) /\ Holds(b, k) => a = b
GeneratedHasOwner ==
    \A n \in SecretNames :
        /\ secrets[n].key \in Generated => secrets[n].owner # "none"
        /\ secretCache[n].key \in Generated => secretCache[n].owner # "none"
OwnerStays ==
    \A n \in SecretNames :
        secrets[n].owner # "none" => secretCache[n].owner \in {"none", secrets[n].owner}
PassControls ==
    pass.step = "read" =>
        /\ MayControl(secrets[SecretOf[pass.agw]], pass.agw)
        /\ MayControl(secretCache[SecretOf[pass.agw]], pass.agw)

KInv == HeldIsUsed /\ HeldByOne /\ GeneratedHasOwner /\ OwnerStays /\ PassControls

(* A generated key is a key, and not the placeholder for a missing one. *)
LEMMA GeneratedFacts == Generated \subseteq Keys /\ "none" \notin Generated /\ "none" \notin Agws
  BY KeysAssumption, NamesAssumption DEF Generated

(* Copy t of a Secret has the key and the owner of copy s. *)
SameKey(t, s) == t.key = s.key /\ t.owner = s.owner

(* A step that creates no key: every copy of a Secret has the key and the  *)
(* owner of some earlier copy or is gone, and the reported keys and the    *)
(* key of the pass were already held by the same object.                   *)
LEMMA HoldingsShrink ==
    ASSUME KInv, used \subseteq used',
           \A n \in SecretNames :
               /\ \E s \in {secrets[n], secretCache[n], NoSecret} : SameKey(secrets'[n], s)
               /\ \E s \in {secrets[n], secretCache[n], NoSecret} : SameKey(secretCache'[n], s),
           \A a \in Agws, k \in Generated : status'[a].reg.key = k => Holds(a, k),
           \A a \in Agws, k \in Generated : pass'.agw = a /\ pass'.key = k => Holds(a, k)
    PROVE  HeldIsUsed' /\ HeldByOne' /\ GeneratedHasOwner'
  <1>1. ASSUME NEW a \in Agws, NEW k \in Generated,
               \E n \in SecretNames : Owns(secrets'[n], a, k) \/ Owns(secretCache'[n], a, k)
        PROVE  Holds(a, k)
    <2>1. PICK n \in SecretNames : Owns(secrets'[n], a, k) \/ Owns(secretCache'[n], a, k)
      BY <1>1
    <2>2. \E s \in {secrets[n], secretCache[n], NoSecret} : Owns(s, a, k)
      BY <2>1 DEF SameKey, Owns
    <2>3. ~Owns(NoSecret, a, k)
      BY GeneratedFacts DEF Owns, NoSecret
    <2> QED
      BY <2>2, <2>3 DEF Holds
  <1>2. \A a \in Agws, k \in Generated : Holds(a, k)' => Holds(a, k)
    BY <1>1 DEF Holds
  <1>3. HeldIsUsed'
    BY <1>2 DEF KInv, HeldIsUsed
  <1>4. HeldByOne'
    BY <1>2 DEF KInv, HeldByOne
  <1>5. GeneratedHasOwner'
    BY GeneratedFacts DEF KInv, GeneratedHasOwner, SameKey, NoSecret
  <1> QED
    BY <1>3, <1>4, <1>5

(* A step that leaves the Secrets alone: what it reports is what was       *)
(* reported, nothing, or the key of the running pass, for its object.      *)
LEMMA SecretsAlone ==
    ASSUME KInv, UNCHANGED secretVars,
           \A a \in Agws : \/ status'[a].reg.key \in {status[a].reg.key, "none"}
                           \/ a = pass.agw /\ status'[a].reg.key = pass.key,
           \/ pass'.key = "none" /\ pass'.step # "read"
           \/ pass'.agw = pass.agw /\ pass'.key = pass.key /\ pass'.step = pass.step
    PROVE  KInv'
  <1>1. UNCHANGED <<secrets, secretCache, used>>
    BY DEF secretVars
  <1>2. \A a \in Agws, k \in Generated : status'[a].reg.key = k => Holds(a, k)
    BY GeneratedFacts DEF Holds
  <1>3. \A a \in Agws, k \in Generated : pass'.agw = a /\ pass'.key = k => Holds(a, k)
    BY GeneratedFacts DEF Holds
  <1>4. HeldIsUsed' /\ HeldByOne' /\ GeneratedHasOwner'
    <2>1. \A n \in SecretNames :
             /\ \E s \in {secrets[n], secretCache[n], NoSecret} : SameKey(secrets'[n], s)
             /\ \E s \in {secrets[n], secretCache[n], NoSecret} : SameKey(secretCache'[n], s)
      BY <1>1 DEF SameKey
    <2> QED
      BY <1>1, <1>2, <1>3, <2>1, HoldingsShrink
  <1>5. OwnerStays'
    BY <1>1 DEF KInv, OwnerStays
  <1>6. PassControls'
    BY <1>1 DEF KInv, PassControls, MayControl
  <1> QED
    BY <1>4, <1>5, <1>6 DEF KInv

(* The end of a pass reports for its object only. *)
LEMMA EndPassReports ==
    ASSUME TypeOK, NEW a \in Agws, NEW s \in Specs, NEW ready \in BOOLEAN,
           NEW reg \in Request, EndPass(a, s, ready, reg)
    PROVE  /\ pass' = Idle
           /\ \A b \in Agws : \/ status'[b].reg = status[b].reg
                              \/ b = a /\ status'[b].reg = reg
  <1>1. status \in [Agws -> Status]
    BY DEF TypeOK
  <1> QED
    BY <1>1 DEF EndPass

(* An idle pass has no key. *)
LEMMA BeginFacts ==
    /\ Idle.key = "none" /\ Idle.step = "idle"
    /\ \A step, a, s : LET b == Begin(step, a, s)
                       IN  b.key = "none" /\ b.step = step /\ b.agw = a
  BY DEF Idle, Begin

-----------------------------------------------------------------------------
(* The steps *)

(* At the start no object owns a Secret or is registered. *)
LEMMA KeysInit == Init => KInv
  <1> SUFFICES ASSUME Init PROVE KInv
    OBVIOUS
  <1>1. \A n \in SecretNames : /\ secrets[n].owner = "none" /\ secretCache[n] = secrets[n]
                               /\ secrets[n].key \in Found
    BY DEF Init, SecretNames, NoSecret
  <1>2. \A a \in Agws : status[a].reg.key = "none"
    BY DEF Init, NoStatus, NoRequest
  <1>3. pass.key = "none" /\ pass.step = "idle"
    BY BeginFacts DEF Init
  <1>4. \A a \in Agws, k \in Generated : ~Holds(a, k)
    BY <1>1, <1>2, <1>3, GeneratedFacts DEF Holds, Owns
  <1>5. HeldIsUsed /\ HeldByOne
    BY <1>4 DEF HeldIsUsed, HeldByOne
  <1>6. GeneratedHasOwner
    BY <1>1 DEF GeneratedHasOwner, Generated
  <1>7. OwnerStays /\ PassControls
    BY <1>1, <1>3 DEF OwnerStays, PassControls
  <1> QED
    BY <1>5, <1>6, <1>7 DEF KInv

(* The registration handler reports the key of its pass, and the pass of a *)
(* terminating object reports nothing new.                                 *)
LEMMA KeysPassSteps ==
    ASSUME TypeOK, KInv,
           \/ Register
           \/ \E a \in Agws : Deregister(a)
    PROVE  KInv'
  <1>1. /\ pass.agw \in Agws /\ pass.spec \in Specs /\ pass.spec.enabled \in BOOLEAN
        /\ requestOf(pass.spec, pass.key) \in Request
        /\ NoRequest \in Request /\ NoRequest.key = "none"
    BY Fields, RequestType, Defaults DEF NoRequest
  <1>2. CASE Register
    <2>1. \E reg \in {requestOf(pass.spec, pass.key), NoRequest}, ready \in BOOLEAN :
              EndPass(pass.agw, pass.spec, ready, reg)
      BY <1>1, <1>2 DEF Register
    <2>2. PICK reg \in {requestOf(pass.spec, pass.key), NoRequest}, ready \in BOOLEAN :
              EndPass(pass.agw, pass.spec, ready, reg)
      BY <2>1
    <2>3. reg.key \in {pass.key, "none"}
      BY <1>1 DEF requestOf
    <2>4. /\ pass' = Idle
          /\ \A b \in Agws : \/ status'[b].reg = status[b].reg
                             \/ b = pass.agw /\ status'[b].reg = reg
      BY <1>1, <2>2, EndPassReports
    <2>5. UNCHANGED secretVars
      BY <1>2 DEF Register
    <2>6. /\ pass'.key = "none" /\ pass'.step # "read"
          /\ \A b \in Agws : \/ status'[b].reg.key \in {status[b].reg.key, "none"}
                             \/ b = pass.agw /\ status'[b].reg.key = pass.key
      BY <2>3, <2>4, BeginFacts
    <2> QED
      BY <2>5, <2>6, SecretsAlone
  <1>3. ASSUME NEW a \in Agws, Deregister(a)
        PROVE  KInv'
    <2>1. \/ pass' = Begin("finish", a, crs[a].spec) /\ UNCHANGED status
          \/ EndPass(a, crs[a].spec, FALSE, status[a].reg)
      BY <1>3 DEF Deregister, WaitForDeregistration
    <2>2. /\ pass'.key = "none" /\ pass'.step # "read"
          /\ \A b \in Agws : status'[b].reg = status[b].reg
      <3>1. CASE pass' = Begin("finish", a, crs[a].spec) /\ UNCHANGED status
        BY <3>1, BeginFacts
      <3>2. CASE EndPass(a, crs[a].spec, FALSE, status[a].reg)
        <4>1. status \in [Agws -> Status]
          BY DEF TypeOK
        <4>2. pass' = Idle /\ \A b \in Agws : status'[b].reg = status[b].reg
          BY <3>2, <4>1 DEF EndPass
        <4> QED
          BY <4>2, BeginFacts
      <3> QED
        BY <2>1, <3>1, <3>2
    <2>3. UNCHANGED secretVars
      BY <1>3 DEF Deregister
    <2> QED
      BY <2>2, <2>3, SecretsAlone
  <1> QED
    BY <1>2, <1>3

(* The second read of the Secret takes the key of a Secret that the object *)
(* of the pass owns, or that was there before any object.                  *)
LEMMA KeysRead ==
    ASSUME TypeOK, KInv, ReadIdentity
    PROVE  KInv'
  <1> DEFINE a      == pass.agw
             cached == secretCache[SecretOf[a]]
  <1>1. a \in Agws /\ SecretOf[a] \in SecretNames /\ UNCHANGED secretVars
    BY Fields DEF SecretNames, ReadIdentity
  <1>2. CASE EndPass(a, pass.spec, FALSE, status[a].reg)
    <2>1. status \in [Agws -> Status]
      BY DEF TypeOK
    <2>2. pass' = Idle /\ \A b \in Agws : status'[b].reg = status[b].reg
      BY <1>1, <1>2, <2>1 DEF EndPass
    <2>3. /\ pass'.key = "none" /\ pass'.step # "read"
          /\ \A b \in Agws : status'[b].reg = status[b].reg
      BY <2>2, BeginFacts
    <2> QED
      BY <1>1, <2>3, SecretsAlone
  <1>3. CASE /\ pass' = [pass EXCEPT !.step = "register", !.key = cached.key]
             /\ UNCHANGED status
    <2>1. pass'.agw = a /\ pass'.key = cached.key /\ pass'.step = "register"
      BY <1>3 DEF TypeOK, Pass
    <2>2. \A k \in Generated : cached.key = k => Owns(cached, a, k)
      BY <1>1 DEF ReadIdentity, KInv, PassControls, MayControl, GeneratedHasOwner, Owns
    <2>3. \A b \in Agws, k \in Generated : pass'.agw = b /\ pass'.key = k => Holds(b, k)
      BY <1>1, <2>1, <2>2 DEF Holds
    <2>4. \A b \in Agws, k \in Generated : status'[b].reg.key = k => Holds(b, k)
      BY <1>3 DEF Holds
    <2>5. UNCHANGED <<secrets, secretCache, used>>
      BY <1>1 DEF secretVars
    <2>6. HeldIsUsed' /\ HeldByOne' /\ GeneratedHasOwner'
      <3>1. \A n \in SecretNames :
               /\ \E s \in {secrets[n], secretCache[n], NoSecret} : SameKey(secrets'[n], s)
               /\ \E s \in {secrets[n], secretCache[n], NoSecret} : SameKey(secretCache'[n], s)
        BY <2>5 DEF SameKey
      <3> QED
        BY <2>3, <2>4, <2>5, <3>1, HoldingsShrink
    <2>7. OwnerStays' /\ PassControls'
      BY <2>1, <2>5 DEF KInv, OwnerStays, PassControls
    <2> QED
      BY <2>6, <2>7 DEF KInv
  <1> QED
    BY <1>2, <1>3 DEF ReadIdentity

(* Users change no report and leave the pass its object and its key. *)
LEMMA KeysUser ==
    ASSUME TypeOK, KInv, User
    PROVE  KInv'
  <1>1. PICK a \in Agws : UserDelete(a) \/ \E s \in Specs : UserCreate(a, s) \/ UserEdit(a, s)
    BY DEF User
  <1>2. /\ UNCHANGED secretVars
        /\ \/ UNCHANGED <<status, pass>>
           \/ \E cr : Change(a, cr)
    BY <1>1 DEF UserDelete, UserCreate, UserEdit
  <1>3. /\ \A b \in Agws : status'[b].reg = status[b].reg
        /\ pass'.agw = pass.agw /\ pass'.key = pass.key /\ pass'.step = pass.step
    <2>1. status[a] \in Status /\ [status[a] EXCEPT !.observed = FALSE].reg = status[a].reg
      BY DEF TypeOK, Status
    <2>2. CASE \E cr : Change(a, cr)
      <3>1. status' = [status EXCEPT ![a] = [status[a] EXCEPT !.observed = FALSE]]
        BY <2>2 DEF Change, TypeOK
      <3>2. pass' = pass \/ pass' = [pass EXCEPT !.stale = TRUE]
        BY <2>2 DEF Change
      <3>3. /\ pass'.agw = pass.agw /\ pass'.key = pass.key /\ pass'.step = pass.step
        BY <3>2 DEF TypeOK, Pass
      <3> QED
        BY <2>1, <3>1, <3>3 DEF TypeOK
    <2> QED
      BY <1>2, <2>2
  <1> QED
    BY <1>2, <1>3, SecretsAlone

(* The object goes; its Secret keeps its owner or goes with it. *)
LEMMA KeysFinish ==
    ASSUME TypeOK, KInv, FinishDeletion
    PROVE  KInv'
  <1> DEFINE a    == pass.agw
             gone == IF pass.spec.deleteSecret
                     THEN [secrets EXCEPT ![SecretOf[a]] = NoSecret] ELSE secrets
             Dangling(f) == [n \in DOMAIN f |-> IF f[n].owner = a /\ n = SecretOf[a]
                                               THEN [f[n] EXCEPT !.dangling = TRUE] ELSE f[n]]
  <1>1. /\ secrets \in [SecretNames -> Secret] /\ secretCache \in [SecretNames -> Secret]
        /\ status \in [Agws -> Status]
    BY DEF TypeOK, SecretNames
  <1>2. /\ gone \in [SecretNames -> Secret]
        /\ \A n \in SecretNames : gone[n] = secrets[n] \/ gone[n] = NoSecret
    BY <1>1, Defaults
  <1>3. ASSUME NEW f \in [SecretNames -> Secret], NEW n \in SecretNames
        PROVE  SameKey(Dangling(f)[n], f[n])
    <2>1. [f[n] EXCEPT !.dangling = TRUE].key = f[n].key
          /\ [f[n] EXCEPT !.dangling = TRUE].owner = f[n].owner
      BY DEF Secret
    <2> QED
      BY <2>1 DEF SameKey
  <1>4. secrets' = Dangling(gone) /\ secretCache' = Dangling(secretCache)
    BY DEF FinishDeletion
  <1>5. \A n \in SecretNames : /\ SameKey(secrets'[n], secrets[n]) \/ SameKey(secrets'[n], NoSecret)
                               /\ SameKey(secretCache'[n], secretCache[n])
    <2>1. \A n \in SecretNames : SameKey(secretCache'[n], secretCache[n])
      BY <1>1, <1>3, <1>4
    <2>2. \A n \in SecretNames : SameKey(secrets'[n], gone[n])
      <3> HIDE DEF gone
      <3> QED
        BY <1>2, <1>3, <1>4
    <2> HIDE DEF gone
    <2> QED
      BY <1>2, <2>1, <2>2
  <1>6. pass'.key = "none" /\ pass'.step # "read"
    BY BeginFacts DEF FinishDeletion
  <1>7. \A b \in Agws, k \in Generated : status'[b].reg.key = k => Holds(b, k)
    <2>1. \A b \in Agws : status'[b] = status[b] \/ status'[b] = NoStatus
      BY <1>1 DEF FinishDeletion
    <2>2. NoStatus.reg.key = "none"
      BY DEF NoStatus, NoRequest
    <2> QED
      BY <2>1, <2>2, GeneratedFacts DEF Holds
  <1>8. HeldIsUsed' /\ HeldByOne' /\ GeneratedHasOwner'
    <2>1. \A n \in SecretNames :
             /\ \E s \in {secrets[n], secretCache[n], NoSecret} : SameKey(secrets'[n], s)
             /\ \E s \in {secrets[n], secretCache[n], NoSecret} : SameKey(secretCache'[n], s)
      BY <1>5
    <2>2. used \subseteq used'
      BY DEF FinishDeletion
    <2>3. \A b \in Agws, k \in Generated : pass'.agw = b /\ pass'.key = k => Holds(b, k)
      BY <1>6, GeneratedFacts
    <2> QED
      BY <1>7, <2>1, <2>2, <2>3, HoldingsShrink
  <1>9. OwnerStays'
    BY <1>5 DEF KInv, OwnerStays, SameKey, NoSecret
  <1>10. PassControls'
    BY <1>6 DEF PassControls
  <1> QED
    BY <1>8, <1>9, <1>10 DEF KInv

(* The informer delivers the Secrets, after a restart too. *)
LEMMA KeysDelivered ==
    ASSUME TypeOK, KInv, UNCHANGED <<status, secrets, used>>, secretCache' = secrets,
           pass' = pass \/ pass' = Idle
    PROVE  KInv'
  <1>1. HeldIsUsed' /\ HeldByOne' /\ GeneratedHasOwner'
    <2>1. \A n \in SecretNames :
             /\ \E s \in {secrets[n], secretCache[n], NoSecret} : SameKey(secrets'[n], s)
             /\ \E s \in {secrets[n], secretCache[n], NoSecret} : SameKey(secretCache'[n], s)
      BY DEF SameKey
    <2>2. \A a \in Agws, k \in Generated : status'[a].reg.key = k => Holds(a, k)
      BY DEF Holds
    <2>3. \A a \in Agws, k \in Generated : pass'.agw = a /\ pass'.key = k => Holds(a, k)
      BY BeginFacts, GeneratedFacts DEF Holds
    <2> QED
      BY <2>1, <2>2, <2>3, HoldingsShrink
  <1>2. OwnerStays'
    BY DEF OwnerStays
  <1>3. PassControls'
    BY BeginFacts DEF KInv, PassControls
  <1> QED
    BY <1>1, <1>2, <1>3 DEF KInv

(* The garbage collector takes a Secret whose owner is gone. *)
LEMMA KeysCollected ==
    ASSUME TypeOK, KInv, NEW m \in SecretNames, CollectSecret(m)
    PROVE  KInv'
  <1>1. /\ UNCHANGED <<status, pass, secretCache, used>>
        /\ \A n \in SecretNames : secrets'[n] = secrets[n] \/ secrets'[n] = NoSecret
    BY DEF CollectSecret, TypeOK, SecretNames
  <1>2. HeldIsUsed' /\ HeldByOne' /\ GeneratedHasOwner'
    <2>1. \A n \in SecretNames :
             /\ \E s \in {secrets[n], secretCache[n], NoSecret} : SameKey(secrets'[n], s)
             /\ \E s \in {secrets[n], secretCache[n], NoSecret} : SameKey(secretCache'[n], s)
      BY <1>1 DEF SameKey
    <2>2. \A a \in Agws, k \in Generated : status'[a].reg.key = k => Holds(a, k)
      BY <1>1 DEF Holds
    <2>3. \A a \in Agws, k \in Generated : pass'.agw = a /\ pass'.key = k => Holds(a, k)
      BY <1>1 DEF Holds
    <2> QED
      BY <1>1, <2>1, <2>2, <2>3, HoldingsShrink
  <1>3. OwnerStays'
    BY <1>1 DEF KInv, OwnerStays, NoSecret
  <1>4. PassControls'
    <2>1. SecretOf[pass.agw] \in SecretNames
      BY Fields DEF SecretNames
    <2> QED
      BY <1>1, <2>1 DEF KInv, PassControls, MayControl, NoSecret
  <1> QED
    BY <1>2, <1>3, <1>4 DEF KInv

(* The rest of the cluster touches neither Secrets nor reports. *)
LEMMA KeysCluster ==
    ASSUME TypeOK, KInv, Cluster
    PROVE  KInv'
  <1>1. CASE SyncSecrets \/ Crash
    BY <1>1, KeysDelivered DEF SyncSecrets, Crash
  <1>2. CASE \E n \in {SecretOf[a] : a \in Agws} : CollectSecret(n)
    BY <1>2, KeysCollected DEF SecretNames
  <1>3. CASE UNCHANGED <<status, pass, secretVars>>
    BY <1>3, SecretsAlone
  <1>4. \/ SyncSecrets \/ Crash \/ \E n \in {SecretOf[a] : a \in Agws} : CollectSecret(n)
        \/ UNCHANGED <<status, pass, secretVars>>
    BY DEF Cluster, SyncJobs, Orc8rChanges, RunJob, ExpireJob, RunOrphan, KillOrphan, Resync
  <1> QED
    BY <1>1, <1>2, <1>3, <1>4

(* The key that CreateOrUpdate leaves in a Secret the object may control   *)
(* is not generated, or new, or the one the object already has.            *)
LEMMA DesiredKey ==
    ASSUME TypeOK, KInv, NEW a \in Agws, NEW s \in Specs,
           MayControl(secretCache[SecretOf[a]], a),
           NEW k \in desiredAGWPrivateKey(s, secretCache[SecretOf[a]].key), k \in Generated
    PROVE  k \notin used \/ Owns(secretCache[SecretOf[a]], a, k)
  <1>1. SecretOf[a] \in SecretNames
    BY DEF SecretNames
  <1>2. k # s.import
    BY GeneratedFacts DEF Generated, Imports
  <1>3. k \notin used \/ k = secretCache[SecretOf[a]].key
    BY <1>2 DEF desiredAGWPrivateKey
  <1> QED
    BY <1>1, <1>3 DEF KInv, GeneratedHasOwner, MayControl, Owns

(* A key written to the object's Secret, through a copy that is up to date. *)
LEMMA KeyWritten ==
    ASSUME TypeOK, KInv, NEW a \in Agws, NEW k \in Keys,
           k \in Generated => k \notin used \/ Holds(a, k),
           MayControl(secretCache[SecretOf[a]], a),
           secrets[SecretOf[a]] = secretCache[SecretOf[a]],
           secrets' = [secrets EXCEPT ![SecretOf[a]] = [key |-> k, owner |-> a, dangling |-> FALSE]],
           used' = used \cup {k}, UNCHANGED <<secretCache, status>>,
           pass'.key = "none", pass'.agw = a
    PROVE  KInv'
  <1> DEFINE m == SecretOf[a]
  <1>1. m \in SecretNames /\ secrets \in [SecretNames -> Secret]
    BY DEF SecretNames, TypeOK
  <1>2. /\ secrets'[m].key = k /\ secrets'[m].owner = a
        /\ \A n \in SecretNames : n # m => secrets'[n] = secrets[n]
    BY <1>1
  <1>3. \A b \in Agws, g \in Generated : Holds(b, g)' => Holds(b, g) \/ (b = a /\ g = k)
    <2>1. ASSUME NEW b \in Agws, NEW g \in Generated, NEW n \in SecretNames, Owns(secrets'[n], b, g)
          PROVE  Holds(b, g) \/ (b = a /\ g = k)
      <3>1. CASE n = m
        BY <1>2, <2>1, <3>1 DEF Owns
      <3>2. CASE n # m
        BY <1>2, <2>1, <3>2 DEF Holds
      <3> QED
        BY <3>1, <3>2
    <2> QED
      BY <2>1, GeneratedFacts DEF Holds
  <1>4. HeldIsUsed'
    BY <1>3 DEF KInv, HeldIsUsed
  <1>5. HeldByOne'
    <2> SUFFICES ASSUME NEW b \in Agws, NEW c \in Agws, NEW g \in Generated,
                        Holds(b, g)', Holds(c, g)'
                 PROVE  b = c
      BY DEF HeldByOne
    <2>1. Holds(b, g) \/ (b = a /\ g = k)
      BY <1>3
    <2>2. Holds(c, g) \/ (c = a /\ g = k)
      BY <1>3
    <2>3. ASSUME NEW d \in Agws, NEW e \in Agws, Holds(d, g), e = a, g = k PROVE d = e
      BY <2>3 DEF KInv, HeldIsUsed, HeldByOne
    <2> QED
      BY <2>1, <2>2, <2>3 DEF KInv, HeldByOne
  <1>6. GeneratedHasOwner'
    BY <1>1, <1>2, GeneratedFacts DEF KInv, GeneratedHasOwner
  <1>7. OwnerStays'
    BY <1>1, <1>2 DEF KInv, OwnerStays, MayControl
  <1>8. PassControls'
    BY <1>1, <1>2 DEF PassControls, MayControl
  <1> QED
    BY <1>4, <1>5, <1>6, <1>7, <1>8 DEF KInv

(* CreateOrUpdate on the identity Secret. *)
LEMMA KeysIdentity ==
    ASSUME TypeOK, KInv, NEW a \in Agws, ReconcileIdentity(a)
    PROVE  KInv'
  <1> DEFINE s      == crs[a].spec
             m      == SecretOf[a]
             cached == secretCache[m]
             Desired(k) == [key |-> k, owner |-> a, dangling |-> FALSE]
  <1>1. /\ s \in Specs /\ status[a].reg \in Request /\ m \in SecretNames
        /\ status \in [Agws -> Status] /\ cached.key \in Keys \cup {"none"}
    BY Fields DEF TypeOK, SecretNames
  <1>2. CASE IdentityFailed(a, s) /\ UNCHANGED <<secrets, secretCache, used>>
    <2>1. pass' = Idle /\ \A b \in Agws : status'[b].reg = status[b].reg
      BY <1>1, <1>2 DEF IdentityFailed, EndPass
    <2>2. pass'.key = "none" /\ pass'.step # "read" /\ UNCHANGED secretVars
      BY <1>2, <2>1, BeginFacts DEF secretVars
    <2> QED
      BY <2>1, <2>2, SecretsAlone
  <1>3. ASSUME NEW k \in desiredAGWPrivateKey(s, cached.key), MayControl(cached, a),
               Desired(k) = cached, IdentityWritten(a, s), UNCHANGED <<secrets, secretCache, used>>
        PROVE  KInv'
    <2>1. pass'.key = "none" /\ pass'.agw = a /\ UNCHANGED status
      BY <1>3, BeginFacts DEF IdentityWritten
    <2>2. HeldIsUsed' /\ HeldByOne' /\ GeneratedHasOwner'
      <3>1. \A n \in SecretNames :
               /\ \E t \in {secrets[n], secretCache[n], NoSecret} : SameKey(secrets'[n], t)
               /\ \E t \in {secrets[n], secretCache[n], NoSecret} : SameKey(secretCache'[n], t)
        BY <1>3 DEF SameKey
      <3>2. \A b \in Agws, g \in Generated : status'[b].reg.key = g => Holds(b, g)
        BY <2>1 DEF Holds
      <3>3. \A b \in Agws, g \in Generated : pass'.agw = b /\ pass'.key = g => Holds(b, g)
        BY <2>1, GeneratedFacts
      <3> QED
        BY <1>3, <3>1, <3>2, <3>3, HoldingsShrink
    <2>3. OwnerStays'
      BY <1>3 DEF KInv, OwnerStays
    <2>4. cached.owner = a
      BY <1>3
    <2>5. PassControls'
      BY <1>1, <1>3, <2>1, <2>4, GeneratedFacts DEF KInv, OwnerStays, PassControls, MayControl
    <2> QED
      BY <2>2, <2>3, <2>5 DEF KInv
  <1>4. ASSUME NEW k \in desiredAGWPrivateKey(s, cached.key), MayControl(cached, a),
               secrets[m] = cached, secrets' = [secrets EXCEPT ![m] = Desired(k)],
               used' = used \cup {k}, IdentityWritten(a, s), UNCHANGED secretCache
        PROVE  KInv'
    <2>1. k \in Keys
      BY <1>1, Fields DEF desiredAGWPrivateKey
    <2>2. k \in Generated => k \notin used \/ Holds(a, k)
      BY <1>1, <1>4, DesiredKey DEF Holds
    <2>3. pass'.key = "none" /\ pass'.agw = a /\ UNCHANGED status
      BY <1>4, BeginFacts DEF IdentityWritten
    <2> QED
      BY <1>4, <2>1, <2>2, <2>3, KeyWritten
  <1>5. \/ IdentityFailed(a, s) /\ UNCHANGED <<secrets, secretCache, used>>
        \/ \E k \in desiredAGWPrivateKey(s, cached.key) :
              /\ MayControl(cached, a) /\ Desired(k) = cached
              /\ IdentityWritten(a, s) /\ UNCHANGED <<secrets, secretCache, used>>
        \/ \E k \in desiredAGWPrivateKey(s, cached.key) :
              /\ MayControl(cached, a) /\ secrets[m] = cached
              /\ secrets' = [secrets EXCEPT ![m] = Desired(k)]
              /\ used' = used \cup {k} /\ IdentityWritten(a, s) /\ UNCHANGED secretCache
    BY DEF ReconcileIdentity
  <1> QED
    BY <1>2, <1>3, <1>4, <1>5

-----------------------------------------------------------------------------
(* Every step preserves the invariant. *)
LEMMA KeysInductive == TypeOK /\ KInv /\ [Next]_vars => KInv'
  <1> SUFFICES ASSUME TypeOK, KInv, [Next]_vars PROVE KInv'
    OBVIOUS
  <1>1. CASE UNCHANGED vars
    BY <1>1, SecretsAlone DEF vars
  <1> QED
    BY <1>1, KeysRead, KeysFinish, KeysPassSteps, KeysIdentity, KeysUser, KeysCluster
       DEF Next, Worker

(* Two AGWs are never reported as registered with the same generated key,  *)
(* although their specs may name the same identity Secret, whatever is     *)
(* edited, deleted, recreated or collected, and however stale the cached   *)
(* copies of the Secrets are.                                              *)
THEOREM GeneratedKeysAreNotShared == Spec => []KeysNotShared
  <1>1. TypeOK /\ KInv => KeysNotShared
    <2> SUFFICES ASSUME TypeOK, KInv, NEW a \in Agws, NEW b \in Agws, a # b,
                        status[a].reg # NoRequest, status[b].reg # NoRequest,
                        status[a].reg.key = status[b].reg.key
                 PROVE  status[a].reg.key \in Imports \cup Found
      BY DEF KeysNotShared
    <2>1. status[a].reg.key \in Keys \cup {"none"}
      BY Fields DEF Request
    <2>2. status[a].reg.key \notin Generated
      BY DEF Holds, KInv, HeldByOne
    <2> QED
      BY <2>1, <2>2, FoundAssumption DEF Generated
  <1> QED
    BY <1>1, KeysInit, KeysInductive, RegistrationTypeCorrect, PTL DEF Spec
=============================================================================
