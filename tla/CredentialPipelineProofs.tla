----------------------- MODULE CredentialPipelineProofs -----------------------
(***************************************************************************)
(* Proofs about CredentialPipeline: the invariant of the store, which a    *)
(* reboot keeps, carried through the publishers to the consumers.          *)
(***************************************************************************)
EXTENDS CredentialPipeline, CredentialStoreProofs

PipelinePublishers == {publisher, refresh}

-----------------------------------------------------------------------------
(* The inductive invariant *)

\* The order of a boot: enrollment, publisher, consumers.
Gated ==
  /\ enrolled => document # None
  /\ active => enrolled
  /\ \A p \in PipelinePublishers : pc[p] # "idle" => enrolled
  /\ \A c \in Consumers : running[c] => active

\* There is an entry for every file, publisher and consumer.
Shaped ==
  /\ DOMAIN output = Outputs
  /\ DOMAIN pc = PipelinePublishers /\ DOMAIN target = PipelinePublishers
  /\ DOMAIN running = Consumers /\ DOMAIN loaded = Consumers
  /\ \A c \in Consumers : DOMAIN loaded[c] = Outputs

\* The values d are those of a complete document that was in the file.
Authentic(d) ==
  \E v \in CompleteVersions : d = PartsOf(v)

\* The content x of file o, if any, was rendered from such a document.
AuthenticFile(o, x) ==
  x # Absent => \E v \in CompleteVersions : x = Delivery!Rendered(PartsOf(v))[o]

Carried ==
  /\ \A p \in PipelinePublishers : pc[p] # "idle" => Authentic(target[p])
  /\ \A o \in Outputs : AuthenticFile(o, output[o])
  /\ \A c \in Consumers, o \in Outputs : AuthenticFile(o, loaded[c][o])

PipelineIInv == StoreIInv /\ Gated /\ Shaped /\ Carried

\* What is rendered from authentic values is authentic.
LEMMA RenderedAuthentic ==
  ASSUME NEW d, Authentic(d), NEW o \in Outputs
  PROVE  AuthenticFile(o, Delivery!Rendered(d)[o])
BY DEF Authentic, AuthenticFile

\* What was authentic stays so while the history grows.
LEMMA AuthenticLater ==
  ASSUME versions \subseteq versions'
  PROVE  /\ \A d : Authentic(d) => Authentic(d)'
         /\ \A o \in Outputs : \A x : AuthenticFile(o, x) => AuthenticFile(o, x)'
BY DEF Authentic, AuthenticFile, CompleteVersions

\* Once a boot's enrollment has succeeded, the publishers read a complete
\* document that was in the file.
LEMMA DeployedAuthentic ==
  ASSUME PipelineIInv, enrolled
  PROVE  Authentic(Deployed)
<1>1. document # None  BY DEF PipelineIInv, Gated
<1>2. document \in versions /\ \A f \in Fields : document.canon[f] \in Values
  BY <1>1 DEF PipelineIInv, StoreIInv, DeliverySound, DeliveredWasSaved, DeliveredIsComplete
<1> QED  BY <1>1, <1>2 DEF Authentic, Deployed, CompleteVersions

\* A host that has just booted satisfies the invariant.
LEMMA PipelineIInvInit == PipelineInit => PipelineIInv
<1> SUFFICES ASSUME PipelineInit PROVE PipelineIInv  OBVIOUS
<1>1. StoreIInv  BY StoreIInvInit DEF PipelineInit
<1>2. Gated  BY DEF PipelineInit, Gated, PipelinePublishers
<1>3. Shaped  BY DEF PipelineInit, Shaped, PipelinePublishers, Delivery!Unloaded
<1>4. Carried
  BY DEF PipelineInit, Carried, PipelinePublishers, Delivery!Unloaded, AuthenticFile
<1> QED  BY <1>1, <1>2, <1>3, <1>4 DEF PipelineIInv

-----------------------------------------------------------------------------
(* The steps of the store *)

\* No step of the store takes document.json away, or anything from the history.
LEMMA StoreKeeps ==
  ASSUME StoreTypeOK, [StoreNext]_storeVars
  PROVE  /\ versions \subseteq versions'
         /\ document # None => document' # None
<1>u. Units \subseteq Writers  BY WritersFact
<1>1. ASSUME NEW u \in Units, Project(u)
      PROVE  versions' = versions /\ document' # None
  <2>1. txn[u].saved \in File  BY <1>u, Parts
  <2>2. Projection(txn[u].saved.doc) # None  BY <2>1, ProjectionType DEF File
  <2> QED  BY <1>1, <2>2 DEF Project
<1>2. ASSUME NEW u \in Units, StartRun(u) \/ BeginUnit(u) \/ EnrollRefused(u)
                              \/ Reread(u) \/ Notify(u)
      PROVE  versions' = versions /\ document' = document
  BY <1>2 DEF StartRun, BeginUnit, Begin, EnrollRefused, Reread, Notify, delivery
<1>3. ASSUME NEW a \in Admins, BeginAdmin(a)
      PROVE  versions' = versions /\ document' = document
  BY <1>3 DEF BeginAdmin, Begin, delivery
<1>4. ASSUME NEW w \in Writers, SaveStep(w) \/ Abort(w)
      PROVE  versions \subseteq versions' /\ document' = document
  BY <1>4 DEF SaveStep, Decrypt, Enroll, Encrypt, Compare, Replace, Abort, delivery
<1>5. ASSUME NEW e \in Editors, Open(e) \/ Save(e)
      PROVE  versions \subseteq versions' /\ document' = document
  BY <1>5 DEF Open, Save, delivery
<1>6. CASE UNCHANGED storeVars  BY <1>6 DEF storeVars
<1> QED  BY <1>1, <1>2, <1>3, <1>4, <1>5, <1>6 DEF StoreNext, UnitStep

\* A step of the store leaves the units alone, but for their start jobs; only a
\* run that has projected its document completes the enrollment.
LEMMA StoreStepKeeps ==
  ASSUME PipelineIInv, [StoreNext]_storeVars, UNCHANGED processVars,
         enrolled' = enrolled \/ (enrolled' = TRUE /\ document # None)
  PROVE  PipelineIInv'
<1>1. StoreIInv'  BY StoreIInvStep DEF PipelineIInv
<1>2. versions \subseteq versions' /\ (document # None => document' # None)
  BY StoreKeeps DEF PipelineIInv, StoreIInv
<1>3. /\ UNCHANGED <<output, active, pc, target, running, loaded>>
      /\ Gated /\ Shaped /\ Carried
  BY DEF PipelineIInv, processVars
<1>4. Gated'  BY <1>2, <1>3 DEF Gated
<1>5. Shaped'  BY <1>3 DEF Shaped
<1>6. Carried'
  <2>1. \A p \in PipelinePublishers : pc[p] # "idle" => Authentic(target[p])'
    BY <1>2, <1>3, AuthenticLater DEF Carried
  <2>2. \A o \in Outputs : AuthenticFile(o, output[o])'
    BY <1>2, <1>3, AuthenticLater DEF Carried
  <2>3. \A c \in Consumers, o \in Outputs : AuthenticFile(o, loaded[c][o])'
    BY <1>2, <1>3, AuthenticLater DEF Carried
  <2> QED  BY <1>3, <2>1, <2>2, <2>3 DEF Carried
<1> QED  BY <1>1, <1>4, <1>5, <1>6 DEF PipelineIInv

\* A reboot leaves only the encrypted file and what has been drawn and saved.
LEMMA RebootKeeps ==
  ASSUME PipelineIInv, Reboot
  PROVE  PipelineIInv'
<1>1. StoreTypeOK /\ FileSound  BY DEF PipelineIInv, StoreIInv
<1>2. /\ UNCHANGED <<file, clock, used, versions>>
      /\ document' = None /\ success' = FALSE /\ projected' = 0 /\ reported' = 0
      /\ lock' = None /\ runLock' = None
      /\ txn' = [w \in Writers |-> NoTxn] /\ copy' = [e \in Editors |-> None]
      /\ enrolled' = FALSE
  BY DEF Reboot
<1>3. StoreTypeOK'  BY <1>1, <1>2, BlankType DEF StoreTypeOK
<1>4. \A w \in Writers : WriterSound(w)'  BY <1>2, <1>3, NoTxnSound
<1>5. FileSound'  BY <1>1, <1>2 DEF FileSound, Drawn
<1>6. DeliverySound'
  BY <1>2 DEF DeliverySound, DeliveredWasSaved, DeliveredIsComplete, SuccessIsCurrent
<1>7. /\ output' = [o \in Outputs |-> Absent] /\ active' = FALSE
      /\ pc' = [p \in PipelinePublishers |-> "idle"]
      /\ DOMAIN target' = PipelinePublishers
      /\ running' = [c \in Consumers |-> FALSE]
      /\ loaded' = [c \in Consumers |-> [o \in Outputs |-> Absent]]
  BY DEF Reboot, Delivery!PowerCycle, Delivery!Unloaded, PipelinePublishers
<1>8. Gated'  BY <1>2, <1>7 DEF Gated
<1>9. Shaped'  BY <1>7 DEF Shaped
<1>10. Carried'  BY <1>7 DEF Carried, AuthenticFile
<1> QED  BY <1>3, <1>4, <1>5, <1>6, <1>8, <1>9, <1>10 DEF PipelineIInv, StoreIInv

-----------------------------------------------------------------------------
(* The steps of the publishers and the consumers *)

\* A step of the delivery leaves the store as it is.
LEMMA DeliveryStepKeeps ==
  ASSUME PipelineIInv, UNCHANGED storeVars, enrolled' = enrolled,
         Gated', Shaped',
         \A p \in PipelinePublishers : pc'[p] # "idle" => Authentic(target'[p]),
         \A o \in Outputs : AuthenticFile(o, output'[o]),
         \A c \in Consumers, o \in Outputs : AuthenticFile(o, loaded'[c][o])
  PROVE  PipelineIInv'
<1>1. StoreIInv'  BY StoreIInvStep DEF PipelineIInv
<1>2. versions' = versions  BY DEF storeVars
<1>3. Carried'  BY <1>2 DEF Carried, Authentic, AuthenticFile, CompleteVersions
<1> QED  BY <1>1, <1>3 DEF PipelineIInv

\* A publisher begins only after enrollment, with what it finds deployed.
LEMMA BeginsAuthentic ==
  ASSUME PipelineIInv, NEW p \in PipelinePublishers, RunPublisher(p)
  PROVE  PipelineIInv'
<1>1. Gated /\ Shaped /\ Carried  BY DEF PipelineIInv
<1>2. enrolled /\ UNCHANGED storeVars /\ enrolled' = enrolled
  BY <1>1 DEF RunPublisher, MayRun, Gated
<1>3. document' = document  BY <1>2 DEF storeVars
<1>4. CASE Delivery!Begin(p)
  <2>1. /\ UNCHANGED <<output, active, running, loaded>>
        /\ pc' = [pc EXCEPT ![p] = "pend"]
        /\ target' = [target EXCEPT ![p] = Deployed]
    BY <1>4 DEF Delivery!Begin, Delivery!consumerVars
  <2>2. Gated'  BY <1>1, <1>2, <1>3, <2>1 DEF Gated, Shaped
  <2>3. Shaped'  BY <1>1, <2>1 DEF Shaped
  <2>4. \A q \in PipelinePublishers : pc'[q] # "idle" => Authentic(target'[q])
    BY <1>1, <1>2, <2>1, DeployedAuthentic DEF Shaped, Carried
  <2>5. /\ \A o \in Outputs : AuthenticFile(o, output'[o])
        /\ \A c \in Consumers, o \in Outputs : AuthenticFile(o, loaded'[c][o])
    BY <1>1, <2>1 DEF Carried
  <2> QED  BY <1>2, <2>2, <2>3, <2>4, <2>5, DeliveryStepKeeps
<1>5. CASE Delivery!Unchanged(p) \/ Delivery!Reject(p)
  <2>1. /\ UNCHANGED <<output, pc, target, running, loaded>>
        /\ (active => active')
    BY <1>5 DEF Delivery!Unchanged, Delivery!Reject, Delivery!consumerVars,
                Delivery!publisherVars
  <2>2. Gated'  BY <1>1, <1>2, <1>3, <2>1 DEF Gated
  <2>3. Shaped'  BY <1>1, <2>1 DEF Shaped
  <2>4. /\ \A q \in PipelinePublishers : pc'[q] # "idle" => Authentic(target'[q])
        /\ \A o \in Outputs : AuthenticFile(o, output'[o])
        /\ \A c \in Consumers, o \in Outputs : AuthenticFile(o, loaded'[c][o])
    BY <1>1, <2>1 DEF Carried
  <2> QED  BY <1>2, <2>2, <2>3, <2>4, DeliveryStepKeeps
<1> QED  BY <1>4, <1>5 DEF RunPublisher

\* A step in which a publisher goes on, ends or fails, and no file changes.
LEMMA PublisherGoesOn ==
  ASSUME PipelineIInv, NEW p \in PipelinePublishers, pc[p] # "idle",
         UNCHANGED <<storeVars, enrolled, output, running, loaded>>,
         (active => active'),
         NEW step, pc' = [pc EXCEPT ![p] = step],
         \/ target' = target
         \/ step = "idle" /\ target' = [target EXCEPT ![p] = Delivery!Empty]
  PROVE  PipelineIInv'
<1>1. Gated /\ Shaped /\ Carried  BY DEF PipelineIInv
<1>2. document' = document /\ UNCHANGED storeVars /\ enrolled' = enrolled
  BY DEF storeVars
<1>3. enrolled  BY <1>1 DEF Gated
<1>4. Gated'  BY <1>1, <1>2, <1>3 DEF Gated
<1>5. Shaped'  BY <1>1 DEF Shaped
<1>6. \A q \in PipelinePublishers : pc'[q] # "idle" => Authentic(target'[q])
  BY <1>1 DEF Shaped, Carried
<1>7. /\ \A o \in Outputs : AuthenticFile(o, output'[o])
      /\ \A c \in Consumers, o \in Outputs : AuthenticFile(o, loaded'[c][o])
  BY <1>1 DEF Carried
<1> QED  BY <1>2, <1>4, <1>5, <1>6, <1>7, DeliveryStepKeeps

\* What a publisher writes is rendered from the values it began with.
LEMMA PublishKeeps ==
  ASSUME PipelineIInv, NEW p \in PipelinePublishers, Publish(p)
  PROVE  PipelineIInv'
<1>1. Gated /\ Shaped /\ Carried  BY DEF PipelineIInv
<1>2. UNCHANGED storeVars /\ enrolled' = enrolled  BY DEF Publish
<1>3. document' = document  BY <1>2 DEF storeVars
<1>4. CASE Delivery!Pend(p)
  BY <1>2, <1>4, PublisherGoesOn DEF Delivery!Pend, Delivery!consumerVars
<1>5. CASE Delivery!Mark(p)
  BY <1>2, <1>5, PublisherGoesOn DEF Delivery!Mark, Delivery!consumerVars
<1>6. CASE Delivery!Finish(p)
  <2>1. /\ pc[p] # "idle" /\ UNCHANGED <<output, running, loaded>> /\ active' = TRUE
        /\ pc' = [pc EXCEPT ![p] = "idle"]
        /\ target' = [target EXCEPT ![p] = Delivery!Empty]
    BY <1>6 DEF Delivery!Finish, Delivery!EndRun, Delivery!consumerVars
  <2> QED  BY <1>2, <2>1, PublisherGoesOn
<1>7. ASSUME NEW o \in Outputs, Delivery!Write(p, o) PROVE PipelineIInv'
  <2>1. /\ pc[p] # "idle" /\ UNCHANGED <<active, pc, target, running, loaded>>
        /\ output' = [output EXCEPT ![o] = Delivery!Rendered(target[p])[o]]
    BY <1>7 DEF Delivery!Write, Delivery!consumerVars
  <2>2. Gated'  BY <1>1, <1>2, <1>3, <2>1 DEF Gated
  <2>3. Shaped'  BY <1>1, <2>1 DEF Shaped
  <2>4. \A q \in Outputs : AuthenticFile(q, output'[q])
    <3>1. AuthenticFile(o, Delivery!Rendered(target[p])[o])
      BY <1>1, <2>1, RenderedAuthentic DEF Carried
    <3> QED  BY <1>1, <2>1, <3>1 DEF Shaped, Carried
  <2>5. /\ \A q \in PipelinePublishers : pc'[q] # "idle" => Authentic(target'[q])
        /\ \A c \in Consumers, q \in Outputs : AuthenticFile(q, loaded'[c][q])
    BY <1>1, <2>1 DEF Carried
  <2> QED  BY <1>2, <2>2, <2>3, <2>4, <2>5, DeliveryStepKeeps
<1>8. ASSUME NEW c \in Consumers, Delivery!Restart(p, c) PROVE PipelineIInv'
  <2>1. UNCHANGED <<output, active, pc, target, running, loaded>>
    BY <1>8 DEF Delivery!Restart
  <2>2. Gated' /\ Shaped'  BY <1>1, <1>2, <1>3, <2>1 DEF Gated, Shaped
  <2>3. /\ \A q \in PipelinePublishers : pc'[q] # "idle" => Authentic(target'[q])
        /\ \A o \in Outputs : AuthenticFile(o, output'[o])
        /\ \A b \in Consumers, o \in Outputs : AuthenticFile(o, loaded'[b][o])
    BY <1>1, <2>1 DEF Carried
  <2> QED  BY <1>2, <2>2, <2>3, DeliveryStepKeeps
<1> QED  BY <1>4, <1>5, <1>6, <1>7, <1>8 DEF Publish

\* A consumer that starts or stops holds nothing, one that loads takes a file.
LEMMA ConsumerKeeps ==
  ASSUME PipelineIInv, NEW c \in Consumers, UNCHANGED <<storeVars, enrolled>>,
         Delivery!ConsumerStep(c) \/ Delivery!Stop(c)
  PROVE  PipelineIInv'
<1>1. Gated /\ Shaped /\ Carried  BY DEF PipelineIInv
<1>2. /\ UNCHANGED storeVars /\ enrolled' = enrolled /\ document' = document
  BY DEF storeVars
<1>3. UNCHANGED <<output, active, pc, target>>
  BY DEF Delivery!ConsumerStep, Delivery!Start, Delivery!Load, Delivery!Stop,
         Delivery!publisherVars
<1>4. /\ \A q \in PipelinePublishers : pc'[q] # "idle" => Authentic(target'[q])
      /\ \A o \in Outputs : AuthenticFile(o, output'[o])
  BY <1>1, <1>3 DEF Carried
<1>5. CASE Delivery!Start(c) \/ Delivery!Stop(c)
  <2>1. /\ loaded' = [loaded EXCEPT ![c] = [o \in Outputs |-> Absent]]
        /\ \E b : running' = [running EXCEPT ![c] = b] /\ (b => active)
    BY <1>1, <1>5 DEF Delivery!Start, Delivery!Stop, Delivery!Unloaded
  <2>2. Gated'  BY <1>1, <1>2, <1>3, <2>1 DEF Gated, Shaped
  <2>3. Shaped'  BY <1>1, <1>3, <2>1 DEF Shaped
  <2>4. \A b \in Consumers, o \in Outputs : AuthenticFile(o, loaded'[b][o])
    BY <1>1, <2>1 DEF Shaped, Carried, AuthenticFile
  <2> QED  BY <1>2, <1>4, <2>2, <2>3, <2>4, DeliveryStepKeeps
<1>6. ASSUME NEW o \in Outputs, Delivery!Load(c, o) PROVE PipelineIInv'
  <2>1. loaded' = [loaded EXCEPT ![c][o] = output[o]] /\ running' = running
    BY <1>6 DEF Delivery!Load
  <2>2. Gated'  BY <1>1, <1>2, <1>3, <2>1 DEF Gated
  <2>3. Shaped'  BY <1>1, <1>3, <2>1 DEF Shaped
  <2>4. \A b \in Consumers, q \in Outputs : AuthenticFile(q, loaded'[b][q])
    BY <1>1, <2>1 DEF Shaped, Carried
  <2> QED  BY <1>2, <1>4, <2>2, <2>3, <2>4, DeliveryStepKeeps
<1> QED  BY <1>5, <1>6 DEF Delivery!ConsumerStep

\* Failures end a publisher or stop a consumer.
LEMMA DisturbKeeps ==
  ASSUME PipelineIInv, Disturb
  PROVE  PipelineIInv'
<1>1. UNCHANGED <<storeVars, enrolled>>  BY DEF Disturb
<1>2. ASSUME NEW p \in PipelinePublishers, Delivery!Fail(p) PROVE PipelineIInv'
  <2>1. /\ pc[p] # "idle" /\ UNCHANGED <<output, active, running, loaded>>
        /\ pc' = [pc EXCEPT ![p] = "idle"]
        /\ target' = [target EXCEPT ![p] = Delivery!Empty]
    BY <1>2 DEF Delivery!Fail, Delivery!EndRun
  <2> QED  BY <1>1, <2>1, PublisherGoesOn
<1>3. ASSUME NEW c \in Consumers, Delivery!Stop(c) PROVE PipelineIInv'
  BY <1>1, <1>3, ConsumerKeeps
<1> QED  BY <1>2, <1>3 DEF Disturb, PipelinePublishers

-----------------------------------------------------------------------------
(* Theorems *)

\* Every step keeps the invariant.
LEMMA PipelineIInvStep == PipelineIInv /\ [PipelineNext]_pipelineVars => PipelineIInv'
<1> SUFFICES ASSUME PipelineIInv, [PipelineNext]_pipelineVars PROVE PipelineIInv'
  OBVIOUS
<1>1. ASSUME NEW u \in Units, StartUnit(u) \/ StoreStep(UnitStep(u)) PROVE PipelineIInv'
  <2>1. /\ StartRun(u) \/ UnitStep(u)
        /\ UNCHANGED processVars /\ enrolled' = enrolled
    BY <1>1 DEF StartUnit, StoreStep, joinVars, unitVars
  <2>2. StoreNext  BY <2>1 DEF StoreNext
  <2> QED  BY <2>1, <2>2, StoreStepKeeps
<1>2. ASSUME NEW u \in Units, Completed(u) PROVE PipelineIInv'
  <2>1. Notify(u) /\ UNCHANGED processVars /\ enrolled' = TRUE
    BY <1>2 DEF Completed, unitVars
  <2>2. StoreNext  BY <2>1 DEF StoreNext
  <2>3. document # None
    <3>1. WriterSound(u)  BY WritersFact DEF PipelineIInv, StoreIInv
    <3> QED  BY <2>1, <3>1 DEF WriterSound, Vouched, Notify, At
  <2> QED  BY <2>1, <2>2, <2>3, StoreStepKeeps
<1>3. ASSUME NEW a \in Admins, StoreStep(BeginAdmin(a)) PROVE PipelineIInv'
  <2>1. StoreNext /\ UNCHANGED processVars /\ enrolled' = enrolled
    BY <1>3 DEF StoreStep, StoreNext
  <2> QED  BY <2>1, StoreStepKeeps
<1>4. ASSUME NEW w \in Writers, StoreStep(SaveStep(w)) \/ StoreStep(Abort(w))
      PROVE  PipelineIInv'
  <2>1. StoreNext /\ UNCHANGED processVars /\ enrolled' = enrolled
    BY <1>4 DEF StoreStep, StoreNext
  <2> QED  BY <2>1, StoreStepKeeps
<1>5. ASSUME NEW e \in Editors, StoreStep(Open(e)) \/ StoreStep(Save(e)) PROVE PipelineIInv'
  <2>1. StoreNext /\ UNCHANGED processVars /\ enrolled' = enrolled
    BY <1>5 DEF StoreStep, StoreNext
  <2> QED  BY <2>1, StoreStepKeeps
<1>6. ASSUME NEW p \in PipelinePublishers, RunPublisher(p) \/ Publish(p)
      PROVE  PipelineIInv'
  BY <1>6, BeginsAuthentic, PublishKeeps
<1>7. ASSUME NEW c \in Consumers, Consume(c) PROVE PipelineIInv'
  BY <1>7, ConsumerKeeps DEF Consume, joinVars
<1>8. CASE UNCHANGED pipelineVars
  <2>1. UNCHANGED storeVars /\ UNCHANGED processVars /\ enrolled' = enrolled
    BY <1>8 DEF pipelineVars, joinVars, unitVars
  <2> QED  BY <2>1, StoreStepKeeps
<1> QED
  BY <1>1, <1>2, <1>3, <1>4, <1>5, <1>6, <1>7, <1>8, DisturbKeeps, RebootKeeps
  DEF PipelineNext, PipelinePublishers

\* The invariant holds in every reachable state, across reboots.
THEOREM PipelineInvariant == PipelineSpec => []PipelineIInv
<1> QED  BY PipelineIInvInit, PipelineIInvStep, PTL DEF PipelineSpec

\* No consumer runs before the enrollment of this boot has delivered.
THEOREM StartupAlwaysWaits == PipelineSpec => []StartupWaitsForEnrollment
<1>1. PipelineIInv => StartupWaitsForEnrollment
  BY DEF PipelineIInv, Gated, StartupWaitsForEnrollment
<1> QED  BY <1>1, PipelineInvariant, PTL

-----------------------------------------------------------------------------
(* The guarantees of the store, across reboots *)

\* Across reboots, too, what is delivered was saved as a whole and is complete,
\* and a success in status.json vouches for the document.json that is there.
THEOREM StoreStaysSound ==
  PipelineSpec => [](DeliveredWasSaved /\ DeliveredIsComplete /\ SuccessIsCurrent)
<1>1. PipelineIInv => DeliveredWasSaved /\ DeliveredIsComplete /\ SuccessIsCurrent
  BY DEF PipelineIInv, StoreIInv, DeliverySound
<1> QED  BY <1>1, PipelineInvariant, PTL

\* To the store, every step of the system but a reboot is one of its own or none.
LEMMA PipelineStoreSteps ==
  ASSUME [PipelineNext]_pipelineVars
  PROVE  [StoreNext]_storeVars \/ Reboot
<1>1. ASSUME NEW u \in Units, StartUnit(u) \/ StoreStep(UnitStep(u)) \/ Completed(u)
      PROVE  StoreNext
  BY <1>1 DEF StartUnit, StoreStep, Completed, StoreNext
<1>2. ASSUME NEW p \in PipelinePublishers, RunPublisher(p) \/ Publish(p)
      PROVE  UNCHANGED storeVars
  BY <1>2 DEF RunPublisher, Publish
<1>3. ASSUME NEW c \in Consumers, Consume(c) PROVE UNCHANGED storeVars
  BY <1>3 DEF Consume
<1>4. Disturb => UNCHANGED storeVars  BY DEF Disturb
<1>5. UNCHANGED pipelineVars => UNCHANGED storeVars  BY DEF pipelineVars
<1> QED
  BY <1>1, <1>2, <1>3, <1>4, <1>5 DEF PipelineNext, PipelinePublishers, StoreStep, StoreNext

\* Whatever systemd, the publishers and reboots do around a save, it replaces
\* the document it was computed from by a permitted outcome.
THEOREM SavesStayTransactions == PipelineSpec => SavesAreTransactions
<1>1. PipelineIInv =>
        [\A w \in Writers :
           Replace(w) /\ ~txn[w].raced => Outcome(file.doc, txn[w].cmd, file'.doc)]_storeVars
  BY ReplaceIsTransaction DEF PipelineIInv
<1> QED  BY <1>1, PipelineInvariant, PTL DEF SavesAreTransactions

\* And it loses no credential and invents none beside a stored one.
THEOREM StoredValuesStay == PipelineSpec => StoredValuesSurvive
<1>1. PipelineIInv =>
        [\A w \in Writers :
           Replace(w) /\ ~txn[w].raced /\ Plain(txn[w].cmd) =>
             \A f \in Fields :
               Candidates(file.doc, f) # {} =>
                 Candidates(file'.doc, f) = Candidates(file.doc, f)]_storeVars
  BY ReplaceKeepsValues DEF PipelineIInv
<1> QED  BY <1>1, PipelineInvariant, PTL DEF StoredValuesSurvive

\* Across reboots, too, the encrypted file is written only when there is
\* something to settle: a run that a reboot cut short is not repeated for nothing.
THEOREM WritesStayNeeded == PipelineSpec => [][NeededWrite]_storeVars
<1>1. PipelineInit => \A w \in Writers : Differs(w)
  BY DEF PipelineInit, StoreInit, Differs, NoTxn
<1>2. PipelineIInv /\ (\A w \in Writers : Differs(w)) /\ [PipelineNext]_pipelineVars
        => (\A w \in Writers : Differs(w))'
  <2> SUFFICES ASSUME PipelineIInv, \A w \in Writers : Differs(w),
                      [PipelineNext]_pipelineVars
               PROVE  (\A w \in Writers : Differs(w))'
    OBVIOUS
  <2>1. CASE [StoreNext]_storeVars  BY <2>1, DiffersStep DEF PipelineIInv, StoreIInv
  <2>2. CASE Reboot  BY <2>2 DEF Reboot, Differs, NoTxn
  <2> QED  BY <2>1, <2>2, PipelineStoreSteps
<1>3. PipelineIInv /\ (\A w \in Writers : Differs(w)) => [NeededWrite]_storeVars
  BY WritesAreNeeded DEF PipelineIInv
<1> QED  BY <1>1, <1>2, <1>3, PipelineInvariant, PTL DEF PipelineSpec

\* In the whole system, too, only a save, and an edit, changes the file.
LEMMA PipelineFileChanges ==
  ASSUME PipelineNext, file' # file
  PROVE  (\E w \in Writers : Replace(w)) \/ Editors # {}
<1>1. StoreNext  BY PipelineStoreSteps DEF Reboot, storeVars
<1> QED  BY <1>1, FileChanges

\* Without an unlocked writer the system implements the atomic vault: neither a
\* reboot in the middle of a save nor anything that happens on the way to the
\* consumers is seen in the encrypted file.
THEOREM PipelineImplementsVault ==
  ASSUME Editors = {}
  PROVE  PipelineSpec => ImplementsVault
<1>1. PipelineInit => Vault!Init  BY DEF PipelineInit, StoreInit, Vault!Init
<1>2. PipelineIInv /\ [PipelineNext]_pipelineVars => [Vault!Next]_(file.doc)
  BY PipelineFileChanges, ReplaceIsVaultStep DEF pipelineVars, storeVars, PipelineIInv
<1> QED  BY <1>1, <1>2, PipelineInvariant, PTL DEF PipelineSpec, ImplementsVault, Vault!Spec

-----------------------------------------------------------------------------
(* The guarantees of the delivery, in the whole system *)

\* The lemmas about the publishers and consumers, which speak of any document
\* and any history of documents, for the document the enrollment projects and
\* the complete versions, of which it is always one.
Proved == INSTANCE CredentialDeliveryProofs WITH
  Publishers <- {publisher, refresh}, Keys <- Fields, Values <- Values \cup Nat,
  MaxFaults <- MaxDeliveryFaults, MaxDeployments <- 0,
  deployed <- Deployed, deployments <- 0, seen <- Deployables

\* The assumptions under which those lemmas were proved.
LEMMA DeliveryAssumptions ==
  /\ Fields # {} /\ Revision \notin Fields
  /\ Shows \in [Outputs -> SUBSET Proved!Parts]
  /\ Reads \in [Consumers -> SUBSET Outputs]
  /\ Conditional \subseteq Consumers
  /\ None \notin Values \cup Nat /\ Malformed \notin Values \cup Nat /\ None # Malformed
  /\ None \notin {publisher, refresh}
  /\ MaxDeliveryFaults \in Nat /\ 0 \in Nat
  /\ \A S \in SUBSET Proved!Parts : Absent \notin Proved!Content(S)
BY PartAssumption, FilesAssumption, NumberAssumption, PublisherAssumption,
   AbsentAssumption, DeliveryBoundAssumption, EntryAssumption
   DEF Proved!Parts, Proved!Content

\* A projection is a document that can be deployed.
LEMMA PartsDeployable ==
  ASSUME NEW v \in Delivered
  PROVE  PartsOf(v) \in Proved!Deployable
<1>1. Services # {}  BY PartAssumption, OwnerAssumption
<1>2. v.rev[CHOOSE s \in Services : TRUE] \in Nat  BY <1>1 DEF Delivered
<1>3. \A f \in Fields : v.canon[f] \in Entry  BY DEF Delivered
<1>4. PartsOf(v)[Revision] \in Nat  BY <1>2 DEF PartsOf
<1>5. PartsOf(v) \in [Fields \cup {Revision} -> Values \cup Nat \cup {None, Malformed}]
  BY <1>2, <1>3 DEF PartsOf, Entry
<1> QED  BY <1>4, <1>5, NumberAssumption
  DEF Proved!Deployable, Proved!Parts, Proved!Entry

\* So is the absence of one.
LEMMA NothingDeployable ==
  [p \in Fields \cup {Revision} |-> None] \in Proved!Deployable
BY EntryAssumption DEF Proved!Deployable, Proved!Parts, Proved!Entry

\* What is deployed, and has been, is typed.
LEMMA DeployedTyped ==
  /\ StoreTypeOK => Deployed \in Proved!Deployable /\ Deployables \subseteq Proved!Deployable
  /\ StoreTypeOK' => Deployed' \in Proved!Deployable /\ Deployables' \subseteq Proved!Deployable
<1>1. ASSUME StoreTypeOK
      PROVE  Deployed \in Proved!Deployable /\ Deployables \subseteq Proved!Deployable
  BY <1>1, PartsDeployable, NothingDeployable
  DEF StoreTypeOK, Deployed, Deployables, CompleteVersions
<1>2. ASSUME StoreTypeOK'
      PROVE  Deployed' \in Proved!Deployable /\ Deployables' \subseteq Proved!Deployable
  BY <1>2, PartsDeployable, NothingDeployable
  DEF StoreTypeOK, Deployed, Deployables, CompleteVersions
<1> QED  BY <1>1, <1>2

\* The units of a booted host satisfy what the publishers' proofs need.
LEMMA PipelineUnitsInit == PipelineInit => Proved!DeliveryTypeOK /\ Proved!UnitIInv
<1> SUFFICES ASSUME PipelineInit PROVE Proved!DeliveryTypeOK /\ Proved!UnitIInv
  OBVIOUS
<1>1. Proved!Booted
  BY DEF PipelineInit, Proved!Booted, Proved!Unloaded, Proved!Empty, Proved!Parts,
         Delivery!Unloaded, Delivery!Empty, Delivery!Parts
<1>2. StoreTypeOK  BY StoreTypeInit DEF PipelineInit
<1>3. Proved!DeliveryTypeOK
  BY <1>1, <1>2, DeployedTyped, DeliveryAssumptions, Proved!BootedType
<1>4. Proved!UnitIInv
  BY <1>1, DeliveryAssumptions, Proved!BootedSound
<1> QED  BY <1>3, <1>4

\* The steps of the publishers are the steps those proofs are about.
LEMMA SamePublisherSteps ==
  ASSUME NEW p \in PipelinePublishers
  PROVE  /\ Delivery!Begin(p) => Proved!Begin(p)
         /\ Delivery!Unchanged(p) => Proved!Unchanged(p)
         /\ Delivery!Reject(p) => Proved!Reject(p)
         /\ Delivery!Pend(p) => Proved!Pend(p)
         /\ Delivery!Mark(p) => Proved!Mark(p)
         /\ Delivery!Finish(p) => Proved!Finish(p)
         /\ Delivery!Fail(p) => Proved!Fail(p)
         /\ \A o \in Outputs : Delivery!Write(p, o) => Proved!Write(p, o)
         /\ \A c \in Consumers : Delivery!Restart(p, c) => Proved!Restart(p, c)
<1> USE DEF Delivery!consumerVars, Proved!consumerVars, Delivery!publisherVars,
            Proved!publisherVars, Delivery!Valid, Proved!Valid, Delivery!Complete,
            Proved!Complete, Delivery!Rendered, Proved!Rendered, Delivery!EndRun,
            Proved!EndRun, Delivery!Empty, Proved!Empty, Delivery!Parts, Proved!Parts
<1>1. Delivery!Begin(p) => Proved!Begin(p)  BY DEF Delivery!Begin, Proved!Begin
<1>2. Delivery!Unchanged(p) => Proved!Unchanged(p)
  BY DEF Delivery!Unchanged, Proved!Unchanged
<1>3. Delivery!Reject(p) => Proved!Reject(p)  BY DEF Delivery!Reject, Proved!Reject
<1>4. Delivery!Pend(p) => Proved!Pend(p)  BY DEF Delivery!Pend, Proved!Pend
<1>5. Delivery!Mark(p) => Proved!Mark(p)  BY DEF Delivery!Mark, Proved!Mark
<1>6. Delivery!Finish(p) => Proved!Finish(p)  BY DEF Delivery!Finish, Proved!Finish
<1>7. Delivery!Fail(p) => Proved!Fail(p)  BY DEF Delivery!Fail, Proved!Fail
<1>8. \A o \in Outputs : Delivery!Write(p, o) => Proved!Write(p, o)
  BY DEF Delivery!Write, Proved!Write
<1>9. \A c \in Consumers : Delivery!Restart(p, c) => Proved!Restart(p, c)
  BY DEF Delivery!Restart, Proved!Restart
<1> QED  BY <1>1, <1>2, <1>3, <1>4, <1>5, <1>6, <1>7, <1>8, <1>9

\* So are those of the consumers, and a power cycle.
LEMMA SameConsumerSteps ==
  /\ \A c \in Consumers :
       /\ Delivery!ConsumerStep(c) => Proved!ConsumerStep(c)
       /\ Delivery!Stop(c) => Proved!Stop(c)
  /\ Delivery!PowerCycle => Proved!PowerCycle
<1> USE DEF Delivery!publisherVars, Proved!publisherVars, Delivery!Unloaded, Proved!Unloaded
<1>1. \A c \in Consumers : Delivery!Start(c) => Proved!Start(c)
  BY DEF Delivery!Start, Proved!Start
<1>2. \A c \in Consumers, o \in Outputs : Delivery!Load(c, o) => Proved!Load(c, o)
  BY DEF Delivery!Load, Proved!Load
<1>3. \A c \in Consumers : Delivery!Stop(c) => Proved!Stop(c)
  BY DEF Delivery!Stop, Proved!Stop
<1>4. Delivery!PowerCycle => Proved!PowerCycle
  BY DEF Delivery!PowerCycle, Proved!PowerCycle, Delivery!Empty, Proved!Empty,
         Delivery!Parts, Proved!Parts
<1> QED  BY <1>1, <1>2, <1>3, <1>4 DEF Delivery!ConsumerStep, Proved!ConsumerStep

\* Every step of the system is one of the units, or none of theirs.
LEMMA PipelineNextIsUnitNext ==
  ASSUME [PipelineNext]_pipelineVars
  PROVE  Proved!UnitNext
<1> USE DEF Proved!UnitNext, PipelinePublishers
<1>1. CASE UNCHANGED unitVars
  BY <1>1 DEF unitVars, processVars, Proved!publisherVars, Proved!consumerVars
<1>6. CASE UNCHANGED processVars /\ (UNCHANGED queued \/ StartJobsFail)
  <2>1. CASE UNCHANGED queued  BY <1>1, <1>6, <2>1 DEF unitVars
  <2>2. CASE StartJobsFail
    BY <1>6, <2>2 DEF StartJobsFail, processVars, Proved!JobsFail, Proved!publisherVars
  <2> QED  BY <1>6, <2>1, <2>2
<1>2. ASSUME NEW p \in PipelinePublishers, RunPublisher(p) \/ Publish(p)
      PROVE  Proved!UnitNext
  BY <1>2, SamePublisherSteps DEF RunPublisher, Publish, Proved!PublisherStep
<1>3. ASSUME NEW c \in Consumers, Consume(c) PROVE Proved!UnitNext
  BY <1>3, SameConsumerSteps DEF Consume
<1>4. CASE Disturb  BY <1>4, SamePublisherSteps, SameConsumerSteps DEF Disturb
<1>5. CASE Reboot  BY <1>5, SameConsumerSteps DEF Reboot
<1> QED
  BY <1>1, <1>2, <1>3, <1>4, <1>5, <1>6
  DEF PipelineNext, StartUnit, Completed, StoreStep, pipelineVars

\* No step takes anything from the history, and no publisher begins with a
\* document that is not in it.
LEMMA PipelineHistory ==
  ASSUME PipelineIInv, [PipelineNext]_pipelineVars
  PROVE  /\ Deployables \subseteq Deployables'
         /\ \A p \in PipelinePublishers : Proved!Begin(p) => Deployed \in Deployables
<1>1. versions \subseteq versions'
  BY PipelineStoreSteps, StoreKeeps DEF PipelineIInv, StoreIInv, Reboot
<1>2. Deployables \subseteq Deployables'  BY <1>1 DEF Deployables, CompleteVersions, PartsOf
<1>3. ASSUME NEW p \in PipelinePublishers, Proved!Begin(p)
      PROVE  Deployed \in Deployables
  <2>1. pc'[p] # "idle" /\ target'[p] = Deployed /\ Deployables' = Deployables
    BY <1>3 DEF Proved!Begin, PipelineIInv, Shaped
  <2>2. Carried'  BY PipelineIInvStep DEF PipelineIInv
  <2>3. Deployed \in Deployables'
    BY <2>1, <2>2 DEF Carried, Authentic, Deployables
  <2> QED  BY <2>1, <2>3
<1> QED  BY <1>2, <1>3

PipelineUnits == PipelineIInv /\ Proved!DeliveryTypeOK /\ Proved!UnitIInv

\* Every step of the system keeps what the publishers' proofs need.
LEMMA PipelineUnitsStep ==
  ASSUME PipelineUnits, [PipelineNext]_pipelineVars
  PROVE  PipelineUnits'
<1>1. PipelineIInv /\ PipelineIInv'  BY PipelineIInvStep DEF PipelineUnits
<1>2. Proved!UnitNext  BY PipelineNextIsUnitNext
<1>3. StoreTypeOK'  BY <1>1 DEF PipelineIInv, StoreIInv
<1>4. Proved!DeliveryTypeOK'
  BY <1>2, <1>3, DeployedTyped, DeliveryAssumptions, Proved!UnitTypeStep DEF PipelineUnits
<1>5. /\ Deployables \subseteq Deployables'
      /\ \A p \in {publisher, refresh} : Proved!Begin(p) => Deployed \in Deployables
  BY <1>1, PipelineHistory DEF PipelinePublishers
<1>6. Proved!UnitIInv'
  BY <1>2, <1>5, DeliveryAssumptions, Proved!UnitIInvStep DEF PipelineUnits
<1> QED  BY <1>1, <1>4, <1>6 DEF PipelineUnits

\* What the publishers and consumers rely on holds in the whole system.
LEMMA PipelineUnitsAlways == PipelineSpec => []PipelineUnits
<1>1. PipelineInit => PipelineUnits
  BY PipelineIInvInit, PipelineUnitsInit DEF PipelineUnits
<1>2. PipelineUnits /\ [PipelineNext]_pipelineVars => PipelineUnits'
  BY PipelineUnitsStep
<1> QED  BY <1>1, <1>2, PTL DEF PipelineSpec

\* The guarantees of one publisher hold for the files and consumers of the whole
\* system: unless a delivery is pending, the files are one whole rendering of one
\* version of the encrypted document, and no consumer is left with an old one.
THEOREM DeliveryHoldsInPipeline ==
  PipelineSpec =>
    [](Delivery!FilesAgree /\ Delivery!ConsumersCurrent /\ Delivery!FilesBeforeConsumers)
<1>1. Proved!UnitIInv => Delivery!FilesAgree
  BY DEF Proved!UnitIInv, Proved!FilesAgree, Delivery!FilesAgree, Proved!Unloaded,
         Delivery!Unloaded, Proved!Rendered, Delivery!Rendered, Proved!Complete,
         Delivery!Complete
<1>2. Proved!UnitIInv => Delivery!ConsumersCurrent
  BY DEF Proved!UnitIInv, Proved!ConsumersCurrent, Delivery!ConsumersCurrent
<1>3. Proved!UnitIInv => Delivery!FilesBeforeConsumers
  <2>1. Proved!Started => Proved!FilesBeforeConsumers
    BY DeliveryAssumptions, Proved!StartedMeansFiles
  <2> QED  BY <2>1 DEF Proved!UnitIInv, Proved!FilesBeforeConsumers,
                       Delivery!FilesBeforeConsumers
<1> QED  BY <1>1, <1>2, <1>3, PipelineUnitsAlways, PTL DEF PipelineUnits

\* Whatever a consumer loads was saved in the encrypted document and is usable,
\* and once nothing is pending or queued for it, all it holds is of one save as a
\* whole: for any number of services, fields, files, consumers, edits, kills and
\* reboots.  What it holds are the current files, and those are one rendering.
THEOREM ConsumersAlwaysGetSaved == PipelineSpec => []ConsumersGetSavedCredentials
<1>1. PipelineUnits => ConsumersGetSavedCredentials
  <2> SUFFICES ASSUME PipelineUnits PROVE ConsumersGetSavedCredentials  OBVIOUS
  <2>1. \A c \in Consumers, o \in Outputs : AuthenticFile(o, loaded[c][o])
    BY DEF PipelineUnits, PipelineIInv, Carried
  <2>2. ASSUME ~pending, NEW c \in Consumers, ~queued[c]
        PROVE  LET held == {o \in Outputs : loaded[c][o] # Absent}
               IN  held = {} \/ \E v \in CompleteVersions : \A o \in held :
                     loaded[c][o] = Delivery!Rendered(PartsOf(v))[o]
    <3>1. \A o \in Outputs : loaded[c][o] \in {Absent, output[o]}
      BY <2>2 DEF PipelineUnits, Proved!UnitIInv, Proved!ConsumersCurrent
    <3>2. CASE \E d \in Deployables : output = Proved!Rendered(d)
      <4>1. PICK v \in CompleteVersions : output = Proved!Rendered(PartsOf(v))
        BY <3>2 DEF Deployables
      <4> QED  BY <3>1, <4>1 DEF Proved!Rendered, Delivery!Rendered
    <3>3. CASE output = Proved!Unloaded
      BY <3>1, <3>3 DEF Proved!Unloaded
    <3> QED  BY <2>2, <3>2, <3>3 DEF PipelineUnits, Proved!UnitIInv, Proved!FilesAgree
  <2> QED  BY <2>1, <2>2 DEF ConsumersGetSavedCredentials, AuthenticFile
<1> QED  BY <1>1, PipelineUnitsAlways, PTL
=============================================================================
