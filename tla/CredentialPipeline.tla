------------------------- MODULE CredentialPipeline -------------------------
(***************************************************************************)
(* The whole way of a credential: the enrollment units and the commands    *)
(* that write the encrypted document, the document.json they project, and  *)
(* one service's publisher and consumers, joined by systemd.               *)
(*                                                                         *)
(*   sync         nixstead-credentials-sync, once per boot                 *)
(*   syncRefresh  nixstead-credentials-sync-refresh, by a timer; it asks   *)
(*                systemd to start the refresh publisher                   *)
(*   publisher    nixstead-credential-<id>, once per boot, requires sync   *)
(*   refresh      nixstead-credential-<id>-refresh, requires publisher     *)
(*                                                                         *)
(* systemd keeps a start job for a unit until what the unit requires has   *)
(* started; when that fails instead, the job fails with it, and somebody   *)
(* has to start the unit again.                                            *)
(***************************************************************************)
EXTENDS CredentialStore

CONSTANTS
  sync, syncRefresh, publisher, refresh,
  Revision, Outputs, Shows, Consumers, Reads, Conditional, Absent,
  MaxDeliveryFaults

\* What the publishers and their units are given, as in CredentialDelivery; a
\* file may hold the values and the revision of the document.
ASSUME PartAssumption == Fields # {} /\ Revision \notin Fields
ASSUME FilesAssumption ==
  /\ Shows \in [Outputs -> SUBSET (Fields \cup {Revision})]
  /\ Reads \in [Consumers -> SUBSET Outputs]
  /\ Conditional \subseteq Consumers
ASSUME NumberAssumption == None \notin Nat /\ Malformed \notin Nat
ASSUME PublisherAssumption == None \notin {publisher, refresh}
ASSUME AbsentAssumption ==
  \A S \in SUBSET (Fields \cup {Revision}) : Absent \notin [S -> Values \cup Nat \cup {None}]
ASSUME DeliveryBoundAssumption == MaxDeliveryFaults \in Nat

VARIABLES
  output, pending, ready, active, holder, pc, target, left,
  running, loaded, queued, faults,
  enrolled,   \* nixstead-credentials-sync has succeeded since boot
  wanted,     \* there is a start job of the boot publisher, and
  requested   \*   of the refresh publisher

joinVars == <<enrolled, wanted, requested>>
processVars == <<output, pending, ready, active, holder, pc, target, left,
                 running, loaded, faults>>
unitVars == <<processVars, queued>>
pipelineVars == <<storeVars, unitVars, joinVars>>

\* The values of one version of the document as the publisher looks them up.
PartsOf(projection) ==
  [p \in Fields \cup {Revision} |->
     IF p = Revision THEN projection.rev[CHOOSE s \in Services : TRUE]
                     ELSE projection.canon[p]]

Deployed == IF document = None
              THEN [p \in Fields \cup {Revision} |-> None]
              ELSE PartsOf(document)

\* The versions that enrollment would have projected, and what they deploy.
CompleteVersions == {v \in versions : \A f \in Fields : v.canon[f] \in Values}
Deployables == {PartsOf(v) : v \in CompleteVersions}

Delivery == INSTANCE CredentialDelivery WITH
  Publishers <- {publisher, refresh}, Keys <- Fields, Values <- Values \cup Nat,
  MaxFaults <- MaxDeliveryFaults, MaxDeployments <- 0,
  deployed <- Deployed, deployments <- 0, seen <- Deployables

PipelineInit ==
  /\ StoreInit
  /\ output = Delivery!Unloaded
  /\ pending = FALSE /\ ready = FALSE /\ active = FALSE
  /\ holder = None
  /\ pc = [p \in {publisher, refresh} |-> "idle"]
  /\ target = [p \in {publisher, refresh} |-> Delivery!Empty]
  /\ left = [p \in {publisher, refresh} |-> {}]
  /\ running = [c \in Consumers |-> FALSE]
  /\ loaded = [c \in Consumers |-> Delivery!Unloaded]
  /\ queued = [c \in Consumers |-> TRUE]
  /\ faults = 0
  /\ enrolled = FALSE /\ wanted = TRUE /\ requested = FALSE

-----------------------------------------------------------------------------
(* Enrollment *)

\* Requires= and After= of the enrollment units.
StartUnit(u) ==
  /\ (u = sync) <=> ~enrolled
  /\ StartRun(u)
  /\ UNCHANGED <<unitVars, joinVars>>

\* Before the boot publisher's first success, the start jobs that wait for it
\* fail with it, and with the enrollment that it requires.
StartJobsFail ==
  /\ wanted' = FALSE /\ requested' = (requested /\ active)
  /\ queued' = [c \in Consumers |-> active /\ queued[c]]

\* A step of the store.  If it ends the run of the boot unit, that run failed: a
\* success is Completed.
StoreStep(step) ==
  /\ step
  /\ IF ~At(sync, "idle") /\ At(sync, "idle")'
       THEN StartJobsFail
       ELSE UNCHANGED <<wanted, requested, queued>>
  /\ UNCHANGED <<processVars, enrolled>>

\* A run of the timer's unit starts the refresh publisher and with it, unless it
\* has succeeded, the publisher which that one requires; a unit that is already
\* running is not started again.
Request ==
  /\ requested' = (requested \/ pc[refresh] = "idle")
  /\ wanted' = (wanted \/ ~active)

\* Faulty: publishers are started only when the run itself changed the source.
Completed_OnChange(u) ==
  /\ Notify(u)
  /\ enrolled' = TRUE
  /\ IF u = syncRefresh /\ txn[u].original # txn[u].updated
       THEN Request ELSE UNCHANGED <<wanted, requested>>
  /\ UNCHANGED unitVars

\* The end of a run that succeeds: the boot unit becomes active.
Completed(u) ==
  /\ Notify(u)
  /\ enrolled' = TRUE
  /\ IF u = syncRefresh THEN Request ELSE UNCHANGED <<wanted, requested>>
  /\ UNCHANGED unitVars

-----------------------------------------------------------------------------
(* Delivery *)

\* A start job of the boot publisher waits for enrollment, and one of the refresh
\* publisher for the success of the boot publisher.
MayRun(p) == IF p = publisher THEN wanted /\ enrolled /\ ~active ELSE requested /\ active

\* The refresh publisher's start job ends with the run, that of the boot publisher
\* with its success; a run that fails takes the jobs that wait for it along.
RunPublisher(p) ==
  /\ MayRun(p)
  /\ UNCHANGED <<storeVars, enrolled>>
  /\ \/ /\ Delivery!Begin(p) \/ Delivery!Unchanged(p)
        /\ wanted' = (wanted /\ ~active') /\ requested' = (requested /\ p # refresh)
     \/ Delivery!Reject(p) /\ wanted' = FALSE /\ requested' = FALSE

Publish(p) ==
  /\ UNCHANGED <<storeVars, enrolled, requested>>
  /\ \/ Delivery!Pend(p) \/ Delivery!Mark(p) \/ Delivery!Finish(p)
     \/ \E o \in Outputs : Delivery!Write(p, o)
     \/ \E c \in Consumers : Delivery!Restart(p, c)
  /\ wanted' = (wanted /\ ~active')

Consume(c) == UNCHANGED <<storeVars, joinVars>> /\ Delivery!ConsumerStep(c)

Disturb ==
  /\ UNCHANGED <<storeVars, enrolled>>
  /\ \/ (\E p \in {publisher, refresh} : Delivery!Fail(p)) /\ StartJobsFail
     \/ (\E c \in Consumers : Delivery!Stop(c)) /\ UNCHANGED <<wanted, requested>>

\* Only the encrypted file survives: everything else is below /run.
Reboot ==
  /\ Delivery!PowerCycle
  /\ document' = None /\ success' = FALSE
  /\ projected' = 0 /\ reported' = 0
  /\ lock' = None /\ runLock' = None
  /\ txn' = [w \in Writers |-> NoTxn]
  /\ copy' = [e \in Editors |-> None]
  /\ enrolled' = FALSE /\ wanted' = TRUE /\ requested' = FALSE
  /\ UNCHANGED <<file, clock, used, versions>>

PipelineNext ==
  \/ \E u \in Units : StartUnit(u) \/ StoreStep(UnitStep(u)) \/ Completed(u)
  \/ \E a \in Admins : StoreStep(BeginAdmin(a))
  \/ \E w \in Writers : StoreStep(SaveStep(w)) \/ StoreStep(Abort(w))
  \/ \E e \in Editors : StoreStep(Open(e)) \/ StoreStep(Save(e))
  \/ \E p \in {publisher, refresh} : RunPublisher(p) \/ Publish(p)
  \/ \E c \in Consumers : Consume(c)
  \/ Disturb
  \/ Reboot

\* As in the components: timers and systemd go on, processes that run go on.
PipelineFairness ==
  /\ \A u \in Units :
       WF_pipelineVars(StartUnit(u) \/ StoreStep(UnitStep(u)) \/ Completed(u))
  /\ \A w \in Writers : WF_pipelineVars(StoreStep(SaveStep(w)))
  /\ \A p \in {publisher, refresh} :
       WF_pipelineVars(RunPublisher(p)) /\ WF_pipelineVars(Publish(p))
  /\ \A c \in Consumers : WF_pipelineVars(Consume(c))

PipelineSpec == PipelineInit /\ [][PipelineNext]_pipelineVars
FairPipelineSpec == PipelineSpec /\ PipelineFairness

-----------------------------------------------------------------------------
(* Properties *)

\* Whatever a consumer loads was saved in the encrypted document and is usable:
\* no credential that a failed run generated and no missing key ever reaches an
\* application.  And unless a delivery is pending, or its restart is queued, all
\* that it holds is of one save as a whole: a consumer that started between two
\* files, while a publisher was replacing them or after one was killed there,
\* does not keep the user name of one save beside the password of another.
ConsumersGetSavedCredentials ==
  /\ \A c \in Consumers, o \in Outputs :
       loaded[c][o] # Absent =>
         \E v \in CompleteVersions : loaded[c][o] = Delivery!Rendered(PartsOf(v))[o]
  /\ ~pending => \A c \in Consumers :
       LET held == {o \in Outputs : loaded[c][o] # Absent}
       IN  queued[c] \/ held = {} \/
             \E v \in CompleteVersions : \A o \in held :
               loaded[c][o] = Delivery!Rendered(PartsOf(v))[o]

\* docs/media-operations.md: "Initial dependent startup waits for successful
\* enrollment."
StartupWaitsForEnrollment == \A c \in Consumers : running[c] => enrolled /\ document # None

\* A saved change reaches every consumer: once commands, edits and failures
\* cease, all of them run with what the encrypted document holds, although a
\* start request that meets a running publisher is lost.
EventuallyRunsWithSaved ==
  <>[](Blocked(file.doc) \/
         \A c \in Consumers : Delivery!Serves(c, PartsOf(Projection(file.doc))))
=============================================================================
