---------------------- MODULE CredentialDeliveryProofs ----------------------
(***************************************************************************)
(* Proofs about CredentialDelivery, for every set of publishers, keys,     *)
(* outputs and consumers and without the bounds on faults and deployments. *)
(***************************************************************************)
EXTENDS CredentialDelivery, TLAPS

-----------------------------------------------------------------------------
(* Rendering *)

\* A file rendered from a valid document holds values, or nothing, for the
\* parts it shows: deployed_values() lets no malformed key through.
LEMMA RenderedType ==
  ASSUME NEW d \in Deployable, Valid(d), NEW o \in Outputs
  PROVE  /\ Rendered(d)[o] \in Content(Shows[o])
         /\ Rendered(d)[o] # Absent
<1>1. Shows[o] \subseteq Parts  BY ShowsAssumption
<1>2. \A p \in Parts : d[p] \in Values \cup {None}
  BY DEF Deployable, Entry, Valid, Parts
<1>3. Rendered(d)[o] = [p \in Shows[o] |-> d[p]]  BY DEF Rendered
<1>4. Rendered(d)[o] \in Content(Shows[o])  BY <1>1, <1>2, <1>3 DEF Content
<1> QED  BY <1>1, <1>4, AbsentAssumption

\* The document of an empty host can be deployed.
LEMMA EmptyDeployable == Empty \in Deployable /\ Valid(Empty)
<1>1. Empty \in [Parts -> Entry]  BY DEF Empty, Entry
<1>2. \A p \in Parts : Empty[p] = None  BY DEF Empty
<1> QED  BY <1>1, <1>2, ValueAssumption DEF Deployable, Valid, Parts

-----------------------------------------------------------------------------
(* Type correctness *)

\* The units of a booted host, whatever is deployed.
Booted ==
  /\ output = Unloaded
  /\ pending = FALSE /\ ready = FALSE /\ active = FALSE
  /\ holder = None
  /\ pc = [p \in Publishers |-> "idle"]
  /\ target = [p \in Publishers |-> Empty]
  /\ left = [p \in Publishers |-> {}]
  /\ running = [c \in Consumers |-> FALSE]
  /\ loaded = [c \in Consumers |-> Unloaded]
  /\ queued = [c \in Consumers |-> TRUE]
  /\ faults = 0

\* The state of a booted host is typed.
LEMMA BootedType ==
  ASSUME Booted, deployed \in Deployable, deployments \in Nat, seen \subseteq Deployable
  PROVE  DeliveryTypeOK
<1>1. DOMAIN output = Outputs /\ \A o \in Outputs : output[o] = Absent
  BY DEF Booted, Unloaded
<1>2. /\ DOMAIN loaded = Consumers
      /\ \A c \in Consumers : DOMAIN loaded[c] = Outputs /\ \A o \in Outputs : loaded[c][o] = Absent
  BY DEF Booted, Unloaded
<1> QED  BY <1>1, <1>2, EmptyDeployable DEF Booted, DeliveryTypeOK, Steps

\* The initial state is typed.
LEMMA DeliveryTypeInit == DeliveryInit => DeliveryTypeOK
<1> SUFFICES ASSUME DeliveryInit PROVE DeliveryTypeOK  OBVIOUS
<1>1. deployed \in Deployable /\ deployments \in Nat /\ seen \subseteq Deployable
  BY EmptyDeployable DEF DeliveryInit
<1>2. Booted  BY DEF DeliveryInit, Booted
<1> QED  BY <1>1, <1>2, BootedType

\* A unit that the publisher requires has failed: before the publisher's first
\* success the start jobs of the consumers fail, too.
JobsFail ==
  /\ queued' = [c \in Consumers |-> active /\ queued[c]]
  /\ UNCHANGED <<publisherVars, running, loaded, faults>>

\* What the units and the host do, whatever becomes of the deployed document
\* and of the history meanwhile.
UnitNext ==
  \/ \E p \in Publishers : PublisherStep(p) \/ Fail(p)
  \/ \E c \in Consumers : ConsumerStep(c) \/ Stop(c)
  \/ PowerCycle \/ JobsFail
  \/ UNCHANGED <<publisherVars, consumerVars, faults>>

\* Only the environment deploys, and only it counts.
LEMMA DeliveryNextIsUnitNext ==
  ASSUME [DeliveryNext]_deliveryVars
  PROVE  /\ UnitNext
         /\ \/ UNCHANGED <<deployed, deployments, seen>>
            \/ \E d \in Deployable : Deploy(d)
BY DEF DeliveryNext, UnitNext, deliveryVars, publisherVars, consumerVars, Deploy, Reboot,
       PublisherStep, Begin, Unchanged, Reject, Pend, Mark, Finish, Write, Restart, Fail,
       ConsumerStep, Start, Load, Stop

\* Every step of the units keeps the state typed; the one delicate case is that
\* a file is only ever written with the rendering of a valid document.
LEMMA UnitTypeStep ==
  ASSUME DeliveryTypeOK, UnitNext,
         deployed' \in Deployable, deployments' \in Nat, seen' \subseteq Deployable
  PROVE  DeliveryTypeOK'
<1> USE DEF DeliveryTypeOK, Steps
<1>1. ASSUME NEW p \in Publishers, Unchanged(p) PROVE DeliveryTypeOK'
  BY <1>1 DEF Unchanged, consumerVars
<1>2. ASSUME NEW p \in Publishers, Begin(p) PROVE DeliveryTypeOK'
  BY <1>2 DEF Begin, consumerVars
<1>3. ASSUME NEW p \in Publishers, Reject(p) PROVE DeliveryTypeOK'
  BY <1>3 DEF Reject, publisherVars
<1>4. ASSUME NEW p \in Publishers, Pend(p) PROVE DeliveryTypeOK'
  BY <1>4 DEF Pend, consumerVars
<1>5. ASSUME NEW p \in Publishers, Mark(p) PROVE DeliveryTypeOK'
  <2>1. Complete(target[p]) \in BOOLEAN  BY DEF Complete
  <2> QED  BY <1>5, <2>1 DEF Mark, consumerVars
<1>6. ASSUME NEW p \in Publishers, Finish(p) PROVE DeliveryTypeOK'
  BY <1>6, EmptyDeployable DEF Finish, EndRun, consumerVars
<1>7. ASSUME NEW p \in Publishers, NEW o \in Outputs, Write(p, o) PROVE DeliveryTypeOK'
  <2>1. Rendered(target[p])[o] \in Content(Shows[o])  BY RenderedType
  <2>2. /\ DOMAIN output' = Outputs
        /\ \A q \in Outputs : output'[q] \in Content(Shows[q]) \cup {Absent}
    BY <1>7, <2>1 DEF Write
  <2> QED  BY <1>7, <2>2 DEF Write, consumerVars
<1>8. ASSUME NEW p \in Publishers, NEW c \in Consumers, Restart(p, c) PROVE DeliveryTypeOK'
  <2>1. queued' \in [Consumers -> BOOLEAN]  BY <1>8 DEF Restart, Complete
  <2> QED  BY <1>8, <2>1 DEF Restart
<1>9. ASSUME NEW p \in Publishers, Fail(p) PROVE DeliveryTypeOK'
  BY <1>9, EmptyDeployable DEF Fail, EndRun
<1>10. ASSUME NEW c \in Consumers, Start(c) PROVE DeliveryTypeOK'
  <2>1. /\ DOMAIN loaded' = Consumers
        /\ \A b \in Consumers :
             /\ DOMAIN loaded'[b] = Outputs
             /\ \A o \in Outputs : loaded'[b][o] \in Content(Shows[o]) \cup {Absent}
    BY <1>10 DEF Start, Unloaded
  <2>2. running' \in [Consumers -> BOOLEAN]  BY <1>10 DEF Start
  <2> QED  BY <1>10, <2>1, <2>2 DEF Start, publisherVars
<1>11. ASSUME NEW c \in Consumers, NEW o \in Outputs, Load(c, o) PROVE DeliveryTypeOK'
  <2>1. /\ DOMAIN loaded' = Consumers
        /\ \A b \in Consumers :
             /\ DOMAIN loaded'[b] = Outputs
             /\ \A q \in Outputs : loaded'[b][q] \in Content(Shows[q]) \cup {Absent}
    BY <1>11 DEF Load
  <2> QED  BY <1>11, <2>1 DEF Load, publisherVars
<1>12. ASSUME NEW c \in Consumers, Stop(c) PROVE DeliveryTypeOK'
  <2>1. /\ DOMAIN loaded' = Consumers
        /\ \A b \in Consumers :
             /\ DOMAIN loaded'[b] = Outputs
             /\ \A o \in Outputs : loaded'[b][o] \in Content(Shows[o]) \cup {Absent}
    BY <1>12 DEF Stop, Unloaded
  <2> QED  BY <1>12, <2>1 DEF Stop, publisherVars
<1>13. ASSUME PowerCycle PROVE DeliveryTypeOK'
  <2>1. DOMAIN output' = Outputs /\ \A o \in Outputs : output'[o] = Absent
    BY <1>13 DEF PowerCycle, Unloaded
  <2>2. /\ DOMAIN loaded' = Consumers
        /\ \A c \in Consumers :
             DOMAIN loaded'[c] = Outputs /\ \A o \in Outputs : loaded'[c][o] = Absent
    BY <1>13 DEF PowerCycle, Unloaded
  <2>3. /\ pc' \in [Publishers -> Steps] /\ left' \in [Publishers -> SUBSET Consumers]
        /\ target' \in [Publishers -> {d \in Deployable : Valid(d)}]
    BY <1>13, EmptyDeployable DEF PowerCycle
  <2>4. running' \in [Consumers -> BOOLEAN] /\ queued' \in [Consumers -> BOOLEAN]
    BY <1>13 DEF PowerCycle
  <2>5. pending' = FALSE /\ ready' = FALSE /\ active' = FALSE
    BY <1>13 DEF PowerCycle
  <2>6. holder' \in Publishers \cup {None} /\ faults' \in Nat
    BY <1>13 DEF PowerCycle
  <2> QED  BY <2>1, <2>2, <2>3, <2>4, <2>5, <2>6
<1>14. CASE UNCHANGED <<publisherVars, consumerVars, faults>>
  BY <1>14 DEF publisherVars, consumerVars
<1>15. CASE JobsFail
  BY <1>15 DEF JobsFail, publisherVars
<1> QED
  BY <1>1, <1>2, <1>3, <1>4, <1>5, <1>6, <1>7, <1>8, <1>9, <1>10, <1>11, <1>12, <1>13, <1>14,
     <1>15
  DEF UnitNext, PublisherStep, ConsumerStep

\* Every step keeps the state typed.
LEMMA DeliveryTypeStep == DeliveryTypeOK /\ [DeliveryNext]_deliveryVars => DeliveryTypeOK'
<1> SUFFICES ASSUME DeliveryTypeOK, [DeliveryNext]_deliveryVars PROVE DeliveryTypeOK'
  OBVIOUS
<1>1. deployed' \in Deployable /\ deployments' \in Nat /\ seen' \subseteq Deployable
  BY DeliveryNextIsUnitNext DEF DeliveryTypeOK, Deploy
<1> QED  BY <1>1, DeliveryNextIsUnitNext, UnitTypeStep

\* DeliveryTypeOK for every instance of the constants.
THEOREM DeliveryTyped == DeliverySpec => []DeliveryTypeOK
<1> QED  BY DeliveryTypeInit, DeliveryTypeStep, PTL DEF DeliverySpec

-----------------------------------------------------------------------------
(* The inductive invariant *)

\* The lock: at most one publisher is past its first step.
Exclusive == \A p \in Publishers : pc[p] # "idle" => holder = p

\* A publisher delivers a document that has been deployed.
Sourced == \A p \in Publishers : pc[p] # "idle" => target[p] \in seen

\* The marker stands from before the first write to after the last restart.
Marked == \A p \in Publishers : pc[p] \in {"write", "restart"} => pending

\* Restarts begin when all files and the ready file are those of the target.
Written ==
  \A p \in Publishers :
    pc[p] = "restart" => output = Rendered(target[p]) /\ ready = Complete(target[p])

\* Consumer c has a restart coming, or nothing but current files.
Current(c) == queued[c] \/ \A o \in Outputs : loaded[c][o] \in {Absent, output[o]}

\* A consumer that a publisher has dealt with needs nothing more from it.
Told ==
  \A p \in Publishers : pc[p] = "restart" => \A c \in Consumers \ left[p] : Current(c)

\* A publisher that has succeeded left every file in place, consumers run only
\* after it has, and one that does not run holds nothing.
Started ==
  /\ active => \A o \in Outputs : output[o] # Absent
  /\ \A c \in Consumers : running[c] => active
  /\ \A c \in Consumers : ~running[c] => \A o \in Outputs : loaded[c][o] = Absent

\* A consumer that runs finds every file it reads.
LEMMA StartedMeansFiles == Started => FilesBeforeConsumers
BY ReadsAssumption DEF Started, FilesBeforeConsumers

\* What the units keep by themselves.
UnitIInv ==
  /\ Exclusive /\ Sourced /\ Marked /\ Written /\ Told /\ Started
  /\ FilesAgree /\ ConsumersCurrent

DeliveryIInv == DeliveryTypeOK /\ deployed \in seen /\ UnitIInv

\* A booted host keeps its promises.
LEMMA BootedSound == Booted => UnitIInv
<1> SUFFICES ASSUME Booted PROVE UnitIInv  OBVIOUS
<1>1. Exclusive /\ Sourced /\ Marked /\ Written /\ Told
  BY DEF Booted, Exclusive, Sourced, Marked, Written, Told
<1>2. \A c \in Consumers, o \in Outputs : loaded[c][o] = Absent
  BY DEF Booted, Unloaded
<1>3. Started  BY <1>2 DEF Booted, Started
<1>4. FilesAgree /\ ConsumersCurrent  BY <1>2 DEF Booted, FilesAgree, ConsumersCurrent
<1> QED  BY <1>1, <1>3, <1>4 DEF UnitIInv

\* The initial state satisfies the invariant.
LEMMA DeliveryIInvInit == DeliveryInit => DeliveryIInv
<1> SUFFICES ASSUME DeliveryInit PROVE DeliveryIInv  OBVIOUS
<1>1. DeliveryTypeOK /\ deployed \in seen  BY DeliveryTypeInit DEF DeliveryInit
<1>2. Booted  BY DEF DeliveryInit, Booted
<1> QED  BY <1>1, <1>2, BootedSound DEF DeliveryIInv

\* Every step of the units keeps what they promise, as long as the history only
\* grows and a publisher begins with a document that is in it.
LEMMA UnitIInvStep ==
  ASSUME DeliveryTypeOK, UnitIInv, UnitNext, seen \subseteq seen',
         \A p \in Publishers : Begin(p) => deployed \in seen
  PROVE  UnitIInv'
<1> USE DEF UnitIInv
\* A run without changes succeeds on files that are all rendered.
<1>1. ASSUME NEW p \in Publishers, Unchanged(p) PROVE UnitIInv'
  <2>1. Started'
    BY <1>1, RenderedType DEF Unchanged, consumerVars, Started, DeliveryTypeOK
  <2>2. Exclusive' /\ Sourced' /\ Marked' /\ Written' /\ Told' /\ FilesAgree' /\ ConsumersCurrent'
    BY <1>1 DEF Unchanged, consumerVars, Exclusive, Sourced, Marked, Written, Told, FilesAgree, ConsumersCurrent, Current
  <2> QED  BY <2>1, <2>2
\* The lock is free, so no other publisher is under way.
<1>2. ASSUME NEW p \in Publishers, Begin(p) PROVE UnitIInv'
  <2>1. Exclusive'
    BY <1>2, PublisherAssumption DEF Begin, consumerVars, Exclusive, DeliveryTypeOK
  <2>2. Sourced'
    BY <1>2 DEF Begin, consumerVars, Sourced, DeliveryTypeOK
  <2>3. Marked' /\ Written' /\ Told'
    BY <1>2 DEF Begin, consumerVars, Marked, Written, Told, Current, DeliveryTypeOK
  <2>4. Started' /\ FilesAgree' /\ ConsumersCurrent'
    BY <1>2 DEF Begin, consumerVars, Started, FilesAgree, ConsumersCurrent
  <2> QED  BY <2>1, <2>2, <2>3, <2>4
\* Jobs fail only before the first success, when no consumer has loaded anything.
<1>3. ASSUME NEW p \in Publishers, Reject(p) PROVE UnitIInv'
  <2>1. Told'
    BY <1>3 DEF Reject, publisherVars, Told, Current, Started, DeliveryTypeOK
  <2>2. ConsumersCurrent'
    BY <1>3 DEF Reject, publisherVars, ConsumersCurrent, Started, DeliveryTypeOK
  <2>3. Exclusive' /\ Sourced' /\ Marked' /\ Written' /\ Started' /\ FilesAgree'
    BY <1>3 DEF Reject, publisherVars, Exclusive, Sourced, Marked, Written, Started, FilesAgree
  <2> QED  BY <2>1, <2>2, <2>3
\* From now on the marker excuses what the files and consumers hold.
<1>4. ASSUME NEW p \in Publishers, Pend(p) PROVE UnitIInv'
  <2>1. Exclusive' /\ Sourced' /\ Marked'
    BY <1>4 DEF Pend, consumerVars, Exclusive, Sourced, Marked, DeliveryTypeOK
  <2>2. Written' /\ Told'
    BY <1>4 DEF Pend, consumerVars, Written, Told, Current, DeliveryTypeOK
  <2>3. FilesAgree' /\ ConsumersCurrent'
    BY <1>4 DEF Pend, consumerVars, FilesAgree, ConsumersCurrent
  <2>4. Started'
    BY <1>4 DEF Pend, consumerVars, Started
  <2> QED  BY <2>1, <2>2, <2>3, <2>4
\* The only publisher past its first step has written every file.
<1>5. ASSUME NEW p \in Publishers, Mark(p) PROVE UnitIInv'
  <2>1. Exclusive' /\ Sourced' /\ Marked'
    BY <1>5 DEF Mark, consumerVars, Exclusive, Sourced, Marked, DeliveryTypeOK
  <2>2. Written'
    BY <1>5 DEF Mark, consumerVars, Exclusive, Written, DeliveryTypeOK
  <2>3. Told'
    BY <1>5 DEF Mark, consumerVars, Told, Current, DeliveryTypeOK
  <2>4. FilesAgree'
    BY <1>5 DEF Mark, consumerVars, FilesAgree, Marked, DeliveryTypeOK
  <2>5. Started' /\ ConsumersCurrent'
    BY <1>5 DEF Mark, consumerVars, Started, ConsumersCurrent
  <2> QED  BY <2>1, <2>2, <2>3, <2>4, <2>5
\* Every file is rendered and no consumer is left.
<1>6. ASSUME NEW p \in Publishers, Finish(p) PROVE UnitIInv'
  <2>1. Exclusive' /\ Sourced' /\ Marked'
    BY <1>6 DEF Finish, EndRun, consumerVars, Exclusive, Sourced, Marked, DeliveryTypeOK
  <2>2. Written' /\ Told'
    BY <1>6 DEF Finish, EndRun, consumerVars, Exclusive, Written, Told, Current, DeliveryTypeOK
  <2>3. Started'
    BY <1>6, RenderedType DEF Finish, EndRun, consumerVars, Written, Started, DeliveryTypeOK
  <2>4. FilesAgree'
    BY <1>6 DEF Finish, EndRun, consumerVars, FilesAgree, Written, Sourced
  <2>5. ConsumersCurrent'
    BY <1>6 DEF Finish, EndRun, consumerVars, ConsumersCurrent, Told, Current
  <2> QED  BY <2>1, <2>2, <2>3, <2>4, <2>5
\* The writer holds the lock, so no publisher is restarting consumers.
<1>7. ASSUME NEW p \in Publishers, NEW o \in Outputs, Write(p, o) PROVE UnitIInv'
  <2>1. Written' /\ Told'
    BY <1>7 DEF Write, consumerVars, Exclusive, Written, Told, Current
  <2>2. Started'
    BY <1>7, RenderedType DEF Write, consumerVars, Started, DeliveryTypeOK
  <2>3. FilesAgree' /\ ConsumersCurrent'
    BY <1>7 DEF Write, consumerVars, FilesAgree, ConsumersCurrent, Marked
  <2>4. Exclusive' /\ Sourced' /\ Marked'
    BY <1>7 DEF Write, consumerVars, Exclusive, Sourced, Marked
  <2> QED  BY <2>1, <2>2, <2>3, <2>4
\* A consumer that is neither queued nor running holds nothing.
<1>8. ASSUME NEW p \in Publishers, NEW c \in Consumers, Restart(p, c) PROVE UnitIInv'
  <2>1. Told'
    BY <1>8 DEF Restart, Exclusive, Told, Current, Started, DeliveryTypeOK
  <2>2. ConsumersCurrent'
    BY <1>8 DEF Restart, ConsumersCurrent, Marked
  <2>3. Exclusive' /\ Sourced' /\ Marked' /\ Written' /\ Started' /\ FilesAgree'
    BY <1>8 DEF Restart, Exclusive, Sourced, Marked, Written, Started, FilesAgree
  <2> QED  BY <2>1, <2>2, <2>3
\* The marker outlives the run.
<1>9. ASSUME NEW p \in Publishers, Fail(p) PROVE UnitIInv'
  <2>1. Exclusive' /\ Sourced' /\ Marked'
    BY <1>9 DEF Fail, EndRun, Exclusive, Sourced, Marked, DeliveryTypeOK
  <2>2. Written' /\ Told'
    BY <1>9 DEF Fail, EndRun, Exclusive, Written, Told, DeliveryTypeOK
  <2>3. ConsumersCurrent'
    BY <1>9 DEF Fail, EndRun, ConsumersCurrent, Started, DeliveryTypeOK
  <2>4. Started' /\ FilesAgree'
    BY <1>9 DEF Fail, EndRun, Started, FilesAgree
  <2> QED  BY <2>1, <2>2, <2>3, <2>4
\* A consumer that starts holds nothing yet.
<1>10. ASSUME NEW c \in Consumers, Start(c) PROVE UnitIInv'
  <2>1. Told'
    BY <1>10 DEF Start, Unloaded, publisherVars, Told, Current, DeliveryTypeOK
  <2>2. Started'
    BY <1>10 DEF Start, Unloaded, publisherVars, Started, DeliveryTypeOK
  <2>3. ConsumersCurrent'
    BY <1>10 DEF Start, Unloaded, publisherVars, ConsumersCurrent, DeliveryTypeOK
  <2>4. Exclusive' /\ Sourced' /\ Marked' /\ Written' /\ FilesAgree'
    BY <1>10 DEF Start, Unloaded, publisherVars, Exclusive, Sourced, Marked, Written, FilesAgree
  <2> QED  BY <2>1, <2>2, <2>3, <2>4
\* What is loaded is the current file.
<1>11. ASSUME NEW c \in Consumers, NEW o \in Outputs, Load(c, o) PROVE UnitIInv'
  <2>1. Told'
    BY <1>11 DEF Load, publisherVars, Told, Current, DeliveryTypeOK
  <2>2. Started'
    BY <1>11 DEF Load, publisherVars, Started, DeliveryTypeOK
  <2>3. ConsumersCurrent'
    BY <1>11 DEF Load, publisherVars, ConsumersCurrent, DeliveryTypeOK
  <2>4. Exclusive' /\ Sourced' /\ Marked' /\ Written' /\ FilesAgree'
    BY <1>11 DEF Load, publisherVars, Exclusive, Sourced, Marked, Written, FilesAgree
  <2> QED  BY <2>1, <2>2, <2>3, <2>4
\* Its next start is queued.
<1>12. ASSUME NEW c \in Consumers, Stop(c) PROVE UnitIInv'
  <2>1. Told'
    BY <1>12 DEF Stop, Unloaded, publisherVars, Told, Current, DeliveryTypeOK
  <2>2. Started'
    BY <1>12 DEF Stop, Unloaded, publisherVars, Started, DeliveryTypeOK
  <2>3. ConsumersCurrent'
    BY <1>12 DEF Stop, Unloaded, publisherVars, ConsumersCurrent, DeliveryTypeOK
  <2>4. Exclusive' /\ Sourced' /\ Marked' /\ Written' /\ FilesAgree'
    BY <1>12 DEF Stop, Unloaded, publisherVars, Exclusive, Sourced, Marked, Written, FilesAgree
  <2> QED  BY <2>1, <2>2, <2>3, <2>4
\* Nothing below /run and no process is left.
<1>13. ASSUME PowerCycle PROVE UnitIInv'
  <2>1. Exclusive' /\ Sourced' /\ Marked' /\ Written' /\ Told'
    BY <1>13 DEF PowerCycle, Exclusive, Sourced, Marked, Written, Told
  <2>2. \A c \in Consumers, o \in Outputs : loaded'[c][o] = Absent
    BY <1>13 DEF PowerCycle, Unloaded
  <2>3. Started'  BY <1>13, <2>2 DEF PowerCycle, Started
  <2>4. FilesAgree'  BY <1>13 DEF PowerCycle, FilesAgree, Unloaded
  <2>5. ConsumersCurrent'  BY <1>13, <2>2 DEF PowerCycle, ConsumersCurrent
  <2> QED  BY <2>1, <2>3, <2>4, <2>5
\* The history only grows.
<1>14. CASE UNCHANGED <<publisherVars, consumerVars, faults>>
  <2>1. Sourced' /\ FilesAgree'
    BY <1>14 DEF publisherVars, consumerVars, Sourced, FilesAgree
  <2>2. Exclusive' /\ Marked' /\ Written' /\ Told' /\ Started' /\ ConsumersCurrent'
    BY <1>14 DEF publisherVars, consumerVars, Exclusive, Marked, Written, Told, Started,
       ConsumersCurrent, Current
  <2> QED  BY <2>1, <2>2
\* Again, no consumer has loaded anything by then.
<1>15. CASE JobsFail
  <2>1. Told'
    BY <1>15 DEF JobsFail, publisherVars, Told, Current, Started, DeliveryTypeOK
  <2>2. ConsumersCurrent'
    BY <1>15 DEF JobsFail, publisherVars, ConsumersCurrent, Started, DeliveryTypeOK
  <2>3. Exclusive' /\ Sourced' /\ Marked' /\ Written' /\ Started' /\ FilesAgree'
    BY <1>15 DEF JobsFail, publisherVars, Exclusive, Sourced, Marked, Written, Started, FilesAgree
  <2> QED  BY <2>1, <2>2, <2>3
<1> QED
  BY <1>1, <1>2, <1>3, <1>4, <1>5, <1>6, <1>7, <1>8, <1>9, <1>10, <1>11, <1>12, <1>13, <1>14,
     <1>15
  DEF UnitNext, PublisherStep, ConsumerStep

\* Every step keeps the invariant.
LEMMA DeliveryIInvStep == DeliveryIInv /\ [DeliveryNext]_deliveryVars => DeliveryIInv'
<1> SUFFICES ASSUME DeliveryIInv, [DeliveryNext]_deliveryVars PROVE DeliveryIInv'
  OBVIOUS
<1>1. DeliveryTypeOK'  BY DeliveryTypeStep DEF DeliveryIInv
<1>2. seen \subseteq seen' /\ deployed' \in seen'
  BY DeliveryNextIsUnitNext DEF DeliveryIInv, Deploy
<1>3. UnitIInv'  BY <1>2, DeliveryNextIsUnitNext, UnitIInvStep DEF DeliveryIInv
<1> QED  BY <1>1, <1>2, <1>3 DEF DeliveryIInv

-----------------------------------------------------------------------------
(* Theorems *)

\* The invariant holds in every reachable state.
THEOREM DeliveryInvariant == DeliverySpec => []DeliveryIInv
<1> QED  BY DeliveryIInvInit, DeliveryIInvStep, PTL DEF DeliverySpec

\* When no delivery is pending the files are one whole rendering of one deployed
\* document, for any number of publishers, files, kills and deployments.
THEOREM FilesNeverMixed == DeliverySpec => []FilesAgree
<1>1. DeliveryIInv => FilesAgree  BY DEF DeliveryIInv, UnitIInv
<1> QED  BY <1>1, DeliveryInvariant, PTL

\* When no delivery is pending no consumer is left with an old credential.
THEOREM NoConsumerForgotten == DeliverySpec => []ConsumersCurrent
<1>1. DeliveryIInv => ConsumersCurrent  BY DEF DeliveryIInv, UnitIInv
<1> QED  BY <1>1, DeliveryInvariant, PTL

\* A consumer runs only when all the files it reads exist.
THEOREM FilesComeFirst == DeliverySpec => []FilesBeforeConsumers
<1>1. DeliveryIInv => FilesBeforeConsumers
  BY StartedMeansFiles DEF DeliveryIInv, UnitIInv
<1> QED  BY <1>1, DeliveryInvariant, PTL
=============================================================================
