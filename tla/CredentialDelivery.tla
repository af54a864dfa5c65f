------------------------- MODULE CredentialDelivery -------------------------
(***************************************************************************)
(* One service's credential publisher (credentials.py) with the systemd    *)
(* units around it (credentials.nix).                                      *)
(*                                                                         *)
(* A publisher renders the deployed document into the files below          *)
(* /run/nixstead-credentials/<service> and restarts the units that consume *)
(* them.  The files change one at a time, the restarts are queued one at a *)
(* time, consumers start and read their files whenever systemd lets them,  *)
(* and the publisher may be killed between any two of these steps.  The    *)
(* marker "delivery-pending" is what makes the next run finish the work.   *)
(***************************************************************************)
EXTENDS Naturals, FiniteSets

CONSTANTS
  Publishers,   \* nixstead-credential-<id> and its -refresh unit
  Keys,         \* the credential fields of the service
  Revision,     \* the credentialRevision part of the document
  Outputs,      \* the files written
  Shows,        \* Shows[o]: the parts of the document file o is made from
  Consumers,    \* the units restarted on a change
  Reads,        \* Reads[c]: the files consumer c loads when it starts
  Conditional,  \* consumers with ConditionPathExists = .../ready
  Values, None, Malformed,
  Absent,       \* no such file; or, of a consumer, not loaded
  MaxFaults,      \* bound on kills, reboots and consumer stops
  MaxDeployments  \* bound on the changes of the deployed document

Parts == Keys \cup {Revision}

ASSUME PartAssumption == Keys # {} /\ Revision \notin Keys
ASSUME ShowsAssumption == Shows \in [Outputs -> SUBSET Parts]
ASSUME ReadsAssumption == Reads \in [Consumers -> SUBSET Outputs]
ASSUME ConditionalAssumption == Conditional \subseteq Consumers
ASSUME ValueAssumption == None \notin Values /\ Malformed \notin Values /\ None # Malformed
ASSUME PublisherAssumption == None \notin Publishers
ASSUME BoundAssumption == MaxFaults \in Nat /\ MaxDeployments \in Nat

Entry == Values \cup {None, Malformed}
Deployable == {d \in [Parts -> Entry] : d[Revision] # Malformed}

\* What a file made from the parts S may hold.
Content(S) == [S -> Values \cup {None}]
ASSUME AbsentAssumption == \A S \in SUBSET Parts : Absent \notin Content(S)

\* deployed_values() raises on a malformed key.
Valid(d) == \A k \in Keys : d[k] # Malformed

\* ready = all(values[field] for field in config["keys"])
Complete(d) == \A k \in Keys : d[k] # None

\* The content of every output, as publish_locked() renders it.
Rendered(d) == [o \in Outputs |-> [p \in Shows[o] |-> d[p]]]

Unloaded == [o \in Outputs |-> Absent]

VARIABLES
  deployed,  \* the document the publishers read
  output,    \* the files
  pending,   \* delivery-pending exists
  ready,     \* ready exists
  active,    \* the publisher unit has succeeded since boot
  holder,    \* holder of the service's lock file
  pc,        \* each publisher's step
  target,    \* the values each publisher is delivering
  left,      \* the consumers each publisher has yet to restart
  running,   \* consumers that have been started
  loaded,    \* what each consumer has read of each file
  queued,    \* start or restart jobs
  faults,       \* how much of MaxFaults has been used
  deployments,  \* how much of MaxDeployments has been used
  seen       \* history: every document ever deployed

publisherVars == <<output, pending, ready, active, holder, pc, target, left>>
consumerVars == <<running, loaded, queued>>
deliveryVars == <<deployed, publisherVars, consumerVars, faults, deployments, seen>>

Steps == {"idle", "pend", "write", "restart"}

DeliveryTypeOK ==
  /\ deployed \in Deployable
  /\ DOMAIN output = Outputs
  /\ \A o \in Outputs : output[o] \in Content(Shows[o]) \cup {Absent}
  /\ pending \in BOOLEAN /\ ready \in BOOLEAN /\ active \in BOOLEAN
  /\ holder \in Publishers \cup {None}
  /\ pc \in [Publishers -> Steps]
  /\ target \in [Publishers -> {d \in Deployable : Valid(d)}]
  /\ left \in [Publishers -> SUBSET Consumers]
  /\ running \in [Consumers -> BOOLEAN]
  /\ DOMAIN loaded = Consumers
  /\ \A c \in Consumers :
       /\ DOMAIN loaded[c] = Outputs
       /\ \A o \in Outputs : loaded[c][o] \in Content(Shows[o]) \cup {Absent}
  /\ queued \in [Consumers -> BOOLEAN]
  /\ faults \in Nat /\ deployments \in Nat
  /\ seen \subseteq Deployable

Empty == [p \in Parts |-> None]

\* A booted host: /run is empty and the consumers' start jobs wait for the
\* publisher they require.
DeliveryInit ==
  /\ deployed = Empty
  /\ output = Unloaded
  /\ pending = FALSE /\ ready = FALSE /\ active = FALSE
  /\ holder = None
  /\ pc = [p \in Publishers |-> "idle"]
  /\ target = [p \in Publishers |-> Empty]
  /\ left = [p \in Publishers |-> {}]
  /\ running = [c \in Consumers |-> FALSE]
  /\ loaded = [c \in Consumers |-> Unloaded]
  /\ queued = [c \in Consumers |-> TRUE]
  /\ faults = 0 /\ deployments = 0
  /\ seen = {deployed}

-----------------------------------------------------------------------------
(* The publisher *)

\* The run ends, in success or not: the lock is released with the process.
EndRun(p) ==
  /\ holder' = None
  /\ pc' = [pc EXCEPT ![p] = "idle"]
  /\ target' = [target EXCEPT ![p] = Empty]
  /\ left' = [left EXCEPT ![p] = {}]

\* The lock, deployed_values(), and the decision that nothing is to be done.
Unchanged(p) ==
  /\ pc[p] = "idle" /\ holder = None /\ Valid(deployed)
  /\ output = Rendered(deployed) /\ ~pending
  /\ active' = TRUE
  /\ UNCHANGED <<deployed, output, pending, ready, holder, pc, target, left,
                 consumerVars, faults, deployments, seen>>

\* Faulty: a malformed document is rendered.
Begin_Unchecked(p) ==
  /\ pc[p] = "idle" /\ holder = None
  /\ output # Rendered(deployed) \/ pending
  /\ holder' = p
  /\ pc' = [pc EXCEPT ![p] = "pend"]
  /\ target' = [target EXCEPT ![p] = deployed]
  /\ UNCHANGED <<deployed, output, pending, ready, active, left, consumerVars, faults, deployments, seen>>

\* The same, with a changed output or an unfinished delivery.
Begin(p) ==
  /\ pc[p] = "idle" /\ holder = None /\ Valid(deployed)
  /\ output # Rendered(deployed) \/ pending
  /\ holder' = p
  /\ pc' = [pc EXCEPT ![p] = "pend"]
  /\ target' = [target EXCEPT ![p] = deployed]
  /\ UNCHANGED <<deployed, output, pending, ready, active, left, consumerVars, faults, deployments, seen>>

\* Faulty: no marker.
Pend_NoMarker(p) ==
  /\ pc[p] = "pend"
  /\ pc' = [pc EXCEPT ![p] = "write"]
  /\ UNCHANGED <<deployed, output, pending, ready, active, holder, target, left,
                 consumerVars, faults, deployments, seen>>

\* The marker, before the first change.
Pend(p) ==
  /\ pc[p] = "pend"
  /\ pending' = TRUE
  /\ pc' = [pc EXCEPT ![p] = "write"]
  /\ UNCHANGED <<deployed, output, ready, active, holder, target, left,
                 consumerVars, faults, deployments, seen>>

\* atomic_write() of one file that differs.
Write(p, o) ==
  /\ pc[p] = "write" /\ output[o] # Rendered(target[p])[o]
  /\ output' = [output EXCEPT ![o] = Rendered(target[p])[o]]
  /\ UNCHANGED <<deployed, pending, ready, active, holder, pc, target, left,
                 consumerVars, faults, deployments, seen>>

\* Faulty: the marker goes as soon as the files are written.
Mark_ClearsMarker(p) ==
  /\ pc[p] = "write" /\ output = Rendered(target[p])
  /\ ready' = Complete(target[p])
  /\ pending' = FALSE
  /\ pc' = [pc EXCEPT ![p] = "restart"]
  /\ left' = [left EXCEPT ![p] = Consumers]
  /\ UNCHANGED <<deployed, output, active, holder, target,
                 consumerVars, faults, deployments, seen>>

\* All files written: the ready file appears or goes.
Mark(p) ==
  /\ pc[p] = "write" /\ output = Rendered(target[p])
  /\ ready' = Complete(target[p])
  /\ pc' = [pc EXCEPT ![p] = "restart"]
  /\ left' = [left EXCEPT ![p] = Consumers]
  /\ UNCHANGED <<deployed, output, pending, active, holder, target,
                 consumerVars, faults, deployments, seen>>

\* Faulty: try-restart whether or not the credential is complete.
Restart_OnlyRunning(p, c) ==
  /\ pc[p] = "restart" /\ c \in left[p]
  /\ left' = [left EXCEPT ![p] = @ \ {c}]
  /\ queued' = [queued EXCEPT ![c] = @ \/ running[c]]
  /\ UNCHANGED <<deployed, output, pending, ready, active, holder, pc, target,
                 running, loaded, faults, deployments, seen>>

\* systemctl --no-block restart, or try-restart while a key is missing: the
\* latter does nothing to a unit that is not running.
Restart(p, c) ==
  /\ pc[p] = "restart" /\ c \in left[p]
  /\ left' = [left EXCEPT ![p] = @ \ {c}]
  /\ queued' = [queued EXCEPT ![c] = @ \/ Complete(target[p]) \/ running[c]]
  /\ UNCHANGED <<deployed, output, pending, ready, active, holder, pc, target,
                 running, loaded, faults, deployments, seen>>

Finish(p) ==
  /\ pc[p] = "restart" /\ left[p] = {}
  /\ pending' = FALSE
  /\ active' = TRUE
  /\ EndRun(p)
  /\ UNCHANGED <<deployed, output, ready, consumerVars, faults, deployments, seen>>

\* A kill, the start timeout, or a systemctl that fails; before the first
\* success the jobs that require the publisher fail with it.
Fail(p) ==
  /\ pc[p] # "idle" /\ faults < MaxFaults
  /\ faults' = faults + 1
  /\ EndRun(p)
  /\ queued' = [c \in Consumers |-> active /\ queued[c]]
  /\ UNCHANGED <<deployed, output, pending, ready, active, running, loaded, deployments, seen>>

\* A malformed document fails the run before it changes anything.
Reject(p) ==
  /\ pc[p] = "idle" /\ holder = None /\ ~Valid(deployed)
  /\ queued' = [c \in Consumers |-> active /\ queued[c]]
  /\ UNCHANGED <<deployed, publisherVars, running, loaded, faults, deployments, seen>>

-----------------------------------------------------------------------------
(* The consumers, started by systemd after the publisher they require *)

\* Faulty: the unit does not wait for its publisher.
Start_Early(c) ==
  /\ queued[c]
  /\ queued' = [queued EXCEPT ![c] = FALSE]
  /\ running' = [running EXCEPT ![c] = c \in Conditional => ready]
  /\ loaded' = [loaded EXCEPT ![c] = Unloaded]
  /\ UNCHANGED <<deployed, publisherVars, faults, deployments, seen>>

\* A start or restart job runs: the unit stops and, unless its condition fails,
\* starts to load its files.
Start(c) ==
  /\ queued[c] /\ active
  /\ queued' = [queued EXCEPT ![c] = FALSE]
  /\ running' = [running EXCEPT ![c] = c \in Conditional => ready]
  /\ loaded' = [loaded EXCEPT ![c] = Unloaded]
  /\ UNCHANGED <<deployed, publisherVars, faults, deployments, seen>>

\* EnvironmentFile=, LoadCredential= and docker --env-file read one file at a time.
Load(c, o) ==
  /\ running[c] /\ o \in Reads[c] /\ loaded[c][o] = Absent
  /\ loaded' = [loaded EXCEPT ![c][o] = output[o]]
  /\ UNCHANGED <<deployed, publisherVars, running, queued, faults, deployments, seen>>

\* The consumer stops, with a restart (Restart=, an operator, another service's
\* publisher) or without one.
Stop(c) ==
  /\ running[c] /\ faults < MaxFaults
  /\ faults' = faults + 1
  /\ running' = [running EXCEPT ![c] = FALSE]
  /\ loaded' = [loaded EXCEPT ![c] = Unloaded]
  /\ queued' = [queued EXCEPT ![c] = TRUE]
  /\ UNCHANGED <<deployed, publisherVars, deployments, seen>>

-----------------------------------------------------------------------------
(* The environment *)

\* A saved change reaches the deployed document (synchronize() or sops-nix).
Deploy(d) ==
  /\ deployments < MaxDeployments
  /\ deployments' = deployments + 1
  /\ deployed' = d
  /\ seen' = seen \cup {d}
  /\ UNCHANGED <<publisherVars, consumerVars, faults>>

\* /run is gone, whatever was running has stopped, and systemd starts again.
PowerCycle ==
  /\ faults < MaxFaults
  /\ faults' = faults + 1
  /\ output' = Unloaded
  /\ pending' = FALSE /\ ready' = FALSE /\ active' = FALSE
  /\ holder' = None
  /\ pc' = [p \in Publishers |-> "idle"]
  /\ target' = [p \in Publishers |-> Empty]
  /\ left' = [p \in Publishers |-> {}]
  /\ running' = [c \in Consumers |-> FALSE]
  /\ loaded' = [c \in Consumers |-> Unloaded]
  /\ queued' = [c \in Consumers |-> TRUE]

Reboot == PowerCycle /\ UNCHANGED <<deployed, deployments, seen>>

-----------------------------------------------------------------------------
PublisherStep(p) ==
  \/ Begin(p) \/ Unchanged(p) \/ Reject(p) \/ Pend(p) \/ Mark(p) \/ Finish(p)
  \/ \E o \in Outputs : Write(p, o)
  \/ \E c \in Consumers : Restart(p, c)

ConsumerStep(c) == Start(c) \/ \E o \in Outputs : Load(c, o)

DeliveryNext ==
  \/ \E p \in Publishers : PublisherStep(p) \/ Fail(p)
  \/ \E c \in Consumers : ConsumerStep(c) \/ Stop(c)
  \/ \E d \in Deployable : Deploy(d)
  \/ Reboot

\* A timer starts the refresh unit every minute; systemd runs the jobs it has.
DeliveryFairness ==
  /\ \A p \in Publishers : WF_deliveryVars(PublisherStep(p))
  /\ \A c \in Consumers : WF_deliveryVars(ConsumerStep(c))

DeliverySpec == DeliveryInit /\ [][DeliveryNext]_deliveryVars
FairDeliverySpec == DeliverySpec /\ DeliveryFairness

-----------------------------------------------------------------------------
(* Properties *)

\* When no delivery is pending the files are one complete rendering of one
\* deployed document, never a mixture of two, and the ready file tells whether
\* that document has every key: a publisher killed between two files, or
\* between the files and the ready file, leaves the pending marker behind.
FilesAgree ==
  ~pending => \/ output = Unloaded /\ ~ready
              \/ \E d \in seen : output = Rendered(d) /\ ready = Complete(d)

\* When no delivery is pending every consumer either has a restart queued or
\* has loaded nothing but the current files: no crash, race with a start that
\* was reading the files, or failed systemctl leaves one with an old credential.
ConsumersCurrent ==
  ~pending => \A c \in Consumers :
    queued[c] \/ \A o \in Outputs : loaded[c][o] \in {Absent, output[o]}

\* No consumer is started before its files exist.
FilesBeforeConsumers ==
  \A c \in Consumers : running[c] => \A o \in Reads[c] : output[o] # Absent

\* Consumer c runs with the credentials of document d.
Serves(c, d) ==
  running[c] /\ \A o \in Reads[c] : loaded[c][o] = Rendered(d)[o]

\* Once deployments and failures cease, every consumer of a complete document
\* runs with it, and the files are those of any valid document.
EventuallyServed ==
  <>[](Valid(deployed) =>
        /\ output = Rendered(deployed) /\ ~pending
        /\ Complete(deployed) => \A c \in Consumers : Serves(c, deployed))
=============================================================================
