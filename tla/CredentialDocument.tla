------------------------- MODULE CredentialDocument -------------------------
(***************************************************************************)
(* The encrypted host document of src/modules/services/arr, seen through   *)
(* what credential_store.py reads and writes in it, and the decision that  *)
(* one enrollment takes.  Encryption itself and the spelling of keys are   *)
(* abstracted: a stored entry is absent, malformed or a usable value.      *)
(*                                                                         *)
(* A field (an API key, a username, a password) belongs to a service.  It  *)
(* has a canonical entry in the service's own branch and a recognised      *)
(* older copy in the shared "homepage" branch, next to entries that no     *)
(* service owns ("user").                                                  *)
(***************************************************************************)
EXTENDS Naturals

CONSTANTS
  Services,    \* services with managed credentials
  Fields,      \* credential fields of all services
  Owner,       \* Owner[f]: the service field f belongs to
  Opaque,      \* services that cannot disclose their credential (qbittorrent)
  Identities,  \* fields a rotation keeps (the qBittorrent username)
  Values,      \* well-formed credential values
  None,        \* an absent, empty or "replace-me" entry
  Malformed,   \* an entry that validate() refuses
  StartDocuments  \* the documents the host may start with

ASSUME OwnerAssumption == Owner \in [Fields -> Services]
ASSUME SubsetAssumption == Opaque \subseteq Services /\ Identities \subseteq Fields
ASSUME EntryAssumption ==
  None \notin Values /\ Malformed \notin Values /\ None # Malformed

Entry == Values \cup {None, Malformed}

FieldsOf(s) == {f \in Fields : Owner[f] = s}

\* canon: the canonical entries; prev: their older copies; rev: the service's
\* credentialRevision (0 when absent); user: what no service owns.
Document == [canon : [Fields -> Entry], prev : [Fields -> Entry],
             rev : [Services -> Nat], user : Nat]

\* Revisions count from the start, so that a new one differs from all before.
ASSUME StartAssumption ==
  StartDocuments \subseteq Document /\ \A d \in StartDocuments, s \in Services : d.rev[s] = 0

-----------------------------------------------------------------------------
(* Commands *)

Sources == {"any", "canonical", "previous", "application"}

Command == [services : SUBSET Services, pick : [Fields -> Sources],
            restore : BOOLEAN, rotate : BOOLEAN, auto : BOOLEAN]

NoPick == [f \in Fields |-> "any"]

\* What the two enrollment units run: every service, no explicit choice.
AutoCommand == [services |-> Services, pick |-> NoPick,
                restore |-> FALSE, rotate |-> FALSE, auto |-> TRUE]

ForOneService(c) == \E s \in Services : c.services = {s}

\* The option checks of main(): rotate and --from name exactly one service,
\* --restore is for sync, and --from excludes both.
ManualCommands ==
  {c \in Command :
     /\ ~c.auto
     /\ c.services = Services \/ ForOneService(c)
     /\ c.rotate => ForOneService(c) /\ ~c.restore
     /\ c.pick # NoPick =>
          /\ ForOneService(c)
          /\ ~c.restore /\ ~c.rotate
          /\ \A f \in Fields : c.pick[f] # "any" => Owner[f] \in c.services}

\* A command that leaves every choice to what is stored.
Plain(c) == c.pick = NoPick /\ ~c.rotate

-----------------------------------------------------------------------------
(* select_values() and the value part of enroll() *)

Candidates(d, f) == {d.canon[f], d.prev[f]} \ {None}

\* With nothing stored the application's own key is asked for; the automatic
\* run generates one when the application has none.
Initial(c, f) == IF Owner[f] \in Opaque /\ ~c.auto THEN {} ELSE Values

\* Faulty: the canonical entry wins over a conflicting copy.
Choices_FirstWins(d, c, f) ==
  IF c.rotate \/ Candidates(d, f) = {} THEN Values
  ELSE IF d.canon[f] # None THEN {d.canon[f]} \cap Values ELSE {d.prev[f]} \cap Values

\* The values that command c may give field f; {} when it must fail.  A rotation
\* takes the identity as it stands: validate() lets a "replace-me" name pass.
Choices(d, c, f) ==
  IF c.rotate
    THEN IF f \in Identities
           THEN {v \in Values \cup {None} : v = d.canon[f] /\ d.prev[f] \in {None, v}}
           ELSE Values
  ELSE IF c.pick[f] = "application"
    THEN IF Owner[f] \in Opaque THEN {} ELSE Values
  ELSE IF c.pick[f] = "canonical" THEN {d.canon[f]} \cap Values
  ELSE IF c.pick[f] = "previous"  THEN {d.prev[f]} \cap Values
  ELSE IF Candidates(d, f) = {}   THEN Initial(c, f)
  ELSE {v \in Values : Candidates(d, f) = {v}}

\* The command consults the application, which may not answer or verify.
AsksApplication(d, c, f) ==
  /\ ~c.rotate /\ Owner[f] \notin Opaque
  /\ \/ c.pick[f] = "application"
     \/ c.pick[f] = "any" /\ Candidates(d, f) = {}

Accepts(d, c, s) ==
  /\ c.restore => \A f \in FieldsOf(s) : d.canon[f] # None
  /\ \A f \in FieldsOf(s) : Choices(d, c, f) # {}

MayFail(d, c, s) ==
  \/ ~Accepts(d, c, s)
  \/ \E f \in FieldsOf(s) :
       \/ AsksApplication(d, c, f)
       \/ c.rotate /\ f \in Identities /\ d.canon[f] = None

\* enroll() for the services in ok: the canonical entries take the chosen
\* values, the older copies go, restore and rotate record a new revision.
Enrolled(d, c, ok, value, revision) ==
  [d EXCEPT
     !.canon = [f \in Fields |-> IF Owner[f] \in ok THEN value[f] ELSE @[f]],
     !.prev  = [f \in Fields |-> IF Owner[f] \in ok THEN None ELSE @[f]],
     !.rev   = [s \in Services |->
                  IF s \in ok /\ (c.restore \/ c.rotate) THEN revision ELSE @[s]]]

\* Faulty: an automatic run, too, keeps the services that succeeded.
MayComplete_Partial(d, c, ok) ==
  /\ ok \subseteq c.services
  /\ \A s \in ok : Accepts(d, c, s)
  /\ \A s \in c.services \ ok : MayFail(d, c, s)

\* The services a run may complete: an automatic run completes all or none,
\* a manual one reports the services that failed and keeps the others.
MayComplete(d, c, ok) ==
  /\ ok \subseteq c.services
  /\ \A s \in ok : Accepts(d, c, s)
  /\ \A s \in c.services \ ok : ~c.auto /\ MayFail(d, c, s)

\* e is what command c may make of d.
Outcome(d, c, e) ==
  \E ok \in SUBSET c.services :
    /\ MayComplete(d, c, ok)
    /\ e.user = d.user
    /\ \A f \in Fields :
         IF Owner[f] \in ok
           THEN e.canon[f] \in Choices(d, c, f) /\ e.prev[f] = None
           ELSE e.canon[f] = d.canon[f] /\ e.prev[f] = d.prev[f]
    /\ \A s \in Services :
         IF s \in ok /\ (c.restore \/ c.rotate)
           THEN e.rev[s] # d.rev[s] ELSE e.rev[s] = d.rev[s]

-----------------------------------------------------------------------------
(* save_encrypted() *)

SameServiceBranch(d, e, s) ==
  d.rev[s] = e.rev[s] /\ \A f \in FieldsOf(s) : d.canon[f] = e.canon[f]

SameSharedBranch(d, e) == d.prev = e.prev /\ d.user = e.user

\* A copy of "before" in which each top-level branch that differs between
\* "original" and "updated" has been set to the updated branch.
Encrypted(before, original, updated) ==
  [canon |-> [f \in Fields |->
                IF SameServiceBranch(original, updated, Owner[f])
                  THEN before.canon[f] ELSE updated.canon[f]],
   rev   |-> [s \in Services |->
                IF SameServiceBranch(original, updated, s)
                  THEN before.rev[s] ELSE updated.rev[s]],
   prev  |-> IF SameSharedBranch(original, updated) THEN before.prev ELSE updated.prev,
   user  |-> IF SameSharedBranch(original, updated) THEN before.user ELSE updated.user]

\* The selected entries that synchronize() projects for the publishers.
Delivered == [canon : [Fields -> Entry], rev : [Services -> Nat]]
Projection(d) == [canon |-> d.canon, rev |-> d.rev]
=============================================================================
