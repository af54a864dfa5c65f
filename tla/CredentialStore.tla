--------------------------- MODULE CredentialStore ---------------------------
(***************************************************************************)
(* The writers of the encrypted host document.                             *)
(*                                                                         *)
(*   Units    the enrollment units (credential_enrollment.py), which take  *)
(*            the runtime lock, then the source lock, enroll every service *)
(*            and project the saved credentials for the publishers;        *)
(*   Admins   "nixstead credentials sync" and "rotate"                     *)
(*            (credential_store.py), under the source lock;                *)
(*   Editors  "sops edit" and generate-credential-files.sh, which rewrite  *)
(*            the same file and take no lock.                              *)
(*                                                                         *)
(* Every read of the file, and every step after which another process may  *)
(* run and be noticed, is an action of its own.  A process may be killed,  *)
(* or fail for an outside reason, at any of them.                          *)
(***************************************************************************)
EXTENDS CredentialDocument

CONSTANTS
  Units, Admins, Editors,
  MaxCommands,  \* bound on the manual commands
  MaxEdits,     \* bound on the unlocked edits
  MaxFaults     \* bound on kills and outside failures

Writers == Units \cup Admins

ASSUME ProcessAssumption ==
  /\ Units \cap Admins = {}
  /\ None \notin Writers /\ None \notin Document /\ None \notin Delivered
ASSUME BoundAssumption ==
  MaxCommands \in Nat /\ MaxEdits \in Nat /\ MaxFaults \in Nat

VARIABLES
  file,      \* the encrypted source: its document and the stamp of its bytes
  clock,     \* source of fresh stamps and revisions
  lock,      \* holder of <file>.nixstead.lock
  runLock,   \* holder of the runtime lock of the enrollment units
  txn,       \* each locked writer's progress and local copies
  copy,      \* what each editor has read and not yet written back
  document,  \* document.json, the projection the publishers read
  success,   \* "success" in status.json
  used,      \* how much of each bound has been used
  versions,  \* history: every projection of a document ever in the file
  projected, \* history: stamp of the file that document.json was taken from
  reported   \* history: stamp of the file that the last success vouched for

storeVars == <<file, clock, lock, runLock, txn, copy, document, success, used,
               versions, projected, reported>>

File == [doc : Document, stamp : Nat]

Steps == {"idle", "source", "decrypt", "enroll", "encrypt", "compare",
          "replace", "reread", "project", "notify"}

Txn == [pc : Steps, cmd : Command, before : File, original : Document,
        updated : Document, saved : File, raced : BOOLEAN]

Blank == [canon |-> [f \in Fields |-> None], prev |-> [f \in Fields |-> None],
          rev |-> [s \in Services |-> 0], user |-> 0]
BlankFile == [doc |-> Blank, stamp |-> 0]

NoTxn == [pc |-> "idle", cmd |-> AutoCommand, before |-> BlankFile,
          original |-> Blank, updated |-> Blank, saved |-> BlankFile, raced |-> FALSE]

StoreTypeOK ==
  /\ file \in File
  /\ clock \in Nat
  /\ lock \in Writers \cup {None}
  /\ runLock \in Units \cup {None}
  /\ txn \in [Writers -> Txn]
  /\ copy \in [Editors -> Document \cup {None}]
  /\ document \in Delivered \cup {None}
  /\ success \in BOOLEAN
  /\ used \in [{"commands", "edits", "faults"} -> Nat]
  /\ versions \subseteq Delivered
  /\ projected \in Nat /\ reported \in Nat

StoreInit ==
  /\ file \in {[doc |-> d, stamp |-> 0] : d \in StartDocuments}
  /\ clock = 0
  /\ lock = None
  /\ runLock = None
  /\ txn = [w \in Writers |-> NoTxn]
  /\ copy = [e \in Editors |-> None]
  /\ document = None
  /\ success = FALSE
  /\ used = [commands |-> 0, edits |-> 0, faults |-> 0]
  /\ versions = {Projection(file.doc)}
  /\ projected = 0
  /\ reported = 0

-----------------------------------------------------------------------------
(* Helpers *)

At(w, step) == txn[w].pc = step

Goto(w, step) == txn' = [txn EXCEPT ![w].pc = step]

\* The process ends, by its own decision or not; the kernel drops its locks.
Leave(w) ==
  /\ txn' = [txn EXCEPT ![w] = NoTxn]
  /\ lock' = IF lock = w THEN None ELSE lock
  /\ runLock' = IF runLock = w THEN None ELSE runLock

delivery == <<document, success, projected, reported>>

-----------------------------------------------------------------------------
(* The locked writers *)

\* Faulty: the previous status stands while the run is under way.
StartRun_KeepsStatus(u) ==
  /\ At(u, "idle") /\ runLock = None
  /\ runLock' = u
  /\ Goto(u, "source")
  /\ UNCHANGED <<file, clock, lock, copy, document, success, used, versions, projected, reported>>

\* run(): the runtime lock, and the status that only a completed run clears.
StartRun(u) ==
  /\ At(u, "idle") /\ runLock = None
  /\ runLock' = u
  /\ success' = FALSE
  /\ Goto(u, "source")
  /\ UNCHANGED <<file, clock, lock, copy, document, used, versions, projected, reported>>

\* Faulty: the units do without flock().
Begin_Unlocked(w, c) ==
  /\ w \in Units \/ lock = None
  /\ lock' = w
  /\ txn' = [txn EXCEPT ![w] = [@ EXCEPT !.pc = "decrypt", !.cmd = c, !.before = file]]
  /\ UNCHANGED <<file, clock, runLock, copy, versions, delivery>>

\* The source lock, then path.read_bytes().
Begin(w, c) ==
  /\ lock = None
  /\ lock' = w
  /\ txn' = [txn EXCEPT ![w] = [@ EXCEPT !.pc = "decrypt", !.cmd = c, !.before = file]]
  /\ UNCHANGED <<file, clock, runLock, copy, versions, delivery>>

BeginUnit(u) == At(u, "source") /\ Begin(u, AutoCommand) /\ UNCHANGED used

BeginAdmin(a) ==
  /\ At(a, "idle") /\ used.commands < MaxCommands
  /\ used' = [used EXCEPT !.commands = @ + 1]
  /\ \E c \in ManualCommands : Begin(a, c)

\* Faulty: the document is decrypted first, the bytes are read afterwards.
Decrypt_BeforeBytes(w) ==
  /\ At(w, "decrypt")
  /\ txn' = [txn EXCEPT ![w] = [@ EXCEPT !.pc = "enroll",
                                         !.original = txn[w].before.doc, !.before = file]]
  /\ UNCHANGED <<file, clock, lock, runLock, copy, used, versions, delivery>>

\* decrypt(path) reads the file a second time.
Decrypt(w) ==
  /\ At(w, "decrypt")
  /\ txn' = [txn EXCEPT ![w] = [@ EXCEPT !.pc = "enroll", !.original = file.doc]]
  /\ UNCHANGED <<file, clock, lock, runLock, copy, used, versions, delivery>>

\* Faulty: what a run will save is projected before it is saved.
Enroll_DeliversFirst(w) ==
  /\ At(w, "enroll")
  /\ \E ok \in SUBSET txn[w].cmd.services, value \in [Fields -> Values \cup {None}] :
       /\ MayComplete(txn[w].original, txn[w].cmd, ok)
       /\ LET e == Enrolled(txn[w].original, txn[w].cmd, ok, value, clock + 1)
          IN txn' = [txn EXCEPT ![w] = [@ EXCEPT !.pc = "project", !.updated = e,
                                                !.saved = [doc |-> e, stamp |-> clock]]]
  /\ UNCHANGED <<file, clock, lock, runLock, copy, used, versions, delivery>>

\* Faulty: a run that changes nothing ends without a projection.
Enroll_SkipsUnchanged(w) ==
  LET c == txn[w].cmd
      d == txn[w].original
  IN /\ At(w, "enroll")
     /\ \E ok \in SUBSET c.services, value \in [Fields -> Values \cup {None}] :
          /\ MayComplete(d, c, ok)
          /\ \A f \in Fields : Owner[f] \in ok => value[f] \in Choices(d, c, f)
          /\ LET e == Enrolled(d, c, ok, value, clock + 1)
             IN IF e = d
                  THEN Leave(w)
                  ELSE /\ txn' = [txn EXCEPT ![w] =
                             [@ EXCEPT !.pc = "encrypt", !.updated = e]]
                       /\ UNCHANGED <<lock, runLock>>
     /\ UNCHANGED <<file, clock, copy, used, versions, delivery>>

\* The loop over enroll() or automatic_enrollment().  An unchanged document is
\* not saved; an automatic run still reads it back for the projection.
Enroll(w) ==
  LET c == txn[w].cmd
      d == txn[w].original
  IN /\ At(w, "enroll")
     /\ clock' = IF c.restore \/ c.rotate THEN clock + 1 ELSE clock
     /\ \E ok \in SUBSET c.services, value \in [Fields -> Values \cup {None}] :
          /\ MayComplete(d, c, ok)
          /\ \A f \in Fields : Owner[f] \in ok => value[f] \in Choices(d, c, f)
          /\ LET e == Enrolled(d, c, ok, value, clock + 1)
             IN IF e = d /\ ~c.auto
                  THEN Leave(w)
                  ELSE /\ txn' = [txn EXCEPT ![w] =
                             [@ EXCEPT !.pc = IF e = d THEN "reread" ELSE "encrypt",
                                       !.updated = e]]
                       /\ UNCHANGED <<lock, runLock>>
     /\ UNCHANGED <<file, copy, used, versions, delivery>>

\* One service that cannot be enrolled fails the whole automatic run.
EnrollRefused(u) ==
  /\ At(u, "enroll") /\ txn[u].cmd.auto
  /\ \E s \in Services : ~Accepts(txn[u].original, txn[u].cmd, s)
  /\ Leave(u)
  /\ UNCHANGED <<file, clock, copy, used, versions, delivery>>

\* The edited copy of the bytes must decrypt to the updated document.
Encrypt(w) ==
  /\ At(w, "encrypt")
  /\ IF Encrypted(txn[w].before.doc, txn[w].original, txn[w].updated) = txn[w].updated
       THEN Goto(w, "compare") /\ UNCHANGED <<lock, runLock>>
       ELSE Leave(w)
  /\ UNCHANGED <<file, clock, copy, used, versions, delivery>>

\* path.read_bytes() != before: refuse.
Compare(w) ==
  /\ At(w, "compare")
  /\ IF file.stamp = txn[w].before.stamp
       THEN Goto(w, "replace") /\ UNCHANGED <<lock, runLock>>
       ELSE Leave(w)
  /\ UNCHANGED <<file, clock, copy, used, versions, delivery>>

\* os.replace(), after chown, chmod and fsync of the copy.
Replace(w) ==
  /\ At(w, "replace")
  /\ file' = [doc |-> txn[w].updated, stamp |-> clock + 1]
  /\ clock' = clock + 1
  /\ versions' = versions \cup {Projection(txn[w].updated)}
  /\ IF txn[w].cmd.auto
       THEN Goto(w, "reread") /\ UNCHANGED <<lock, runLock>>
       ELSE Leave(w)
  /\ UNCHANGED <<copy, used, delivery>>

\* saved = decrypt(source); saved != updated: refuse.
Reread(u) ==
  /\ At(u, "reread")
  /\ IF file.doc = txn[u].updated
       THEN /\ txn' = [txn EXCEPT ![u] = [@ EXCEPT !.pc = "project", !.saved = file]]
            /\ UNCHANGED <<lock, runLock>>
       ELSE Leave(u)
  /\ UNCHANGED <<file, clock, copy, used, versions, delivery>>

\* Faulty: the whole document goes to the publishers.
Project_Everything(u) ==
  /\ At(u, "project")
  /\ document' = txn[u].saved.doc
  /\ projected' = txn[u].saved.stamp
  /\ lock' = None
  /\ Goto(u, "notify")
  /\ UNCHANGED <<file, clock, runLock, copy, success, used, versions, reported>>

\* document.json is replaced atomically, then the source lock is released.
Project(u) ==
  /\ At(u, "project")
  /\ document' = Projection(txn[u].saved.doc)
  /\ projected' = txn[u].saved.stamp
  /\ lock' = None
  /\ Goto(u, "notify")
  /\ UNCHANGED <<file, clock, runLock, copy, success, used, versions, reported>>

\* Faulty: only a run that changed something counts as a success.
Notify_OnlyChanges(u) ==
  /\ At(u, "notify")
  /\ success' = (reported # txn[u].saved.stamp)
  /\ reported' = txn[u].saved.stamp
  /\ Leave(u)
  /\ UNCHANGED <<file, clock, copy, document, used, versions, projected>>

\* The refresh units are started, the status reports success, the run ends.
Notify(u) ==
  /\ At(u, "notify")
  /\ success' = TRUE
  /\ reported' = txn[u].saved.stamp
  /\ Leave(u)
  /\ UNCHANGED <<file, clock, copy, document, used, versions, projected>>

\* A kill, a timeout, a failing sops or systemctl, an application that does not
\* answer: whatever was not renamed into place is lost.
Abort(w) ==
  /\ ~At(w, "idle") /\ used.faults < MaxFaults
  /\ used' = [used EXCEPT !.faults = @ + 1]
  /\ Leave(w)
  /\ UNCHANGED <<file, clock, copy, versions, delivery>>

-----------------------------------------------------------------------------
(* The unlocked writers *)

Open(e) ==
  /\ copy[e] = None /\ used.edits < MaxEdits
  /\ used' = [used EXCEPT !.edits = @ + 1]
  /\ copy' = [copy EXCEPT ![e] = file.doc]
  /\ UNCHANGED <<file, clock, lock, runLock, txn, versions, delivery>>

Edits(d) ==
  {[d EXCEPT !.user = clock + 1]}
    \cup {[d EXCEPT !.canon[f] = v] : f \in Fields, v \in Entry}
    \cup {[d EXCEPT !.prev[f] = v] : f \in Fields, v \in Entry}

\* The edited document is written over whatever the file holds by then.
Save(e) ==
  /\ copy[e] # None
  /\ \E d \in Edits(copy[e]) :
       /\ file' = [doc |-> d, stamp |-> clock + 1]
       /\ versions' = versions \cup {Projection(d)}
  /\ clock' = clock + 1
  /\ copy' = [copy EXCEPT ![e] = None]
  /\ txn' = [w \in Writers |-> [txn[w] EXCEPT !.raced = @ \/ At(w, "replace")]]
  /\ UNCHANGED <<lock, runLock, used, delivery>>

-----------------------------------------------------------------------------
UnitStep(u) == BeginUnit(u) \/ EnrollRefused(u) \/ Reread(u) \/ Project(u)

SaveStep(w) ==
  Decrypt(w) \/ Enroll(w) \/ Encrypt(w) \/ Compare(w) \/ Replace(w)

StoreNext ==
  \/ \E u \in Units : StartRun(u) \/ UnitStep(u) \/ Notify(u)
  \/ \E a \in Admins : BeginAdmin(a)
  \/ \E w \in Writers : SaveStep(w) \/ Abort(w)
  \/ \E e \in Editors : Open(e) \/ Save(e)

\* The timer starts the units for ever, and a process that runs goes on: flock
\* and sops return, and an operator answers a prompt of the command started.
StoreFairness ==
  /\ \A u \in Units : WF_storeVars(StartRun(u) \/ UnitStep(u) \/ Notify(u))
  /\ \A w \in Writers : WF_storeVars(SaveStep(w))

StoreSpec == StoreInit /\ [][StoreNext]_storeVars
FairStoreSpec == StoreSpec /\ StoreFairness

-----------------------------------------------------------------------------
(* Properties *)

\* A save is one transaction on the very document it replaces, although the
\* bytes, the decrypted document and the comparison are three separate reads.
\* The exception is an unlocked edit that lands between the comparison and
\* the rename (raced): it is overwritten without a refusal.
SavesAreTransactions ==
  [][\A w \in Writers :
       Replace(w) /\ ~txn[w].raced => Outcome(file.doc, txn[w].cmd, file'.doc)]_storeVars

\* Without an explicit choice, synchronization neither invents a value for a
\* field that has one nor drops the last copy of a value: what the canonical
\* entry and its older copy hold together is the same before and after.
StoredValuesSurvive ==
  [][\A w \in Writers :
       Replace(w) /\ ~txn[w].raced /\ Plain(txn[w].cmd) =>
         \A f \in Fields :
           Candidates(file.doc, f) # {} =>
             Candidates(file'.doc, f) = Candidates(file.doc, f)]_storeVars

\* "A successful encrypted save and fresh decryption precede all delivery":
\* the projection is one the encrypted file has held as a whole, never a
\* value generated in a run that failed, nor a mixture of two versions.
DeliveredWasSaved == document = None \/ document \in versions

\* What is delivered is always complete and usable, whatever editors, manual
\* commands and failing runs did to the file meanwhile.
DeliveredIsComplete == document # None => \A f \in Fields : document.canon[f] \in Values

\* status.json reports success only when no run is under way and document.json
\* holds exactly the version the last completed run read back: a run killed
\* after it changed document.json cannot leave an older success standing.
SuccessIsCurrent == success => runLock = None /\ reported = projected /\ document # None

\* A conflict, or a malformed entry, is left to the operator.
Blocked(d) == \E f \in Fields : Choices(d, AutoCommand, f) = {}

\* Once edits, commands and failures cease, the file stays blocked on a
\* conflict for the operator to resolve, or what it holds is what is delivered
\* and reported.
EventuallyDelivered ==
  <>[](Blocked(file.doc) \/ document = Projection(file.doc))

\* The same, for the status: a success keeps coming back.
SuccessRecurs == []<>(Blocked(file.doc) \/ success)

\* With no unlocked writer the store implements the atomic vault.
Vault == INSTANCE CredentialVault WITH doc <- file.doc
ImplementsVault == Vault!Spec
=============================================================================
