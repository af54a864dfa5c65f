------------------------ MODULE CredentialStoreProofs ------------------------
(***************************************************************************)
(* Proofs about CredentialStore, for every set of services, fields, values *)
(* and processes and without the bounds on commands, edits and faults.     *)
(***************************************************************************)
EXTENDS CredentialStore, TLAPS

-----------------------------------------------------------------------------
(* The values the model is built from *)

\* The constant parts of a transaction are typed.
LEMMA BlankType ==
  /\ AutoCommand \in Command
  /\ Blank \in Document
  /\ BlankFile \in File
  /\ NoTxn \in Txn
<1>1. AutoCommand \in Command  BY DEF AutoCommand, Command, NoPick, Sources
<1>2. Blank \in Document  BY DEF Blank, Document, Entry
<1>3. BlankFile \in File  BY <1>2 DEF BlankFile, File
<1> QED  BY <1>1, <1>2, <1>3 DEF NoTxn, Txn, Steps

\* Manual commands are commands, and not automatic.
LEMMA ManualType == ManualCommands \subseteq Command /\ \A c \in ManualCommands : ~c.auto
BY DEF ManualCommands

\* What is projected of a document has the type of what is delivered.
LEMMA ProjectionType ==
  ASSUME NEW d \in Document
  PROVE  Projection(d) \in Delivered /\ Projection(d) # None
<1>1. Projection(d) \in Delivered  BY DEF Document, Delivered, Projection
<1> QED  BY <1>1, ProcessAssumption

\* Enrollment makes a document of a document.
LEMMA EnrolledType ==
  ASSUME NEW d \in Document, NEW c \in Command, NEW ok \in SUBSET c.services,
         NEW value \in [Fields -> Values \cup {None}], NEW r \in Nat
  PROVE  Enrolled(d, c, ok, value, r) \in Document
BY DEF Enrolled, Document, Entry

\* A revision above all those of a document is none of them.
LEMMA FreshRevision ==
  ASSUME NEW d \in Document, NEW r \in Nat, \A s \in Services : d.rev[s] < r
  PROVE  \A s \in Services : d.rev[s] # r
<1> SUFFICES ASSUME NEW s \in Services, d.rev[s] = r PROVE FALSE  OBVIOUS
<1>1. r < r  OBVIOUS
<1> QED  BY <1>1

\* One enrollment, whatever services it completes, is a permitted outcome as
\* long as the revision it records is new.
LEMMA EnrolledOutcome ==
  ASSUME NEW d \in Document, NEW c \in Command, NEW ok \in SUBSET c.services,
         NEW value \in [Fields -> Values \cup {None}], NEW r \in Nat,
         MayComplete(d, c, ok),
         \A f \in Fields : Owner[f] \in ok => value[f] \in Choices(d, c, f),
         \A s \in Services : d.rev[s] < r
  PROVE  Outcome(d, c, Enrolled(d, c, ok, value, r))
<1> DEFINE e == Enrolled(d, c, ok, value, r)
<1>1. e.user = d.user  BY DEF Enrolled, Document
<1>2. \A f \in Fields :
        IF Owner[f] \in ok
          THEN e.canon[f] \in Choices(d, c, f) /\ e.prev[f] = None
          ELSE e.canon[f] = d.canon[f] /\ e.prev[f] = d.prev[f]
  BY DEF Enrolled, Document
<1>3. \A s \in Services :
        IF s \in ok /\ (c.restore \/ c.rotate)
          THEN e.rev[s] # d.rev[s] ELSE e.rev[s] = d.rev[s]
  <2>1. e.rev = [s \in Services |->
                   IF s \in ok /\ (c.restore \/ c.rotate) THEN r ELSE d.rev[s]]
    BY DEF Enrolled, Document
  <2>2. \A s \in Services : d.rev[s] # r  BY FreshRevision
  <2> HIDE DEF e
  <2> QED  BY <2>1, <2>2
<1> QED  BY <1>1, <1>2, <1>3 DEF Outcome

\* An automatic run that succeeds leaves every field with a usable value.
LEMMA AutoOutcomeComplete ==
  ASSUME NEW d \in Document, NEW e \in Document, Outcome(d, AutoCommand, e)
  PROVE  \A f \in Fields : e.canon[f] \in Values
<1>1. PICK ok \in SUBSET AutoCommand.services :
        /\ MayComplete(d, AutoCommand, ok)
        /\ \A f \in Fields : Owner[f] \in ok => e.canon[f] \in Choices(d, AutoCommand, f)
  BY DEF Outcome
<1>2. ok = Services  BY <1>1 DEF MayComplete, AutoCommand
<1>3. \A f \in Fields : Choices(d, AutoCommand, f) \subseteq Values
  BY DEF Choices, AutoCommand, NoPick, Initial
<1> QED  BY <1>1, <1>2, <1>3, OwnerAssumption

\* Without an explicit choice an outcome keeps every value that is stored.
LEMMA PlainOutcomeKeeps ==
  ASSUME NEW d \in Document, NEW e \in Document, NEW c \in Command,
         Plain(c), Outcome(d, c, e), NEW f \in Fields, Candidates(d, f) # {}
  PROVE  Candidates(e, f) = Candidates(d, f)
<1>1. PICK ok \in SUBSET c.services :
        IF Owner[f] \in ok
          THEN e.canon[f] \in Choices(d, c, f) /\ e.prev[f] = None
          ELSE e.canon[f] = d.canon[f] /\ e.prev[f] = d.prev[f]
  BY DEF Outcome
<1>2. CASE Owner[f] \notin ok
  BY <1>1, <1>2 DEF Candidates
<1>3. CASE Owner[f] \in ok
  <2>1. Choices(d, c, f) = {v \in Values : Candidates(d, f) = {v}}
    BY DEF Choices, Plain, NoPick
  <2>2. e.canon[f] \in Values /\ Candidates(d, f) = {e.canon[f]} /\ e.prev[f] = None
    BY <1>1, <1>3, <2>1
  <2> QED  BY <2>2, EntryAssumption DEF Candidates
<1> QED  BY <1>2, <1>3

-----------------------------------------------------------------------------
(* Type correctness *)

\* The initial state is typed.
LEMMA StoreTypeInit == StoreInit => StoreTypeOK
<1> SUFFICES ASSUME StoreInit PROVE StoreTypeOK  OBVIOUS
<1>1. file \in File  BY StartAssumption DEF StoreInit, File
<1>2. versions \subseteq Delivered  BY <1>1, ProjectionType DEF StoreInit, File
<1>3. txn \in [Writers -> Txn]  BY BlankType DEF StoreInit
<1>4. used \in [{"commands", "edits", "faults"} -> Nat]
  <2>1. used = [commands |-> 0, edits |-> 0, faults |-> 0]  BY DEF StoreInit
  <2> QED  BY <2>1
<1>5. success \in BOOLEAN  BY DEF StoreInit
<1>6. copy \in [Editors -> Document \cup {None}]  BY DEF StoreInit
<1> QED  BY <1>1, <1>2, <1>3, <1>4, <1>5, <1>6 DEF StoreInit, StoreTypeOK

\* The process that leaves gives up its locks and its transaction, nothing else.
LEMMA LeaveType ==
  ASSUME StoreTypeOK, NEW w \in Writers, Leave(w)
  PROVE  /\ txn' \in [Writers -> Txn]
         /\ lock' \in Writers \cup {None}
         /\ runLock' \in Units \cup {None}
BY BlankType DEF Leave, StoreTypeOK

\* A transaction stays one when its fields change within their types.
LEMMA TxnUpdates ==
  ASSUME NEW t \in Txn, NEW step \in Steps
  PROVE  /\ \A c \in Command, f \in File :
              [t EXCEPT !.pc = step, !.cmd = c, !.before = f] \in Txn
         /\ \A d \in Document : [t EXCEPT !.pc = step, !.original = d] \in Txn
         /\ \A d \in Document : [t EXCEPT !.pc = step, !.updated = d] \in Txn
         /\ \A f \in File : [t EXCEPT !.pc = step, !.saved = f] \in Txn
         /\ \A b \in BOOLEAN : [t EXCEPT !.raced = b] \in Txn
<1>1. \A c \in Command, f \in File :
        [t EXCEPT !.pc = step, !.cmd = c, !.before = f] \in Txn
  BY DEF Txn
<1>2. \A d \in Document : [t EXCEPT !.pc = step, !.original = d] \in Txn  BY DEF Txn
<1>3. \A d \in Document : [t EXCEPT !.pc = step, !.updated = d] \in Txn  BY DEF Txn
<1>4. \A f \in File : [t EXCEPT !.pc = step, !.saved = f] \in Txn  BY DEF Txn
<1>5. \A b \in BOOLEAN : [t EXCEPT !.raced = b] \in Txn  BY DEF Txn
<1> QED  BY <1>1, <1>2, <1>3, <1>4, <1>5

\* Marking a transaction as raced changes nothing else in it.
LEMMA RacedOnly ==
  ASSUME NEW t \in Txn, NEW b
  PROVE  LET u == [t EXCEPT !.raced = b]
         IN /\ u.pc = t.pc /\ u.cmd = t.cmd /\ u.before = t.before
            /\ u.original = t.original /\ u.updated = t.updated /\ u.saved = t.saved
BY DEF Txn

\* A writer that moves on keeps its transaction.
LEMMA GotoType ==
  ASSUME StoreTypeOK, NEW w \in Writers, NEW step \in Steps, Goto(w, step)
  PROVE  txn' \in [Writers -> Txn]
BY DEF Goto, StoreTypeOK, Txn

\* An edit makes a document of a document.
LEMMA EditsType ==
  ASSUME NEW d \in Document, clock \in Nat
  PROVE  Edits(d) \subseteq Document
BY DEF Edits, Document

\* Every step keeps the state typed.
LEMMA StoreTypeStep == StoreTypeOK /\ [StoreNext]_storeVars => StoreTypeOK'
<1> SUFFICES ASSUME StoreTypeOK, [StoreNext]_storeVars PROVE StoreTypeOK'
  OBVIOUS
<1> USE DEF StoreTypeOK
<1>u. Units \subseteq Writers /\ Admins \subseteq Writers  BY DEF Writers
<1>1. ASSUME NEW u \in Units, StartRun(u) PROVE StoreTypeOK'
  BY <1>1, <1>u, GotoType DEF StartRun, Steps
<1>s. {"decrypt", "enroll", "encrypt", "reread", "project"} \subseteq Steps  BY DEF Steps
<1>2. ASSUME NEW w \in Writers, NEW c \in Command, Begin(w, c), UNCHANGED used
      PROVE StoreTypeOK'
  <2>1. [txn[w] EXCEPT !.pc = "decrypt", !.cmd = c, !.before = file] \in Txn
    BY <1>s, TxnUpdates
  <2>2. txn' \in [Writers -> Txn]  BY <1>2, <2>1 DEF Begin
  <2> QED  BY <1>2, <2>2 DEF Begin, delivery
<1>3. ASSUME NEW a \in Admins, BeginAdmin(a) PROVE StoreTypeOK'
  <2>1. PICK c \in ManualCommands : Begin(a, c)  BY <1>3 DEF BeginAdmin
  <2>2. [txn[a] EXCEPT !.pc = "decrypt", !.cmd = c, !.before = file] \in Txn
    BY <1>s, <1>u, <2>1, ManualType, TxnUpdates
  <2>3. txn' \in [Writers -> Txn]  BY <2>1, <2>2 DEF Begin
  <2>4. used' \in [{"commands", "edits", "faults"} -> Nat]  BY <1>3 DEF BeginAdmin
  <2> QED  BY <1>u, <2>1, <2>3, <2>4 DEF Begin, delivery
<1>4. ASSUME NEW w \in Writers, Decrypt(w) PROVE StoreTypeOK'
  <2>1. file.doc \in Document  BY DEF File
  <2>2. [txn[w] EXCEPT !.pc = "enroll", !.original = file.doc] \in Txn
    BY <1>s, <2>1, TxnUpdates
  <2>3. txn' \in [Writers -> Txn]  BY <1>4, <2>2 DEF Decrypt
  <2> QED  BY <1>4, <2>3 DEF Decrypt, delivery
<1>5. ASSUME NEW w \in Writers, Enroll(w) PROVE StoreTypeOK'
  <2> DEFINE c == txn[w].cmd
             d == txn[w].original
  <2>1. c \in Command /\ d \in Document  BY DEF Txn
  <2>2. PICK ok \in SUBSET c.services, value \in [Fields -> Values \cup {None}] :
          LET e == Enrolled(d, c, ok, value, clock + 1)
          IN IF e = d /\ ~c.auto
               THEN Leave(w)
               ELSE /\ txn' = [txn EXCEPT ![w] =
                          [@ EXCEPT !.pc = IF e = d THEN "reread" ELSE "encrypt",
                                    !.updated = e]]
                    /\ UNCHANGED <<lock, runLock>>
    BY <1>5 DEF Enroll
  <2>3. Enrolled(d, c, ok, value, clock + 1) \in Document  BY <2>1, EnrolledType
  <2>4. /\ txn' \in [Writers -> Txn]
        /\ lock' \in Writers \cup {None}
        /\ runLock' \in Units \cup {None}
    <3>1. CASE Leave(w)  BY <3>1, LeaveType
    <3>2. CASE ~Leave(w)
      <4> DEFINE e == Enrolled(d, c, ok, value, clock + 1)
                 t == [txn[w] EXCEPT !.pc = IF e = d THEN "reread" ELSE "encrypt",
                                     !.updated = e]
      <4>1. t \in Txn
        <5>1. (IF e = d THEN "reread" ELSE "encrypt") \in Steps  BY <1>s
        <5>2. e \in Document  BY <2>3
        <5> HIDE DEF e
        <5>3. \A step \in Steps : [txn[w] EXCEPT !.pc = step, !.updated = e] \in Txn
          BY <5>2, TxnUpdates
        <5> QED  BY <5>1, <5>3
      <4>2. txn' = [txn EXCEPT ![w] = t] /\ UNCHANGED <<lock, runLock>>
        BY <2>2, <3>2
      <4> QED  BY <4>1, <4>2
    <3> QED  BY <3>1, <3>2
  <2>5. clock' \in Nat  BY <1>5 DEF Enroll
  <2> QED  BY <1>5, <2>4, <2>5 DEF Enroll, delivery
<1>6. ASSUME NEW u \in Units, EnrollRefused(u) PROVE StoreTypeOK'
  BY <1>6, <1>u, LeaveType DEF EnrollRefused, delivery
<1>7. ASSUME NEW w \in Writers, Encrypt(w) PROVE StoreTypeOK'
  <2>1. /\ txn' \in [Writers -> Txn]
        /\ lock' \in Writers \cup {None}
        /\ runLock' \in Units \cup {None}
    BY <1>7, LeaveType, GotoType DEF Encrypt, Steps
  <2> QED  BY <1>7, <2>1 DEF Encrypt, delivery
<1>8. ASSUME NEW w \in Writers, Compare(w) PROVE StoreTypeOK'
  <2>1. /\ txn' \in [Writers -> Txn]
        /\ lock' \in Writers \cup {None}
        /\ runLock' \in Units \cup {None}
    BY <1>8, LeaveType, GotoType DEF Compare, Steps
  <2> QED  BY <1>8, <2>1 DEF Compare, delivery
<1>9. ASSUME NEW w \in Writers, Replace(w) PROVE StoreTypeOK'
  <2>1. /\ txn' \in [Writers -> Txn]
        /\ lock' \in Writers \cup {None}
        /\ runLock' \in Units \cup {None}
    BY <1>9, LeaveType, GotoType DEF Replace, Steps
  <2>2. txn[w].updated \in Document  BY DEF Txn
  <2>3. file' \in File /\ clock' \in Nat  BY <1>9, <2>2 DEF Replace, File
  <2>4. versions' \subseteq Delivered  BY <1>9, <2>2, ProjectionType DEF Replace
  <2> QED  BY <1>9, <2>1, <2>3, <2>4 DEF Replace, delivery
<1>10. ASSUME NEW u \in Units, Reread(u) PROVE StoreTypeOK'
  <2>1. /\ txn' \in [Writers -> Txn]
        /\ lock' \in Writers \cup {None}
        /\ runLock' \in Units \cup {None}
    <3>1. CASE Leave(u)  BY <1>u, <3>1, LeaveType
    <3>2. CASE ~Leave(u)
      <4>1. [txn[u] EXCEPT !.pc = "project", !.saved = file] \in Txn
        BY <1>s, <1>u, TxnUpdates
      <4> QED  BY <1>10, <3>2, <4>1 DEF Reread
    <3> QED  BY <3>1, <3>2
  <2> QED  BY <1>10, <2>1 DEF Reread, delivery
<1>11. ASSUME NEW u \in Units, Project(u) PROVE StoreTypeOK'
  <2>1. txn[u].saved \in File  BY <1>u DEF Txn
  <2>2. document' \in Delivered /\ projected' \in Nat
    BY <1>11, <2>1, ProjectionType DEF Project, File
  <2>3. txn' \in [Writers -> Txn]  BY <1>11, <1>u, GotoType DEF Project, Steps
  <2> QED  BY <1>11, <2>2, <2>3 DEF Project
<1>12. ASSUME NEW u \in Units, Notify(u) PROVE StoreTypeOK'
  <2>1. reported' \in Nat  BY <1>12, <1>u DEF Notify, Txn, File
  <2>2. success' \in BOOLEAN  BY <1>12 DEF Notify
  <2> QED  BY <1>12, <1>u, <2>1, <2>2, LeaveType DEF Notify
<1>13. ASSUME NEW w \in Writers, Abort(w) PROVE StoreTypeOK'
  <2>1. used' \in [{"commands", "edits", "faults"} -> Nat]  BY <1>13 DEF Abort
  <2> QED  BY <1>13, <2>1, LeaveType DEF Abort, delivery
<1>14. ASSUME NEW e \in Editors, Open(e) PROVE StoreTypeOK'
  <2>1. used' \in [{"commands", "edits", "faults"} -> Nat]  BY <1>14 DEF Open
  <2>2. copy' \in [Editors -> Document \cup {None}]  BY <1>14 DEF Open, File
  <2> QED  BY <1>14, <2>1, <2>2 DEF Open, delivery
<1>15. ASSUME NEW e \in Editors, Save(e) PROVE StoreTypeOK'
  <2>1. copy[e] \in Document  BY <1>15 DEF Save
  <2>2. PICK d \in Edits(copy[e]) : /\ file' = [doc |-> d, stamp |-> clock + 1]
                                   /\ versions' = versions \cup {Projection(d)}
    BY <1>15 DEF Save
  <2>3. d \in Document  BY <2>1, <2>2, EditsType
  <2>4. file' \in File /\ versions' \subseteq Delivered
    BY <2>2, <2>3, ProjectionType DEF File
  <2>5. txn' \in [Writers -> Txn]
    <3>1. \A w \in Writers : (txn[w].raced \/ At(w, "replace")) \in BOOLEAN  OBVIOUS
    <3>2. \A w \in Writers : [txn[w] EXCEPT !.raced = @ \/ At(w, "replace")] \in Txn
      BY <1>s, <3>1, TxnUpdates
    <3> QED  BY <1>15, <3>2 DEF Save
  <2>6. copy' \in [Editors -> Document \cup {None}] /\ clock' \in Nat  BY <1>15 DEF Save
  <2> QED  BY <1>15, <2>4, <2>5, <2>6 DEF Save, delivery
<1>16. CASE UNCHANGED storeVars
  BY <1>16 DEF storeVars
<1>17. ASSUME NEW u \in Units, BeginUnit(u) PROVE StoreTypeOK'
  BY <1>17, <1>2, <1>u, BlankType DEF BeginUnit
<1> QED
  BY <1>1, <1>3, <1>4, <1>5, <1>6, <1>7, <1>8, <1>9, <1>10, <1>11, <1>12, <1>13, <1>14, <1>15,
     <1>16, <1>17 DEF StoreNext, UnitStep, SaveStep

\* StoreTypeOK for every instance of the constants.
THEOREM StoreTyped == StoreSpec => []StoreTypeOK
<1> QED  BY StoreTypeInit, StoreTypeStep, PTL DEF StoreSpec

-----------------------------------------------------------------------------
(* The inductive invariant *)

\* Where a writer holds the source lock.
Held == {"decrypt", "enroll", "encrypt", "compare", "replace", "reread", "project"}

\* Every revision in d has been drawn from the clock.
Drawn(d) == \A s \in Services : d.rev[s] <= clock

Complete(d) == \A f \in Fields : d.canon[f] \in Values

\* One writer at a time is inside the source lock, one unit inside a run.
Locked(w) ==
  /\ txn[w].pc \in Held => lock = w
  /\ w \in Units /\ txn[w].pc # "idle" => runLock = w

\* A command is one that the two programs can issue, a unit's the automatic one.
Issued(w) ==
  /\ txn[w].cmd \in ManualCommands \cup {AutoCommand}
  /\ w \in Units => txn[w].cmd = AutoCommand

\* What a writer holds is from the past.
Past(w) ==
  txn[w].before.stamp <= clock /\ Drawn(txn[w].original) /\ Drawn(txn[w].updated)

\* As long as the bytes first read are those of the file, what was decrypted
\* after them is their content: no edit came between the two reads.
Consistent(w) ==
  /\ txn[w].pc \in {"enroll", "encrypt", "compare", "replace"}
  /\ txn[w].before.stamp = file.stamp
  => txn[w].original = file.doc

\* The document about to be saved is a permitted outcome for the one decrypted.
Prepared(w) ==
  txn[w].pc \in {"encrypt", "compare", "replace", "reread"} =>
    Outcome(txn[w].original, txn[w].cmd, txn[w].updated)

\* Only an edit after the comparison can have changed the bytes compared, and
\* without editors there is none.
Compared(w) ==
  /\ txn[w].pc = "replace" /\ txn[w].raced = FALSE => txn[w].before.stamp = file.stamp
  /\ Editors = {} => txn[w].raced = FALSE

\* What a unit is about to project was in the file, and is complete.
ReadBack(w) ==
  w \in Units /\ txn[w].pc = "project" =>
    Projection(txn[w].saved.doc) \in versions /\ Complete(txn[w].saved.doc)

\* A unit about to report success has projected what it read back.
Vouched(w) ==
  w \in Units /\ txn[w].pc = "notify" =>
    document # None /\ projected = txn[w].saved.stamp

WriterSound(w) ==
  /\ Locked(w) /\ Issued(w) /\ Past(w)
  /\ Consistent(w) /\ Prepared(w) /\ Compared(w)
  /\ ReadBack(w) /\ Vouched(w)

\* The stamps and revisions of the file and its copies are in the past, so
\* that the next ones are new; the history is up to date.
FileSound ==
  /\ file.stamp <= clock /\ Drawn(file.doc)
  /\ \A e \in Editors : copy[e] # None => Drawn(copy[e])
  /\ Projection(file.doc) \in versions

DeliverySound == DeliveredWasSaved /\ DeliveredIsComplete /\ SuccessIsCurrent

StoreIInv ==
  /\ StoreTypeOK
  /\ \A w \in Writers : WriterSound(w)
  /\ FileSound
  /\ DeliverySound

\* The types of what the steps read.
LEMMA Parts ==
  ASSUME StoreTypeOK
  PROVE  /\ file.doc \in Document /\ file.stamp \in Nat /\ clock \in Nat
         /\ \A w \in Writers : /\ txn[w] \in Txn
                               /\ txn[w].cmd \in Command
                               /\ txn[w].before.stamp \in Nat
                               /\ txn[w].original \in Document
                               /\ txn[w].updated \in Document
                               /\ txn[w].saved \in File
         /\ \A e \in Editors : copy[e] # None => copy[e] \in Document
BY DEF StoreTypeOK, Txn, File

\* Units and Admins are Writers, and None is not.
LEMMA WritersFact == Units \subseteq Writers /\ Admins \subseteq Writers /\ None \notin Writers
BY ProcessAssumption DEF Writers

\* What was drawn stays drawn.
LEMMA DrawnLater ==
  ASSUME StoreTypeOK, clock' \in Nat, clock <= clock'
  PROVE  \A d \in Document : Drawn(d) => Drawn(d)'
BY DEF Drawn, Document, StoreTypeOK

\* A writer that has just started, or has ended, is sound.
LEMMA NoTxnSound ==
  /\ StoreTypeOK => \A w \in Writers : txn[w] = NoTxn => WriterSound(w)
  /\ StoreTypeOK' => \A w \in Writers : txn'[w] = NoTxn => WriterSound(w)'
<1> USE DEF Drawn, Blank, BlankFile, NoTxn, WriterSound, Locked, Held, Issued, Past,
            Consistent, Prepared, Compared, ReadBack, Vouched, StoreTypeOK
<1>1. StoreTypeOK => \A w \in Writers : txn[w] = NoTxn => WriterSound(w)  OBVIOUS
<1>2. StoreTypeOK' => \A w \in Writers : txn'[w] = NoTxn => WriterSound(w)'  OBVIOUS
<1> QED  BY <1>1, <1>2

\* The invariant holds initially.
LEMMA StoreIInvInit == StoreInit => StoreIInv
<1> SUFFICES ASSUME StoreInit PROVE StoreIInv  OBVIOUS
<1>1. StoreTypeOK  BY StoreTypeInit
<1>2. \A w \in Writers : WriterSound(w)
  <2>1. \A w \in Writers : txn[w] = NoTxn  BY DEF StoreInit
  <2> QED  BY <1>1, <2>1, NoTxnSound
<1>3. FileSound
  <2>1. file.stamp = 0 /\ file.doc \in StartDocuments /\ clock = 0  BY DEF StoreInit
  <2>2. Drawn(file.doc)  BY <2>1, StartAssumption DEF Drawn
  <2> QED  BY <2>1, <2>2 DEF StoreInit, FileSound
<1>4. DeliverySound
  BY DEF StoreInit, DeliverySound, DeliveredWasSaved, DeliveredIsComplete, SuccessIsCurrent
<1> QED  BY <1>1, <1>2, <1>3, <1>4 DEF StoreIInv

\* A step that does not disturb what a sound writer relies on keeps it sound.
LEMMA OtherSound ==
  ASSUME StoreTypeOK, NEW x \in Writers, WriterSound(x), txn'[x] = txn[x],
         clock' \in Nat, clock <= clock', versions \subseteq versions',
         txn[x].pc \in Held => lock' = x /\ file' = file,
         x \in Units /\ txn[x].pc # "idle" => runLock' = x /\ UNCHANGED <<document, projected>>
  PROVE  WriterSound(x)'
<1> USE DEF WriterSound
<1>1. Locked(x)' /\ Issued(x)'  BY DEF Locked, Issued
<1>2. Past(x)'
  <2>1. txn[x].before.stamp <= clock'  BY Parts DEF Past
  <2> QED  BY <2>1, DrawnLater, Parts DEF Past
<1>3. Consistent(x)' /\ Prepared(x)' /\ Compared(x)'
  BY DEF Consistent, Prepared, Compared, Held
<1>4. ReadBack(x)' /\ Vouched(x)'  BY DEF ReadBack, Vouched
<1> QED  BY <1>1, <1>2, <1>3, <1>4

\* The file and its copies stay sound while only the clock moves.
LEMMA FileSame ==
  ASSUME StoreTypeOK, FileSound, clock' \in Nat, clock <= clock',
         UNCHANGED <<file, copy, versions>>
  PROVE  FileSound'
<1>1. file'.stamp <= clock' /\ Drawn(file.doc)'  BY Parts, DrawnLater DEF FileSound
<1>2. \A e \in Editors : (copy[e] # None => Drawn(copy[e]))'
  BY Parts, DrawnLater DEF FileSound
<1> QED  BY <1>1, <1>2 DEF FileSound

\* A step inside the source lock that changes only the writer's own copies.
LEMMA InnerStep ==
  ASSUME StoreIInv, StoreTypeOK', NEW w \in Writers,
         UNCHANGED <<file, lock, runLock, copy, versions, delivery>>,
         clock' \in {clock, clock + 1},
         \A x \in Writers : x # w => txn'[x] = txn[x],
         WriterSound(w)'
  PROVE  StoreIInv'
<1>1. StoreTypeOK /\ FileSound /\ DeliverySound /\ \A x \in Writers : WriterSound(x)
  BY DEF StoreIInv
<1>2. clock' \in Nat /\ clock <= clock'  BY <1>1 DEF StoreTypeOK
<1>3. \A x \in Writers : WriterSound(x)'
  <2> SUFFICES ASSUME NEW x \in Writers, x # w PROVE WriterSound(x)'  OBVIOUS
  <2>1. WriterSound(x)  BY <1>1
  <2>2. txn[x].pc \in Held => lock = x  BY <2>1 DEF WriterSound, Locked
  <2>3. x \in Units /\ txn[x].pc # "idle" => runLock = x  BY <2>1 DEF WriterSound, Locked
  <2> QED  BY <1>1, <1>2, <2>1, <2>2, <2>3, OtherSound DEF delivery
<1>4. FileSound'  BY <1>1, <1>2, FileSame
<1>5. DeliverySound'
  BY <1>1 DEF DeliverySound, DeliveredWasSaved, DeliveredIsComplete, SuccessIsCurrent, delivery
<1> QED  BY <1>3, <1>4, <1>5 DEF StoreIInv

\* A process that ends, with what it shared left as it was.
LEMMA LeaveIInv ==
  ASSUME StoreIInv, StoreTypeOK', NEW w \in Writers, Leave(w),
         UNCHANGED <<file, copy, versions, delivery>>, clock' \in {clock, clock + 1}
  PROVE  StoreIInv'
<1>1. StoreTypeOK /\ FileSound /\ DeliverySound /\ \A x \in Writers : WriterSound(x)
  BY DEF StoreIInv
<1>2. clock' \in Nat /\ clock <= clock'  BY <1>1 DEF StoreTypeOK
<1>3. txn'[w] = NoTxn /\ \A x \in Writers : x # w => txn'[x] = txn[x]
  BY <1>1 DEF Leave, StoreTypeOK
<1>4. \A x \in Writers : WriterSound(x)'
  <2>1. WriterSound(w)'  BY <1>3, NoTxnSound
  <2>2. ASSUME NEW x \in Writers, x # w PROVE WriterSound(x)'
    <3>1. WriterSound(x)  BY <1>1
    <3>2. txn[x].pc \in Held => lock' = x
      BY <2>2, <3>1 DEF WriterSound, Locked, Leave
    <3>3. x \in Units /\ txn[x].pc # "idle" => runLock' = x
      BY <2>2, <3>1 DEF WriterSound, Locked, Leave
    <3> QED  BY <1>1, <1>2, <1>3, <2>2, <3>1, <3>2, <3>3, OtherSound DEF delivery
  <2> QED  BY <2>1, <2>2
<1>5. FileSound'  BY <1>1, <1>2, FileSame
<1>6. DeliverySound'
  <2>1. runLock = None => runLock' = None  BY WritersFact DEF Leave
  <2> QED  BY <1>1, <2>1 DEF DeliverySound, DeliveredWasSaved, DeliveredIsComplete,
                             SuccessIsCurrent, delivery
<1> QED  BY <1>4, <1>5, <1>6 DEF StoreIInv

\* What the actions of a single writer do to the transactions: that of w gets
\* the new fields, the other writers keep theirs.
LEMMA TxnStep ==
  ASSUME StoreTypeOK, NEW w \in Writers, NEW t, txn' = [txn EXCEPT ![w] = t]
  PROVE  txn'[w] = t /\ \A x \in Writers : x # w => txn'[x] = txn[x]
BY DEF StoreTypeOK

\* StartRun() clears the success before anything else of the run.
LEMMA StartRunStep ==
  ASSUME StoreIInv, StoreTypeOK', NEW u \in Units, StartRun(u)
  PROVE  StoreIInv'
<1>1. StoreTypeOK /\ FileSound /\ DeliverySound /\ \A x \in Writers : WriterSound(x)
  BY DEF StoreIInv
<1>2. u \in Writers /\ txn[u] \in Txn  BY <1>1, WritersFact, Parts
<1>3. /\ txn'[u] = [txn[u] EXCEPT !.pc = "source"]
      /\ \A x \in Writers : x # u => txn'[x] = txn[x]
  BY <1>1, <1>2, TxnStep DEF StartRun, Goto
<1>4. /\ txn'[u].pc = "source" /\ txn'[u].cmd = txn[u].cmd
      /\ txn'[u].before = txn[u].before /\ txn'[u].original = txn[u].original
      /\ txn'[u].updated = txn[u].updated /\ txn'[u].raced = txn[u].raced
  BY <1>2, <1>3 DEF Txn
<1>5. clock' = clock /\ clock \in Nat /\ lock' = lock /\ runLock = None /\ runLock' = u
  BY <1>1 DEF StartRun, StoreTypeOK
<1>6. \A x \in Writers : WriterSound(x)'
  <2>1. WriterSound(u)'
    BY <1>1, <1>2, <1>4, <1>5
    DEF WriterSound, Locked, Held, Issued, Past, Drawn, Consistent, Prepared, Compared,
        ReadBack, Vouched
  <2>2. ASSUME NEW x \in Writers, x # u PROVE WriterSound(x)'
    <3>1. WriterSound(x)  BY <1>1
    <3>2. txn[x].pc \in Held => lock' = x  BY <1>5, <3>1 DEF WriterSound, Locked
    <3>3. ~(x \in Units /\ txn[x].pc # "idle")
      BY <1>5, <3>1, WritersFact DEF WriterSound, Locked
    <3> QED  BY <1>1, <1>3, <1>5, <2>2, <3>1, <3>2, <3>3, OtherSound DEF StartRun
  <2> QED  BY <2>1, <2>2
<1>7. FileSound'  BY <1>1, <1>5, FileSame DEF StartRun
<1>8. DeliverySound'
  BY <1>1 DEF StartRun, DeliverySound, DeliveredWasSaved, DeliveredIsComplete, SuccessIsCurrent
<1> QED  BY <1>6, <1>7, <1>8 DEF StoreIInv

\* Begin() finds nobody in the lock, and takes the bytes as they are.
LEMMA BeginStep ==
  ASSUME StoreIInv, StoreTypeOK', NEW w \in Writers, NEW c \in ManualCommands \cup {AutoCommand},
         w \in Units => c = AutoCommand /\ txn[w].pc # "idle", Begin(w, c)
  PROVE  StoreIInv'
<1>1. StoreTypeOK /\ FileSound /\ DeliverySound /\ \A x \in Writers : WriterSound(x)
  BY DEF StoreIInv
<1>2. txn[w] \in Txn  BY <1>1, Parts
<1>3. /\ txn'[w] = [txn[w] EXCEPT !.pc = "decrypt", !.cmd = c, !.before = file]
      /\ \A x \in Writers : x # w => txn'[x] = txn[x]
  BY <1>1, TxnStep DEF Begin
<1>4. /\ txn'[w].pc = "decrypt" /\ txn'[w].cmd = c
      /\ txn'[w].before = file /\ txn'[w].original = txn[w].original
      /\ txn'[w].updated = txn[w].updated /\ txn'[w].raced = txn[w].raced
  BY <1>2, <1>3 DEF Txn
<1>5. clock' = clock /\ clock \in Nat /\ lock = None /\ lock' = w /\ runLock' = runLock
  BY <1>1 DEF Begin, StoreTypeOK
<1>6. \A x \in Writers : WriterSound(x)'
  <2>1. WriterSound(w)'
    BY <1>1, <1>4, <1>5
    DEF WriterSound, Locked, Held, Issued, Past, Drawn, Consistent, Prepared, Compared,
        ReadBack, Vouched, FileSound
  <2>2. ASSUME NEW x \in Writers, x # w PROVE WriterSound(x)'
    <3>1. WriterSound(x)  BY <1>1
    <3>2. txn[x].pc \notin Held  BY <1>5, <3>1, WritersFact DEF WriterSound, Locked
    <3>3. x \in Units /\ txn[x].pc # "idle" => runLock' = x
      BY <1>5, <3>1 DEF WriterSound, Locked
    <3> QED  BY <1>1, <1>3, <1>5, <2>2, <3>1, <3>2, <3>3, OtherSound DEF Begin, delivery
  <2> QED  BY <2>1, <2>2
<1>7. FileSound'  BY <1>1, <1>5, FileSame DEF Begin
<1>8. DeliverySound'
  BY <1>1 DEF Begin, delivery, DeliverySound, DeliveredWasSaved, DeliveredIsComplete,
              SuccessIsCurrent
<1> QED  BY <1>6, <1>7, <1>8 DEF StoreIInv

\* Decrypt() reads the current document, whatever bytes were read before.
LEMMA DecryptStep ==
  ASSUME StoreIInv, StoreTypeOK', NEW w \in Writers, Decrypt(w)
  PROVE  StoreIInv'
<1>1. StoreTypeOK /\ FileSound /\ WriterSound(w)  BY DEF StoreIInv
<1>2. txn[w] \in Txn /\ txn[w].pc = "decrypt"  BY <1>1, Parts DEF Decrypt, At
<1>3. /\ txn'[w] = [txn[w] EXCEPT !.pc = "enroll", !.original = file.doc]
      /\ \A x \in Writers : x # w => txn'[x] = txn[x]
  BY <1>1, TxnStep DEF Decrypt
<1>4. /\ txn'[w].pc = "enroll" /\ txn'[w].cmd = txn[w].cmd
      /\ txn'[w].before = txn[w].before /\ txn'[w].original = file.doc
      /\ txn'[w].updated = txn[w].updated /\ txn'[w].raced = txn[w].raced
  BY <1>2, <1>3 DEF Txn
<1>5. WriterSound(w)'
  BY <1>1, <1>2, <1>4
  DEF Decrypt, WriterSound, Locked, Held, Issued, Past, Drawn, Consistent, Prepared,
      Compared, ReadBack, Vouched, FileSound
<1> QED  BY <1>3, <1>5, InnerStep DEF Decrypt

\* Encrypt() goes on, or the process ends.
LEMMA EncryptStep ==
  ASSUME StoreIInv, StoreTypeOK', NEW w \in Writers, Encrypt(w)
  PROVE  StoreIInv'
<1>1. StoreTypeOK /\ WriterSound(w)  BY DEF StoreIInv
<1>2. txn[w] \in Txn /\ txn[w].pc = "encrypt"  BY <1>1, Parts DEF Encrypt, At
<1>3. CASE Leave(w)  BY <1>3, LeaveIInv DEF Encrypt
<1>4. CASE ~Leave(w)
  <2>1. /\ txn'[w] = [txn[w] EXCEPT !.pc = "compare"]
        /\ \A x \in Writers : x # w => txn'[x] = txn[x]
    BY <1>1, <1>4, TxnStep DEF Encrypt, Goto
  <2>2. /\ txn'[w].pc = "compare" /\ txn'[w].cmd = txn[w].cmd
        /\ txn'[w].before = txn[w].before /\ txn'[w].original = txn[w].original
        /\ txn'[w].updated = txn[w].updated /\ txn'[w].raced = txn[w].raced
    BY <1>2, <2>1 DEF Txn
  <2>3. UNCHANGED <<file, clock, lock, runLock, copy, versions, delivery>>
    BY <1>4 DEF Encrypt
  <2>4. WriterSound(w)'
    BY <1>1, <1>2, <2>2, <2>3
    DEF WriterSound, Locked, Held, Issued, Past, Drawn, Consistent, Prepared,
        Compared, ReadBack, Vouched
  <2> QED  BY <2>1, <2>3, <2>4, InnerStep
<1> QED  BY <1>3, <1>4

\* Compare() goes on only with the bytes it began with.
LEMMA CompareStep ==
  ASSUME StoreIInv, StoreTypeOK', NEW w \in Writers, Compare(w)
  PROVE  StoreIInv'
<1>1. StoreTypeOK /\ WriterSound(w)  BY DEF StoreIInv
<1>2. txn[w] \in Txn /\ txn[w].pc = "compare"  BY <1>1, Parts DEF Compare, At
<1>3. CASE Leave(w)  BY <1>3, LeaveIInv DEF Compare
<1>4. CASE ~Leave(w)
  <2>1. /\ txn'[w] = [txn[w] EXCEPT !.pc = "replace"]
        /\ \A x \in Writers : x # w => txn'[x] = txn[x]
    BY <1>1, <1>4, TxnStep DEF Compare, Goto
  <2>2. /\ txn'[w].pc = "replace" /\ txn'[w].cmd = txn[w].cmd
        /\ txn'[w].before = txn[w].before /\ txn'[w].original = txn[w].original
        /\ txn'[w].updated = txn[w].updated /\ txn'[w].raced = txn[w].raced
    BY <1>2, <2>1 DEF Txn
  <2>3. /\ UNCHANGED <<file, clock, lock, runLock, copy, versions, delivery>>
        /\ txn[w].before.stamp = file.stamp
    BY <1>4 DEF Compare
  <2>4. WriterSound(w)'
    BY <1>1, <1>2, <2>2, <2>3
    DEF WriterSound, Locked, Held, Issued, Past, Drawn, Consistent, Prepared,
        Compared, ReadBack, Vouched
  <2> QED  BY <2>1, <2>3, <2>4, InnerStep
<1> QED  BY <1>3, <1>4

\* Enroll() prepares a permitted outcome for the document decrypted.
LEMMA EnrollStep ==
  ASSUME StoreIInv, StoreTypeOK', NEW w \in Writers, Enroll(w)
  PROVE  StoreIInv'
<1> DEFINE c == txn[w].cmd
           d == txn[w].original
           e(ok, value) == Enrolled(d, c, ok, value, clock + 1)
<1>1. StoreTypeOK /\ WriterSound(w)  BY DEF StoreIInv
<1>2. txn[w] \in Txn /\ c \in Command /\ d \in Document /\ clock \in Nat  BY <1>1, Parts
<1>3. PICK ok \in SUBSET c.services, value \in [Fields -> Values \cup {None}] :
        /\ MayComplete(d, c, ok)
        /\ \A f \in Fields : Owner[f] \in ok => value[f] \in Choices(d, c, f)
        /\ IF e(ok, value) = d /\ ~c.auto
             THEN Leave(w)
             ELSE /\ txn' = [txn EXCEPT ![w] =
                        [@ EXCEPT !.pc = IF e(ok, value) = d THEN "reread" ELSE "encrypt",
                                  !.updated = e(ok, value)]]
                  /\ UNCHANGED <<lock, runLock>>
  BY DEF Enroll
<1>4. /\ clock' = IF c.restore \/ c.rotate THEN clock + 1 ELSE clock
      /\ UNCHANGED <<file, copy, versions, delivery>>
  BY DEF Enroll
<1>5. CASE Leave(w)  BY <1>4, <1>5, LeaveIInv
<1>6. CASE ~Leave(w)
  <2> DEFINE updated == e(ok, value)
             pc == IF updated = d THEN "reread" ELSE "encrypt"
  <2>1. /\ txn' = [txn EXCEPT ![w] = [txn[w] EXCEPT !.pc = pc, !.updated = updated]]
        /\ UNCHANGED <<lock, runLock>>
    BY <1>3, <1>6
  <2>2. /\ txn'[w] = [txn[w] EXCEPT !.pc = pc, !.updated = updated]
        /\ \A x \in Writers : x # w => txn'[x] = txn[x]
    <3> HIDE DEF pc, updated
    <3> QED  BY <1>1, <2>1, TxnStep
  <2>3. /\ txn'[w].pc = pc /\ txn'[w].cmd = c
        /\ txn'[w].before = txn[w].before /\ txn'[w].original = d
        /\ txn'[w].updated = updated /\ txn'[w].raced = txn[w].raced
    <3> HIDE DEF pc, updated
    <3> QED  BY <1>2, <2>2 DEF Txn
  <2>4. Drawn(d) /\ txn[w].before.stamp <= clock  BY <1>1 DEF WriterSound, Past
  <2>5. Outcome(d, c, updated)
    <3>1. \A s \in Services : d.rev[s] < clock + 1  BY <1>2, <2>4 DEF Drawn, Document
    <3> QED  BY <1>2, <1>3, <3>1, EnrolledOutcome
  <2>6. Past(w)'
    <3>0. clock' \in Nat /\ clock <= clock'  BY <1>2, <1>4
    <3>1. txn[w].before.stamp <= clock' /\ \A s \in Services : d.rev[s] <= clock'
      BY <1>1, <1>2, <2>4, <3>0, DrawnLater, Parts DEF Drawn
    <3>2. \A s \in Services : updated.rev[s] =
            IF s \in ok /\ (c.restore \/ c.rotate) THEN clock + 1 ELSE d.rev[s]
      BY <1>2 DEF Enrolled, Document
    <3>3. \A s \in Services : updated.rev[s] <= clock'
      BY <1>2, <1>4, <2>4, <3>2 DEF Drawn, Document
    <3> QED  BY <2>3, <3>1, <3>3 DEF Past, Drawn
  <2>7. Locked(w)'
    BY <1>1, <2>1, <2>3 DEF Enroll, At, WriterSound, Locked, Held
  <2>8. Issued(w)' /\ Prepared(w)'
    <3> HIDE DEF pc, updated
    <3> QED  BY <1>1, <2>3, <2>5 DEF WriterSound, Issued, Prepared
  <2>9. Consistent(w)' /\ Compared(w)' /\ ReadBack(w)' /\ Vouched(w)'
    BY <1>1, <1>4, <2>3
    DEF Enroll, At, WriterSound, Consistent, Compared, ReadBack, Vouched
  <2>10. WriterSound(w)'  BY <2>6, <2>7, <2>8, <2>9 DEF WriterSound
  <2> QED  BY <1>4, <2>1, <2>2, <2>10, InnerStep
<1> QED  BY <1>5, <1>6

\* Reread() confirms that what was saved is what a complete run prepared.
LEMMA RereadStep ==
  ASSUME StoreIInv, StoreTypeOK', NEW u \in Units, Reread(u)
  PROVE  StoreIInv'
<1>1. u \in Writers /\ StoreTypeOK /\ FileSound /\ WriterSound(u)
  BY WritersFact DEF StoreIInv
<1>2. txn[u] \in Txn /\ txn[u].pc = "reread"  BY <1>1, Parts DEF Reread, At
<1>3. CASE Leave(u)  BY <1>1, <1>3, LeaveIInv DEF Reread
<1>4. CASE ~Leave(u)
  <2>1. /\ txn'[u] = [txn[u] EXCEPT !.pc = "project", !.saved = file]
        /\ \A x \in Writers : x # u => txn'[x] = txn[x]
    BY <1>1, <1>4, TxnStep DEF Reread
  <2>2. /\ txn'[u].pc = "project" /\ txn'[u].cmd = txn[u].cmd
        /\ txn'[u].before = txn[u].before /\ txn'[u].original = txn[u].original
        /\ txn'[u].updated = txn[u].updated /\ txn'[u].raced = txn[u].raced
        /\ txn'[u].saved = file
    BY <1>2, <2>1 DEF Txn
  <2>3. /\ UNCHANGED <<file, clock, lock, runLock, copy, versions, delivery>>
        /\ file.doc = txn[u].updated
    BY <1>4 DEF Reread
  <2>4. Complete(file.doc)
    <3>1. Outcome(txn[u].original, AutoCommand, file.doc)
      BY <1>1, <1>2, <2>3 DEF WriterSound, Issued, Prepared
    <3> QED  BY <1>1, <3>1, Parts, AutoOutcomeComplete DEF Complete
  <2>5. WriterSound(u)'
    <3>1. ReadBack(u)'
      BY <1>1, <2>2, <2>3, <2>4 DEF ReadBack, Complete, FileSound, Projection
    <3> QED
      BY <1>1, <1>2, <2>2, <2>3, <3>1
      DEF WriterSound, Locked, Held, Issued, Past, Drawn, Consistent, Prepared,
          Compared, Vouched
  <2> QED  BY <1>1, <2>1, <2>3, <2>5, InnerStep
<1> QED  BY <1>3, <1>4

\* Replace() puts the prepared document in the file.
LEMMA ReplaceStep ==
  ASSUME StoreIInv, StoreTypeOK', NEW w \in Writers, Replace(w)
  PROVE  StoreIInv'
<1>1. StoreTypeOK /\ FileSound /\ DeliverySound /\ \A x \in Writers : WriterSound(x)
  BY DEF StoreIInv
<1>2. /\ txn[w] \in Txn /\ txn[w].pc = "replace" /\ txn[w].updated \in Document
      /\ clock \in Nat
  BY <1>1, Parts DEF Replace, At
<1>3. /\ file' = [doc |-> txn[w].updated, stamp |-> clock + 1] /\ clock' = clock + 1
      /\ versions' = versions \cup {Projection(txn[w].updated)}
      /\ UNCHANGED <<copy, delivery>>
  BY DEF Replace
<1>4. lock = w /\ Drawn(txn[w].updated)
  BY <1>1, <1>2 DEF WriterSound, Locked, Held, Past
<1>5. \A x \in Writers : x # w => txn'[x] = txn[x]
  BY <1>1, TxnStep DEF Replace, Goto, Leave
<1>6. \A x \in Writers : WriterSound(x)'
  <2>1. CASE Leave(w)
    <3>1. txn'[w] = NoTxn  BY <1>1, <2>1, TxnStep DEF Leave
    <3> QED
      <4>1. WriterSound(w)'  BY <3>1, NoTxnSound
      <4>2. ASSUME NEW x \in Writers, x # w PROVE WriterSound(x)'
        <5>1. WriterSound(x)  BY <1>1
        <5>2. txn[x].pc \notin Held  BY <1>4, <4>2, <5>1 DEF WriterSound, Locked
        <5>3. x \in Units /\ txn[x].pc # "idle" => runLock' = x
          BY <2>1, <4>2, <5>1 DEF WriterSound, Locked, Leave
        <5> QED  BY <1>1, <1>2, <1>3, <1>5, <4>2, <5>1, <5>2, <5>3, OtherSound DEF delivery
      <4> QED  BY <4>1, <4>2
  <2>2. CASE ~Leave(w)
    <3>1. txn'[w] = [txn[w] EXCEPT !.pc = "reread"] /\ UNCHANGED <<lock, runLock>>
      BY <1>1, <2>2, TxnStep DEF Replace, Goto
    <3>2. /\ txn'[w].pc = "reread" /\ txn'[w].cmd = txn[w].cmd
          /\ txn'[w].before = txn[w].before /\ txn'[w].original = txn[w].original
          /\ txn'[w].updated = txn[w].updated /\ txn'[w].raced = txn[w].raced
      BY <1>2, <3>1 DEF Txn
    <3>3. WriterSound(w)'
      <4>1. Past(w)'
        <5>0. clock' \in Nat /\ clock <= clock'  BY <1>2, <1>3
        <5>1. /\ txn[w].before.stamp <= clock'
              /\ \A s \in Services : txn[w].original.rev[s] <= clock'
              /\ \A s \in Services : txn[w].updated.rev[s] <= clock'
          BY <1>1, <1>4, <5>0, DrawnLater, Parts DEF WriterSound, Past, Drawn
        <5> QED  BY <3>2, <5>1 DEF Past, Drawn
      <4>2. Locked(w)' /\ Issued(w)' /\ Prepared(w)' /\ Compared(w)'
        BY <1>1, <1>2, <3>1, <3>2
        DEF WriterSound, Locked, Held, Issued, Prepared, Compared
      <4> QED  BY <3>2, <4>1, <4>2 DEF WriterSound, Consistent, ReadBack, Vouched
    <3>4. ASSUME NEW x \in Writers, x # w PROVE WriterSound(x)'
      <4>1. WriterSound(x)  BY <1>1
      <4>2. txn[x].pc \notin Held  BY <1>4, <3>4, <4>1 DEF WriterSound, Locked
      <4>3. x \in Units /\ txn[x].pc # "idle" => runLock' = x
        BY <3>1, <4>1 DEF WriterSound, Locked
      <4> QED  BY <1>1, <1>2, <1>3, <1>5, <3>4, <4>1, <4>2, <4>3, OtherSound DEF delivery
    <3> QED  BY <3>3, <3>4
  <2> QED  BY <2>1, <2>2
<1>7. FileSound'
  <2>1. Drawn(file.doc)' /\ file'.stamp <= clock'
    <3>1. Drawn(txn[w].updated) => \A s \in Services : txn[w].updated.rev[s] <= clock'
      BY <1>2, <1>3 DEF Drawn, Document
    <3> QED  BY <1>2, <1>3, <1>4, <3>1 DEF Drawn
  <2>2. \A e \in Editors : (copy[e] # None => Drawn(copy[e]))'
    BY <1>1, <1>2, <1>3, Parts, DrawnLater DEF FileSound
  <2> QED  BY <1>3, <2>1, <2>2 DEF FileSound
<1>8. DeliverySound'
  <2>1. runLock = None => runLock' = None  BY WritersFact DEF Replace, Leave
  <2> QED  BY <1>1, <1>3, <2>1 DEF DeliverySound, DeliveredWasSaved, DeliveredIsComplete,
                                    SuccessIsCurrent, delivery
<1> QED  BY <1>6, <1>7, <1>8 DEF StoreIInv

\* Project() publishes what was read back, while no success stands.
LEMMA ProjectStep ==
  ASSUME StoreIInv, StoreTypeOK', NEW u \in Units, Project(u)
  PROVE  StoreIInv'
<1>1. /\ u \in Writers /\ StoreTypeOK /\ FileSound /\ DeliverySound
      /\ \A x \in Writers : WriterSound(x)
  BY WritersFact DEF StoreIInv
<1>2. txn[u] \in Txn /\ txn[u].pc = "project" /\ txn[u].saved \in File
  BY <1>1, Parts DEF Project, At
<1>3. /\ document' = Projection(txn[u].saved.doc) /\ projected' = txn[u].saved.stamp
      /\ UNCHANGED <<file, clock, runLock, copy, success, versions, reported>>
      /\ lock' = None
  BY DEF Project
<1>4. lock = u /\ runLock = u /\ Complete(txn[u].saved.doc)
      /\ Projection(txn[u].saved.doc) \in versions
  BY <1>1, <1>2 DEF WriterSound, Locked, Held, ReadBack
<1>5. document' # None  BY <1>2, <1>3, ProjectionType DEF File
<1>6. /\ txn'[u] = [txn[u] EXCEPT !.pc = "notify"]
      /\ \A x \in Writers : x # u => txn'[x] = txn[x]
  BY <1>1, TxnStep DEF Project, Goto
<1>7. /\ txn'[u].pc = "notify" /\ txn'[u].cmd = txn[u].cmd
      /\ txn'[u].before = txn[u].before /\ txn'[u].original = txn[u].original
      /\ txn'[u].updated = txn[u].updated /\ txn'[u].raced = txn[u].raced
      /\ txn'[u].saved = txn[u].saved
  BY <1>2, <1>6 DEF Txn
<1>8. \A x \in Writers : WriterSound(x)'
  <2>1. WriterSound(u)'
    BY <1>1, <1>3, <1>4, <1>5, <1>7
    DEF WriterSound, Locked, Held, Issued, Past, Drawn, Consistent, Prepared, Compared,
        ReadBack, Vouched
  <2>2. ASSUME NEW x \in Writers, x # u PROVE WriterSound(x)'
    <3>1. WriterSound(x)  BY <1>1
    <3>2. txn[x].pc \notin Held  BY <1>4, <2>2, <3>1 DEF WriterSound, Locked
    <3>3. ~(x \in Units /\ txn[x].pc # "idle")
      BY <1>4, <2>2, <3>1 DEF WriterSound, Locked
    <3>4. clock' \in Nat /\ clock <= clock'  BY <1>1, <1>3 DEF StoreTypeOK
    <3> QED  BY <1>1, <1>3, <1>6, <2>2, <3>1, <3>2, <3>3, <3>4, OtherSound
  <2> QED  BY <2>1, <2>2
<1>9. FileSound'
  <2>1. clock' \in Nat /\ clock <= clock'  BY <1>1, <1>3 DEF StoreTypeOK
  <2> QED  BY <1>1, <1>3, <2>1, FileSame
<1>10. DeliverySound'
  <2>1. DeliveredWasSaved'  BY <1>3, <1>4 DEF DeliveredWasSaved
  <2>2. DeliveredIsComplete'
    BY <1>3, <1>4 DEF DeliveredIsComplete, Complete, Projection
  <2>3. SuccessIsCurrent'
    BY <1>1, <1>3, <1>4, WritersFact DEF DeliverySound, SuccessIsCurrent
  <2> QED  BY <2>1, <2>2, <2>3 DEF DeliverySound
<1> QED  BY <1>8, <1>9, <1>10 DEF StoreIInv

\* Notify() vouches for what the same run projected.
LEMMA NotifyStep ==
  ASSUME StoreIInv, StoreTypeOK', NEW u \in Units, Notify(u)
  PROVE  StoreIInv'
<1>1. /\ u \in Writers /\ StoreTypeOK /\ FileSound /\ DeliverySound
      /\ \A x \in Writers : WriterSound(x)
  BY WritersFact DEF StoreIInv
<1>2. txn[u] \in Txn /\ txn[u].pc = "notify"  BY <1>1, Parts DEF Notify, At
<1>3. /\ UNCHANGED <<file, clock, copy, document, versions, projected>>
      /\ reported' = txn[u].saved.stamp /\ Leave(u)
  BY DEF Notify
<1>4. runLock = u /\ document # None /\ projected = txn[u].saved.stamp
  BY <1>1, <1>2 DEF WriterSound, Locked, Vouched
<1>5. txn'[u] = NoTxn /\ \A x \in Writers : x # u => txn'[x] = txn[x]
  BY <1>1, <1>3, TxnStep DEF Leave
<1>6. clock' \in Nat /\ clock <= clock'  BY <1>1, <1>3 DEF StoreTypeOK
<1>7. \A x \in Writers : WriterSound(x)'
  <2>1. WriterSound(u)'  BY <1>1, <1>5, NoTxnSound
  <2>2. ASSUME NEW x \in Writers, x # u PROVE WriterSound(x)'
    <3>1. WriterSound(x)  BY <1>1
    <3>2. txn[x].pc \in Held => lock' = x
      BY <1>3, <2>2, <3>1 DEF WriterSound, Locked, Leave
    <3>3. ~(x \in Units /\ txn[x].pc # "idle")
      BY <1>4, <2>2, <3>1 DEF WriterSound, Locked
    <3> QED  BY <1>1, <1>3, <1>5, <1>6, <2>2, <3>1, <3>2, <3>3, OtherSound
  <2> QED  BY <2>1, <2>2
<1>8. FileSound'  BY <1>1, <1>3, <1>6, FileSame
<1>9. DeliverySound'
  <2>1. runLock' = None  BY <1>3, <1>4 DEF Leave
  <2>2. DeliveredWasSaved' /\ DeliveredIsComplete'
    BY <1>1, <1>3 DEF DeliverySound, DeliveredWasSaved, DeliveredIsComplete
  <2>3. SuccessIsCurrent'  BY <1>3, <1>4, <2>1 DEF SuccessIsCurrent
  <2> QED  BY <2>2, <2>3 DEF DeliverySound
<1> QED  BY <1>7, <1>8, <1>9 DEF StoreIInv

\* Open() only takes a copy.
LEMMA OpenStep ==
  ASSUME StoreIInv, StoreTypeOK', NEW e \in Editors, Open(e)
  PROVE  StoreIInv'
<1>1. StoreTypeOK /\ FileSound /\ DeliverySound /\ \A x \in Writers : WriterSound(x)
  BY DEF StoreIInv
<1>2. /\ UNCHANGED <<file, clock, lock, runLock, txn, versions, delivery>>
      /\ copy' = [copy EXCEPT ![e] = file.doc]
  BY DEF Open
<1>3. \A x \in Writers : WriterSound(x)'
  BY <1>1, <1>2
  DEF WriterSound, Locked, Issued, Past, Drawn, Consistent, Prepared, Compared, ReadBack,
      Vouched, delivery
<1>4. FileSound'
  <2>1. \A x \in Editors : copy'[x] = IF x = e THEN file.doc ELSE copy[x]
    BY <1>1, <1>2 DEF StoreTypeOK
  <2> QED  BY <1>1, <1>2, <2>1 DEF FileSound, Drawn
<1>5. DeliverySound'
  BY <1>1, <1>2 DEF DeliverySound, DeliveredWasSaved, DeliveredIsComplete, SuccessIsCurrent,
                    delivery
<1> QED  BY <1>3, <1>4, <1>5 DEF StoreIInv

\* Save() stamps the file anew, so that a comparison notices it; after the
\* comparison it marks the writer as raced.
LEMMA SaveEditStep ==
  ASSUME StoreIInv, StoreTypeOK', NEW e \in Editors, Save(e)
  PROVE  StoreIInv'
<1>1. StoreTypeOK /\ FileSound /\ DeliverySound /\ \A x \in Writers : WriterSound(x)
  BY DEF StoreIInv
<1>2. copy[e] \in Document /\ Drawn(copy[e]) /\ clock \in Nat /\ file.stamp \in Nat
  BY <1>1, Parts DEF Save, FileSound
<1>3. PICK d \in Edits(copy[e]) : /\ file' = [doc |-> d, stamp |-> clock + 1]
                                 /\ versions' = versions \cup {Projection(d)}
  BY DEF Save
<1>4. d.rev = copy[e].rev  BY <1>2, <1>3 DEF Edits, Document
<1>5. /\ clock' = clock + 1 /\ UNCHANGED <<lock, runLock, delivery>>
      /\ copy' = [copy EXCEPT ![e] = None]
  BY DEF Save
<1>n. clock' \in Nat /\ clock <= clock'  BY <1>2, <1>5
<1>6. \A x \in Writers :
        /\ txn'[x].pc = txn[x].pc /\ txn'[x].cmd = txn[x].cmd
        /\ txn'[x].before = txn[x].before /\ txn'[x].original = txn[x].original
        /\ txn'[x].updated = txn[x].updated /\ txn'[x].saved = txn[x].saved
  <2> SUFFICES ASSUME NEW x \in Writers
               PROVE  /\ txn'[x].pc = txn[x].pc /\ txn'[x].cmd = txn[x].cmd
                      /\ txn'[x].before = txn[x].before
                      /\ txn'[x].original = txn[x].original
                      /\ txn'[x].updated = txn[x].updated
                      /\ txn'[x].saved = txn[x].saved
    OBVIOUS
  <2>1. txn'[x] = [txn[x] EXCEPT !.raced = txn[x].raced \/ At(x, "replace")]
    BY DEF Save
  <2>2. txn[x] \in Txn  BY <1>1, Parts
  <2> QED  BY <2>1, <2>2, RacedOnly
<1>7. \A x \in Writers : txn[x].pc = "replace" => txn'[x].raced = TRUE
  <2> SUFFICES ASSUME NEW x \in Writers, txn[x].pc = "replace" PROVE txn'[x].raced = TRUE
    OBVIOUS
  <2>1. txn'[x] = [txn[x] EXCEPT !.raced = txn[x].raced \/ At(x, "replace")]
    BY DEF Save
  <2>2. At(x, "replace")  BY DEF At
  <2>3. (txn[x].raced \/ At(x, "replace")) = TRUE  BY <2>2
  <2> QED  BY <1>1, <2>1, <2>3, Parts DEF Txn
<1>8. \A x \in Writers : WriterSound(x)'
  <2> SUFFICES ASSUME NEW x \in Writers PROVE WriterSound(x)'  OBVIOUS
  <2>1. WriterSound(x)  BY <1>1
  <2>2. txn[x].before.stamp \in Nat /\ txn[x].before.stamp <= clock
    BY <1>1, <2>1, Parts DEF WriterSound, Past
  <2>3. txn'[x].before.stamp # file'.stamp  BY <1>2, <1>3, <1>6, <2>2
  <2>4. Past(x)'
    <3>1. /\ \A s \in Services : txn[x].original.rev[s] <= clock'
          /\ \A s \in Services : txn[x].updated.rev[s] <= clock'
      BY <1>1, <1>n, <2>1, DrawnLater, Parts DEF WriterSound, Past, Drawn
    <3>2. txn[x].before.stamp <= clock'  BY <1>2, <1>5, <2>2
    <3> QED  BY <1>6, <3>1, <3>2 DEF Past, Drawn
  <2>5. Locked(x)' /\ Issued(x)' /\ Prepared(x)'
    BY <1>5, <1>6, <2>1 DEF WriterSound, Locked, Issued, Prepared
  <2>6. Consistent(x)'  BY <2>3 DEF Consistent
  <2>7. Compared(x)'  BY <1>6, <1>7 DEF Compared
  <2>8. ReadBack(x)' /\ Vouched(x)'
    BY <1>3, <1>5, <1>6, <2>1 DEF WriterSound, ReadBack, Vouched, delivery
  <2> QED  BY <2>4, <2>5, <2>6, <2>7, <2>8 DEF WriterSound
<1>9. FileSound'
  <2>1. file'.stamp <= clock'  BY <1>2, <1>3, <1>5
  <2>2. Drawn(file.doc)'
    <3>1. \A s \in Services : copy[e].rev[s] <= clock'
      BY <1>2, <1>5 DEF Drawn, Document
    <3> QED  BY <1>3, <1>4, <3>1 DEF Drawn
  <2>3. \A x \in Editors : (copy[x] # None => Drawn(copy[x]))'
    <3>1. \A x \in Editors : copy'[x] = IF x = e THEN None ELSE copy[x]
      BY <1>1, <1>5 DEF StoreTypeOK
    <3>2. \A x \in Editors : copy[x] # None => \A s \in Services : copy[x].rev[s] <= clock'
      BY <1>1, <1>n, Parts, DrawnLater DEF FileSound, Drawn
    <3> QED  BY <3>1, <3>2 DEF Drawn
  <2> QED  BY <1>3, <2>1, <2>2, <2>3 DEF FileSound
<1>10. DeliverySound'
  BY <1>1, <1>3, <1>5 DEF DeliverySound, DeliveredWasSaved, DeliveredIsComplete,
                          SuccessIsCurrent, delivery
<1> QED  BY <1>8, <1>9, <1>10 DEF StoreIInv

\* Every step keeps the invariant.
LEMMA StoreIInvStep == StoreIInv /\ [StoreNext]_storeVars => StoreIInv'
<1> SUFFICES ASSUME StoreIInv, [StoreNext]_storeVars PROVE StoreIInv'
  OBVIOUS
<1>t. StoreTypeOK'  BY StoreTypeStep DEF StoreIInv
<1>u. Units \subseteq Writers /\ Admins \subseteq Writers /\ Units \cap Admins = {}
  BY WritersFact, ProcessAssumption
<1>1. ASSUME NEW u \in Units, StartRun(u) PROVE StoreIInv'
  BY <1>1, <1>t, StartRunStep
<1>2. ASSUME NEW u \in Units, BeginUnit(u) PROVE StoreIInv'
  BY <1>2, <1>t, <1>u, BeginStep DEF BeginUnit, At
<1>3. ASSUME NEW a \in Admins, BeginAdmin(a) PROVE StoreIInv'
  BY <1>3, <1>t, <1>u, BeginStep DEF BeginAdmin
<1>4. ASSUME NEW u \in Units, EnrollRefused(u) PROVE StoreIInv'
  BY <1>4, <1>t, <1>u, LeaveIInv DEF EnrollRefused
<1>5. ASSUME NEW u \in Units, Reread(u) \/ Project(u) \/ Notify(u) PROVE StoreIInv'
  BY <1>5, <1>t, RereadStep, ProjectStep, NotifyStep
<1>6. ASSUME NEW w \in Writers, SaveStep(w) PROVE StoreIInv'
  BY <1>6, <1>t, DecryptStep, EnrollStep, EncryptStep, CompareStep, ReplaceStep DEF SaveStep
<1>7. ASSUME NEW w \in Writers, Abort(w) PROVE StoreIInv'
  BY <1>7, <1>t, LeaveIInv DEF Abort
<1>8. ASSUME NEW e \in Editors, Open(e) \/ Save(e) PROVE StoreIInv'
  BY <1>8, <1>t, OpenStep, SaveEditStep
<1>9. CASE UNCHANGED storeVars
  <2>1. StoreTypeOK /\ FileSound /\ DeliverySound /\ \A x \in Writers : WriterSound(x)
    BY DEF StoreIInv
  <2>2. \A x \in Writers : WriterSound(x)'
    BY <1>9, <2>1
    DEF storeVars, WriterSound, Locked, Issued, Past, Drawn, Consistent, Prepared, Compared,
        ReadBack, Vouched
  <2>3. FileSound'  BY <1>9, <2>1 DEF storeVars, FileSound, Drawn
  <2>4. DeliverySound'
    BY <1>9, <2>1 DEF storeVars, DeliverySound, DeliveredWasSaved, DeliveredIsComplete,
                      SuccessIsCurrent
  <2> QED  BY <1>t, <2>2, <2>3, <2>4 DEF StoreIInv
<1> QED
  BY <1>1, <1>2, <1>3, <1>4, <1>5, <1>6, <1>7, <1>8, <1>9 DEF StoreNext, UnitStep

-----------------------------------------------------------------------------
(* The theorems *)

\* The inductive invariant is an invariant.
THEOREM StoreInvariant == StoreSpec => []StoreIInv
<1> QED  BY StoreIInvInit, StoreIInvStep, PTL DEF StoreSpec

\* What the publishers read was, as a whole, a version of the encrypted file:
\* no value is delivered that a failed run generated.
THEOREM OnlySavedIsDelivered == StoreSpec => []DeliveredWasSaved
<1>1. StoreIInv => DeliveredWasSaved  BY DEF StoreIInv, DeliverySound
<1> QED  BY <1>1, StoreInvariant, PTL

\* Every field that is delivered has a usable value, whatever editors did.
THEOREM OnlyCompleteIsDelivered == StoreSpec => []DeliveredIsComplete
<1>1. StoreIInv => DeliveredIsComplete  BY DEF StoreIInv, DeliverySound
<1> QED  BY <1>1, StoreInvariant, PTL

\* A success in status.json vouches for the document.json that is there.
THEOREM StatusTellsTheTruth == StoreSpec => []SuccessIsCurrent
<1>1. StoreIInv => SuccessIsCurrent  BY DEF StoreIInv, DeliverySound
<1> QED  BY <1>1, StoreInvariant, PTL

\* A save that no edit overtakes replaces the very document it was computed
\* from by a permitted outcome for it.
LEMMA ReplaceIsTransaction ==
  ASSUME StoreIInv, NEW w \in Writers, Replace(w), ~txn[w].raced
  PROVE  Outcome(file.doc, txn[w].cmd, file'.doc)
<1>1. StoreTypeOK /\ WriterSound(w)  BY DEF StoreIInv
<1>2. txn[w] \in Txn /\ txn[w].pc = "replace"  BY <1>1, Parts DEF Replace, At
<1>3. txn[w].raced = FALSE
  <2>1. txn[w].raced \in BOOLEAN  BY <1>2 DEF Txn
  <2> QED  BY <2>1
<1>4. txn[w].original = file.doc
  BY <1>1, <1>2, <1>3 DEF WriterSound, Compared, Consistent
<1>5. file'.doc = txn[w].updated  BY DEF Replace
<1> QED  BY <1>1, <1>2, <1>4, <1>5 DEF WriterSound, Prepared

\* SavesAreTransactions for every instance of the constants.
THEOREM SavesReplaceWhatTheyRead == StoreSpec => SavesAreTransactions
<1>1. StoreIInv /\ [StoreNext]_storeVars =>
        [\A w \in Writers :
           Replace(w) /\ ~txn[w].raced => Outcome(file.doc, txn[w].cmd, file'.doc)]_storeVars
  BY ReplaceIsTransaction
<1> QED  BY <1>1, StoreInvariant, PTL DEF StoreSpec, SavesAreTransactions

\* Such a save keeps what is stored, unless the command chooses otherwise.
LEMMA ReplaceKeepsValues ==
  ASSUME StoreIInv, NEW w \in Writers, Replace(w), ~txn[w].raced, Plain(txn[w].cmd),
         NEW f \in Fields, Candidates(file.doc, f) # {}
  PROVE  Candidates(file'.doc, f) = Candidates(file.doc, f)
<1>1. Outcome(file.doc, txn[w].cmd, file'.doc)  BY ReplaceIsTransaction
<1>2. file.doc \in Document /\ txn[w].cmd \in Command /\ file'.doc \in Document
  BY Parts DEF StoreIInv, Replace
<1> QED  BY <1>1, <1>2, PlainOutcomeKeeps

\* StoredValuesSurvive for every instance of the constants: consolidating the
\* older copies loses no credential and invents none beside a stored one.
THEOREM StoredValuesKept == StoreSpec => StoredValuesSurvive
<1>1. StoreIInv /\ [StoreNext]_storeVars =>
        [\A w \in Writers :
           Replace(w) /\ ~txn[w].raced /\ Plain(txn[w].cmd) =>
             \A f \in Fields :
               Candidates(file.doc, f) # {} =>
                 Candidates(file'.doc, f) = Candidates(file.doc, f)]_storeVars
  BY ReplaceKeepsValues
<1> QED  BY <1>1, StoreInvariant, PTL DEF StoreSpec, StoredValuesSurvive

\* The vault's transactions are those of the store.
LEMMA VaultOutcome ==
  ASSUME NEW d, NEW c, NEW e
  PROVE  Vault!Outcome(d, c, e) <=> Outcome(d, c, e)
BY DEF Vault!Outcome, Outcome, Vault!MayComplete, MayComplete, Vault!Accepts, Accepts,
       Vault!MayFail, MayFail, Vault!AsksApplication, AsksApplication,
       Vault!FieldsOf, FieldsOf, Vault!Choices, Choices, Vault!Candidates, Candidates,
       Vault!Initial, Initial

\* Only a save, and an edit, changes the file.
LEMMA FileChanges ==
  ASSUME StoreNext, file' # file
  PROVE  (\E w \in Writers : Replace(w)) \/ Editors # {}
BY DEF StoreNext, StartRun, UnitStep, BeginUnit, BeginAdmin, Begin, EnrollRefused, SaveStep,
       Decrypt, Enroll, Encrypt, Compare, Reread, Project, Notify, Abort

\* Without an unlocked writer every save is a transaction of the vault.
LEMMA ReplaceIsVaultStep ==
  ASSUME Editors = {}, StoreIInv, NEW w \in Writers, Replace(w), file'.doc # file.doc
  PROVE  Vault!Next
<1>1. WriterSound(w)  BY DEF StoreIInv
<1>2. ~txn[w].raced  BY <1>1 DEF WriterSound, Compared
<1>3. Outcome(file.doc, txn[w].cmd, file'.doc)  BY <1>2, ReplaceIsTransaction
<1>4. txn[w].cmd \in Vault!ManualCommands \cup {Vault!AutoCommand}
  <2>1. Vault!Command = Command /\ Vault!NoPick = NoPick
    BY DEF Vault!Command, Command, Vault!Sources, Sources, Vault!NoPick, NoPick
  <2>2. Vault!AutoCommand = AutoCommand  BY <2>1 DEF Vault!AutoCommand, AutoCommand
  <2>3. Vault!ManualCommands = ManualCommands
    BY <2>1 DEF Vault!ManualCommands, ManualCommands, Vault!ForOneService, ForOneService
  <2> QED  BY <1>1, <2>2, <2>3 DEF WriterSound, Issued
<1> QED  BY <1>3, <1>4, VaultOutcome DEF Vault!Next, Vault!Transact

\* Without an unlocked writer the store implements the atomic vault.
THEOREM StoreImplementsVault ==
  ASSUME Editors = {}
  PROVE  StoreSpec => ImplementsVault
<1>1. StoreInit => Vault!Init  BY DEF StoreInit, Vault!Init
<1>2. StoreIInv /\ [StoreNext]_storeVars => [Vault!Next]_(file.doc)
  BY FileChanges, ReplaceIsVaultStep DEF storeVars
<1> QED  BY <1>1, <1>2, StoreInvariant, PTL DEF StoreSpec, ImplementsVault, Vault!Spec

-----------------------------------------------------------------------------
(* No needless writes *)

\* Every field has a usable value, and the older copies are gone.
Settled(d) == \A f \in Fields : d.canon[f] \in Values /\ d.prev[f] = None

\* An automatic run that succeeds settles the document.
LEMMA AutoOutcomeSettles ==
  ASSUME NEW d \in Document, NEW e \in Document, Outcome(d, AutoCommand, e)
  PROVE  Settled(e)
<1>1. PICK ok \in SUBSET AutoCommand.services :
        /\ MayComplete(d, AutoCommand, ok)
        /\ \A f \in Fields : Owner[f] \in ok => e.prev[f] = None
  BY DEF Outcome
<1>2. ok = Services  BY <1>1 DEF MayComplete, AutoCommand
<1>3. \A f \in Fields : e.canon[f] \in Values  BY AutoOutcomeComplete
<1> QED  BY <1>1, <1>2, <1>3, OwnerAssumption DEF Settled

\* A settled document is all that an automatic run can make of it: a second run
\* does nothing.
LEMMA SettledStays ==
  ASSUME NEW d \in Document, NEW e \in Document, Settled(d), Outcome(d, AutoCommand, e)
  PROVE  e = d
<1>1. PICK ok \in SUBSET AutoCommand.services :
        /\ MayComplete(d, AutoCommand, ok)
        /\ e.user = d.user
        /\ \A f \in Fields :
             Owner[f] \in ok => e.canon[f] \in Choices(d, AutoCommand, f) /\ e.prev[f] = None
        /\ \A s \in Services :
             IF s \in ok /\ (AutoCommand.restore \/ AutoCommand.rotate)
               THEN e.rev[s] # d.rev[s] ELSE e.rev[s] = d.rev[s]
  BY DEF Outcome
<1>2. ok = Services  BY <1>1 DEF MayComplete, AutoCommand
<1>3. \A f \in Fields : e.canon[f] = d.canon[f]
  <2> SUFFICES ASSUME NEW f \in Fields PROVE e.canon[f] = d.canon[f]  OBVIOUS
  <2>1. e.canon[f] \in Choices(d, AutoCommand, f)  BY <1>1, <1>2, OwnerAssumption
  <2>2. Candidates(d, f) = {d.canon[f]}
    BY EntryAssumption DEF Settled, Candidates
  <2>3. Choices(d, AutoCommand, f) = {v \in Values : Candidates(d, f) = {v}}
    BY <2>2 DEF Choices, AutoCommand, NoPick
  <2> QED  BY <2>1, <2>2, <2>3
<1>4. \A f \in Fields : e.prev[f] = d.prev[f]
  BY <1>1, <1>2, OwnerAssumption DEF Settled
<1>5. \A s \in Services : e.rev[s] = d.rev[s]
  <2>1. ~AutoCommand.restore /\ ~AutoCommand.rotate  BY DEF AutoCommand
  <2> QED  BY <1>1, <2>1
<1>6. e.canon = d.canon /\ e.prev = d.prev /\ e.rev = d.rev
  BY <1>3, <1>4, <1>5 DEF Document
<1> QED  BY <1>1, <1>6 DEF Document

\* What is about to be saved differs from what was decrypted.
Differs(w) ==
  txn[w].pc \in {"encrypt", "compare", "replace"} => txn[w].updated # txn[w].original

\* No writer is about to save what it has read.
LEMMA DiffersStep ==
  ASSUME StoreTypeOK, \A w \in Writers : Differs(w), [StoreNext]_storeVars
  PROVE  \A w \in Writers : Differs(w)'
<1> SUFFICES ASSUME NEW x \in Writers PROVE Differs(x)'  OBVIOUS
<1>0. txn \in [Writers -> Txn] /\ Differs(x)  BY DEF StoreTypeOK
<1>t. txn[x] \in Txn  BY <1>0
<1>u. Units \subseteq Writers /\ Admins \subseteq Writers  BY WritersFact
\* The transaction is left alone, ends, or is only relabelled.
<1>s. ASSUME txn'[x] = txn[x] PROVE Differs(x)'  BY <1>0, <1>s DEF Differs
<1>n. ASSUME txn'[x] = NoTxn PROVE Differs(x)'  BY <1>n DEF Differs, NoTxn
<1>g. ASSUME NEW step, txn'[x] = [txn[x] EXCEPT !.pc = step],
             \/ step \notin {"encrypt", "compare", "replace"}
             \/ txn[x].pc \in {"encrypt", "compare", "replace"}
      PROVE  Differs(x)'
  BY <1>0, <1>t, <1>g DEF Differs, Txn
<1>l. ASSUME NEW w \in Writers, Leave(w) PROVE Differs(x)'
  BY <1>0, <1>l, <1>s, <1>n DEF Leave
<1>1. ASSUME NEW u \in Units, StartRun(u) PROVE Differs(x)'
  BY <1>0, <1>1, <1>u, <1>s, <1>g DEF StartRun, Goto
<1>2. ASSUME NEW w \in Writers, NEW c, Begin(w, c) PROVE Differs(x)'
  <2>1. CASE x # w  BY <1>0, <1>2, <1>s, <2>1 DEF Begin
  <2>2. CASE x = w
    <3>1. txn'[x] = [txn[x] EXCEPT !.pc = "decrypt", !.cmd = c, !.before = file]
      BY <1>0, <1>2, <2>2 DEF Begin
    <3>2. txn'[x].pc = "decrypt"  BY <1>t, <3>1 DEF Txn
    <3> QED  BY <3>2 DEF Differs
  <2> QED  BY <2>1, <2>2
<1>3. ASSUME NEW w \in Writers, Decrypt(w) PROVE Differs(x)'
  <2>1. CASE x # w  BY <1>0, <1>3, <1>s, <2>1 DEF Decrypt
  <2>2. CASE x = w
    <3>1. txn'[x] = [txn[x] EXCEPT !.pc = "enroll", !.original = file.doc]
      BY <1>0, <1>3, <2>2 DEF Decrypt
    <3>2. txn'[x].pc = "enroll"  BY <1>t, <3>1 DEF Txn
    <3> QED  BY <3>2 DEF Differs
  <2> QED  BY <2>1, <2>2
\* An enrollment that changes nothing is not on the way to a save.
<1>4. ASSUME NEW w \in Writers, Enroll(w) PROVE Differs(x)'
  <2>1. CASE Leave(w)  BY <1>l, <2>1
  <2>2. CASE ~Leave(w)
    <3>1. PICK e : txn' = [txn EXCEPT ![w] =
                      [txn[w] EXCEPT !.pc = IF e = txn[w].original THEN "reread" ELSE "encrypt",
                                     !.updated = e]]
      BY <1>4, <2>2 DEF Enroll
    <3>2. CASE x # w  BY <1>0, <1>s, <3>1, <3>2
    <3>3. CASE x = w
      <4>1. /\ txn'[x].pc = IF e = txn[x].original THEN "reread" ELSE "encrypt"
            /\ txn'[x].updated = e /\ txn'[x].original = txn[x].original
        BY <1>0, <1>t, <3>1, <3>3 DEF Txn
      <4> QED  BY <4>1 DEF Differs
    <3> QED  BY <3>2, <3>3
  <2> QED  BY <2>1, <2>2
<1>5. ASSUME NEW w \in Writers, Encrypt(w) PROVE Differs(x)'
  BY <1>0, <1>5, <1>l, <1>s, <1>g DEF Encrypt, Goto, At
<1>6. ASSUME NEW w \in Writers, Compare(w) PROVE Differs(x)'
  BY <1>0, <1>6, <1>l, <1>s, <1>g DEF Compare, Goto, At
<1>7. ASSUME NEW w \in Writers, Replace(w) PROVE Differs(x)'
  BY <1>0, <1>7, <1>l, <1>s, <1>g DEF Replace, Goto
<1>8. ASSUME NEW u \in Units, Reread(u) PROVE Differs(x)'
  <2>1. CASE Leave(u)  BY <1>l, <1>u, <2>1
  <2>2. CASE ~Leave(u)
    <3>1. txn' = [txn EXCEPT ![u] = [txn[u] EXCEPT !.pc = "project", !.saved = file]]
      BY <1>8, <2>2 DEF Reread
    <3>2. CASE x # u  BY <1>0, <1>s, <3>1, <3>2
    <3>3. CASE x = u
      <4>1. txn'[x].pc = "project"  BY <1>0, <1>t, <3>1, <3>3 DEF Txn
      <4> QED  BY <4>1 DEF Differs
    <3> QED  BY <3>2, <3>3
  <2> QED  BY <2>1, <2>2
<1>9. ASSUME NEW u \in Units, Project(u) PROVE Differs(x)'
  BY <1>0, <1>9, <1>u, <1>s, <1>g DEF Project, Goto
<1>10. ASSUME NEW w \in Writers, Abort(w) \/ EnrollRefused(w) \/ Notify(w) PROVE Differs(x)'
  BY <1>10, <1>l DEF Abort, EnrollRefused, Notify
<1>11. ASSUME NEW e \in Editors, Open(e) PROVE Differs(x)'
  BY <1>11, <1>s DEF Open
<1>12. ASSUME NEW e \in Editors, Save(e) PROVE Differs(x)'
  <2>1. txn'[x] = [txn[x] EXCEPT !.raced = txn[x].raced \/ At(x, "replace")]
    BY <1>12 DEF Save
  <2>2. /\ txn'[x].pc = txn[x].pc /\ txn'[x].updated = txn[x].updated
        /\ txn'[x].original = txn[x].original
    BY <1>t, <2>1, RacedOnly
  <2> QED  BY <1>0, <2>2 DEF Differs
<1>13. CASE UNCHANGED storeVars  BY <1>13, <1>s DEF storeVars
<1> QED
  BY <1>1, <1>2, <1>3, <1>4, <1>5, <1>6, <1>7, <1>8, <1>9, <1>10, <1>11, <1>12, <1>13, <1>u
  DEF StoreNext, UnitStep, SaveStep, BeginUnit, BeginAdmin

\* No reachable state has a writer on the way to save what it has read.
LEMMA AlwaysDiffers == StoreSpec => [](\A w \in Writers : Differs(w))
<1>1. StoreInit => \A w \in Writers : Differs(w)  BY DEF StoreInit, Differs, NoTxn
<1>2. StoreTypeOK /\ (\A w \in Writers : Differs(w)) /\ [StoreNext]_storeVars
        => (\A w \in Writers : Differs(w))'
  BY DiffersStep
<1> QED  BY <1>1, <1>2, StoreTyped, PTL DEF StoreSpec

\* A save that no edit overtakes changes the document: the encrypted file is not
\* written anew for nothing.
LEMMA ReplaceChanges ==
  ASSUME StoreIInv, NEW w \in Writers, Differs(w), Replace(w), ~txn[w].raced
  PROVE  file'.doc # file.doc
<1>1. WriterSound(w) /\ txn[w].raced \in BOOLEAN  BY Parts DEF StoreIInv, Txn
<1>2. txn[w].pc = "replace" /\ txn[w].raced = FALSE  BY <1>1 DEF Replace, At
<1>3. txn[w].original = file.doc  BY <1>1, <1>2 DEF WriterSound, Compared, Consistent
<1>4. file'.doc = txn[w].updated  BY DEF Replace
<1> QED  BY <1>2, <1>3, <1>4 DEF Differs

\* A step that writes the encrypted file without being overtaken changes it, and
\* one of an enrollment unit settles what was not.
NeededWrite ==
  /\ \A w \in Writers : Replace(w) /\ ~txn[w].raced => file'.doc # file.doc
  /\ \A u \in Units : Replace(u) /\ ~txn[u].raced =>
       ~Settled(file.doc) /\ Settled(file'.doc)

\* Every write is needed.
LEMMA WritesAreNeeded == StoreIInv /\ (\A w \in Writers : Differs(w)) => NeededWrite
<1> SUFFICES ASSUME StoreIInv, \A w \in Writers : Differs(w) PROVE NeededWrite
  OBVIOUS
<1>1. ASSUME NEW u \in Units, Replace(u), ~txn[u].raced
      PROVE  ~Settled(file.doc) /\ Settled(file'.doc)
  <2>1. u \in Writers /\ WriterSound(u)  BY <1>1, WritersFact DEF StoreIInv
  <2>2. Outcome(file.doc, AutoCommand, file'.doc)
    BY <1>1, <2>1, ReplaceIsTransaction DEF WriterSound, Issued
  <2>3. file.doc \in Document /\ file'.doc \in Document
    BY <1>1, <2>1, Parts DEF StoreIInv, Replace
  <2>4. file'.doc # file.doc  BY <1>1, <2>1, ReplaceChanges
  <2> QED  BY <2>2, <2>3, <2>4, AutoOutcomeSettles, SettledStays
<1> QED  BY <1>1, ReplaceChanges DEF NeededWrite

\* The enrollment units, which the timer starts for ever, write the encrypted
\* file only when there is something to settle, and once they have, they leave
\* it alone until somebody else changes it.
THEOREM UnitsWriteOnlyUnsettled == StoreSpec => [][NeededWrite]_storeVars
<1>1. StoreIInv /\ (\A w \in Writers : Differs(w)) => [NeededWrite]_storeVars
  BY WritesAreNeeded
<1> QED  BY <1>1, StoreInvariant, AlwaysDiffers, PTL
=============================================================================
