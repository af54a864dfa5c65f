------------------------- MODULE ServiceBackupProofs -------------------------
(***************************************************************************)
(* Proofs about ServiceBackup, for any services and any number of scripts, *)
(* writes and crashes.                                                     *)
(***************************************************************************)
EXTENDS ServiceBackup, ElasticsearchSnapshotProofs

-----------------------------------------------------------------------------
(* Types *)

ScriptTyped ==
  /\ active \subseteq Units /\ starting \subseteq Units /\ active \cap starting = {}
  /\ files \in [Services -> Contents]
  /\ script \in Scripts
  /\ staging \in Copies /\ borg \in Copies /\ latest \in Copies
  /\ refreshing \in BOOLEAN
  /\ before \subseteq Units /\ hurt \subseteq Units
  /\ missed \subseteq Units
  /\ unfinished \subseteq Services /\ released \subseteq unfinished
  /\ runs \in 0..MaxRuns /\ writes \in 0..MaxWrites /\ crashes \in 0..MaxCrashes
  /\ Place("idle") \/ runs \in Names

\* Typed but for live # None, which CallInv adds.
Typed == CallTyped /\ ScriptTyped

LEMMA ScriptsTyped ==
  ASSUME NEW k \in {"backup", "restore"}, NEW p \in Places
  PROVE  /\ Script(k, p) \in Scripts
         /\ Script(k, p).at = p /\ Script(k, p).kind = k /\ Script(k, p).todo = {}
         /\ Script(k, p).stopped = {} /\ ~Script(k, p).mutated
BY DEF Script, Scripts

LEMMA CopiesTyped ==
  Nothing \in Copies /\ Earlier \in Copies /\ ~Nothing.missed /\ Consistent(Nothing)
  /\ ~Earlier.missed /\ Consistent(Earlier)
<1> None \in Contents /\ 0 \in Contents  BY Markers
<1>1. Nothing \in Copies /\ Earlier \in Copies  BY DEF Nothing, Earlier, Copies
<1>2. Engine \in Units /\ Services \subseteq Units  BY DEF Units
<1> QED  BY <1>1, <1>2 DEF Nothing, Earlier, Consistent

LEMMA UnitsAre ==
  /\ Services \subseteq Units /\ Engine \in Units /\ Engine \notin Services
  /\ Database \in Services
  /\ \A u \in Units : u # Engine => u \in Services
BY BackupAssumption DEF Units

\* The parts of a script that a step changes keep their types.
LEMMA EnterTyped ==
  ASSUME script \in Scripts, NEW p \in Places, NEW S \in SUBSET Units, Enter(p, S)
  PROVE  /\ script' \in Scripts
         /\ script'.at = p /\ script'.todo = S /\ script'.kind = script.kind
         /\ script'.stopped = script.stopped /\ script'.mutated = script.mutated
         /\ script'.code = script.code
BY DEF Enter, Scripts

LEMMA PassTyped ==
  ASSUME script \in Scripts, NEW u, Pass(u)
  PROVE  /\ script' \in Scripts
         /\ script'.at = script.at /\ script'.todo = script.todo \ {u}
         /\ script'.kind = script.kind
         /\ script'.stopped = script.stopped /\ script'.mutated = script.mutated
         /\ script'.code = script.code
BY DEF Pass, Scripts

LEMMA RestartTyped ==
  ASSUME script \in Scripts, NEW u, Restart(u)
  PROVE  /\ script'.at = script.at /\ script'.kind = script.kind
         /\ script'.mutated = script.mutated /\ script'.stopped \subseteq script.stopped
         /\ script'.todo = script.todo \ {u} /\ script.at \in {"restart", "cleanup"}
<1>1. \/ script' = [script EXCEPT !.todo = @ \ {u}, !.stopped = @ \ {u}]
      \/ script' = [script EXCEPT !.todo = @ \ {u}]
  BY DEF Restart, Pass
<1>2. script.at \in {"restart", "cleanup"}  BY DEF Restart, Place
<1> QED  BY <1>1, <1>2 DEF Scripts

LEMMA ExitTyped ==
  ASSUME script \in Scripts, NEW c \in {"ok", "error", "signal"}, Exit(c)
  PROVE  /\ script' \in Scripts
         /\ script'.at = "cleanup" /\ script'.kind = script.kind
         /\ script'.stopped = script.stopped /\ script'.mutated = script.mutated
         /\ script'.code = c
         /\ script'.todo = IF c = "error" /\ script.mutated THEN {} ELSE script.stopped
         /\ released' = IF c = "signal" /\ script.mutated THEN unfinished ELSE released
BY DEF Exit, Scripts, Places

\* Of the snapshot's state the scripts change nothing but by these.
LEMMA TypedInit == Init => Typed /\ CallInv
<1> SUFFICES ASSUME Init PROVE Typed /\ CallInv  OBVIOUS
<1> USE Markers
<1>1. /\ live = 0 /\ exports = [n \in Names |-> None] /\ registered = {} /\ busy = {}
      /\ restoring = NoCall /\ helper = Idle
  BY DEF Init, SnapshotInit
<1>2. CallTyped  BY <1>1, IdleTyped DEF CallTyped, At
<1>3. CallInv  BY <1>1, IdleTyped DEF CallInv, RegisteredKeepTheirDirectory
<1>4. /\ active \subseteq Units /\ starting = {} /\ before = {} /\ hurt = {} /\ missed = {}
      /\ unfinished = {} /\ released = {} /\ refreshing = FALSE
  BY DEF Init
<1>5. files \in [Services -> Contents]  BY DEF Init
<1>6. script \in Scripts /\ Place("idle")
  BY ScriptsTyped DEF Init, Place, Places
<1>7. staging \in Copies /\ borg \in Copies /\ latest \in Copies  BY CopiesTyped DEF Init
<1>8. runs \in 0..MaxRuns /\ writes \in 0..MaxWrites /\ crashes \in 0..MaxCrashes
  <2>1. runs = 0 /\ writes = 0 /\ crashes = 0  BY DEF Init
  <2> QED  BY <2>1, BackupAssumption
<1> QED  BY <1>2, <1>3, <1>4, <1>5, <1>6, <1>7, <1>8 DEF Typed, ScriptTyped

LEMMA SnapshotUnchanged == CallTyped /\ UNCHANGED snapshotVars => CallTyped'
BY DEF CallTyped, snapshotVars, At, name

\* Steps that stop and start units.
LEMMA UnitStepsTyped ==
  ASSUME Typed, NEW u \in Units,
         StopUnit(u) \/ Record(u) \/ Skip(u) \/ Restart(u)
  PROVE  Typed'
<1> USE DEF Typed, ScriptTyped, unitVars, archives, restoreVars, counters, Place
<1>1. CASE StopUnit(u)  BY <1>1, SnapshotUnchanged DEF StopUnit
<1>2. CASE Record(u)
  <2>1. script' \in Scripts /\ script'.at = script.at  BY <1>2 DEF Record, Scripts
  <2> QED  BY <1>2, <2>1, SnapshotUnchanged DEF Record
<1>3. CASE Skip(u)
  <2>1. script' \in Scripts /\ script'.at = script.at  BY <1>3, PassTyped DEF Skip
  <2>2. staging' \in Copies  BY <1>3 DEF Skip, Copies
  <2> QED  BY <1>3, <2>1, <2>2, SnapshotUnchanged DEF Skip
<1>4. CASE Restart(u)
  <2>1. script' \in Scripts /\ script'.at = script.at  BY <1>4 DEF Restart, Pass, Scripts
  <2>2. /\ active' \subseteq Units /\ starting' \subseteq Units /\ active' \cap starting' = {}
        /\ hurt' \subseteq Units
    BY <1>4 DEF Restart
  <2> QED  BY <1>4, <2>1, <2>2, SnapshotUnchanged DEF Restart
<1> QED  BY <1>1, <1>2, <1>3, <1>4

\* Steps of both scripts, at their ends.
LEMMA EndStepsTyped ==
  ASSUME Typed, Restarted \/ CleanedUp \/ Kill \/ \E c \in {"error", "signal"} : Break(c)
  PROVE  Typed'
<1> USE DEF Typed, ScriptTyped, unitVars, archives, restoreVars, counters, Place
<1>1. CASE Restarted
  <2>1. script' \in Scripts /\ script'.at # "idle" /\ released' \subseteq unfinished
    <3>1. CASE Exit("error")  BY <3>1, ExitTyped
    <3>2. CASE Exit("ok")  BY <3>2, ExitTyped
    <3>3. CASE Enter("create", {}) /\ UNCHANGED released  BY <3>3, EnterTyped DEF Places
    <3> QED  BY <1>1, <3>1, <3>2, <3>3 DEF Restarted
  <2>2. runs \in Names  BY <1>1 DEF Restarted
  <2> QED  BY <1>1, <2>1, <2>2, SnapshotUnchanged DEF Restarted
<1>2. CASE Vanish
  <2>1. script' \in Scripts /\ script'.at = "idle"  BY <1>2, ScriptsTyped DEF Vanish, Places
  <2> QED  BY <1>2, <2>1, CopiesTyped, DieKeepsTypes DEF Vanish
<1>3. ASSUME NEW c \in {"error", "signal"}, Break(c) PROVE Typed'
  <2>1. script' \in Scripts /\ script'.at # "idle" /\ released' \subseteq unfinished
    BY <1>3, ExitTyped DEF Break
  <2>2. runs \in Names  BY <1>3 DEF Break
  <2> QED  BY <1>3, <2>1, <2>2, DieKeepsTypes DEF Break
<1> QED  BY <1>1, <1>2, <1>3 DEF CleanedUp, Kill

LEMMA StartTyped ==
  ASSUME Typed, NEW k \in {"backup", "restore"}, NEW p \in Places, NEW a \in Copies,
         Start(k, p, a)
  PROVE  Typed'
<1> USE DEF Typed, ScriptTyped, unitVars, archives, restoreVars, Place
<1>1. script' \in Scripts  BY ScriptsTyped DEF Start
<1>2. runs' \in 0..MaxRuns /\ runs' \in Names
  <2>1. runs' = runs + 1 /\ runs < MaxRuns  BY DEF Start
  <2> QED  BY <2>1, BackupAssumption
<1> QED  BY <1>1, <1>2, SnapshotUnchanged DEF Start

\* Steps of a backup.
LEMMA BackupStepsTyped ==
  ASSUME Typed,
         \/ StartBackup \/ Check \/ Dump \/ Dumped \/ Copy \/ Copied \/ Create \/ Refreshed
         \/ \E u \in Units : Refresh(u)
         \/ \E s \in Services : CopyOut(s)
  PROVE  Typed'
<1> USE DEF Typed, ScriptTyped, unitVars, archives, restoreVars, counters, Place
<1>1. CASE StartBackup  BY <1>1, StartTyped, CopiesTyped DEF StartBackup, Places
<1>2. CASE Check
  <2>1. Enter("stop", Services) /\ runs \in Names  BY <1>2 DEF Check
  <2>2. script' \in Scripts /\ script'.at = "stop"  BY <2>1, EnterTyped, UnitsAre DEF Places
  <2> QED  BY <1>2, <2>1, <2>2, SnapshotUnchanged DEF Check
<1>3. CASE Dump
  <2>1. Enter("dump", {}) /\ runs \in Names /\ Call("backup", runs, None)  BY <1>3 DEF Dump
  <2>2. script' \in Scripts /\ script'.at = "dump"  BY <2>1, EnterTyped DEF Places
  <2>3. CallTyped'  BY <2>1, CallKeepsTypes, Markers
  <2> QED  BY <1>3, <2>1, <2>2, <2>3 DEF Dump
<1>4. CASE Dumped
  <2>1. Enter("stopEngine", {Engine}) /\ runs \in Names  BY <1>4 DEF Dumped
  <2>2. script' \in Scripts /\ script'.at = "stopEngine"
    BY <2>1, EnterTyped, UnitsAre DEF Places
  <2>3. staging' \in Copies
    <3>1. [u \in Units |-> IF u = Engine THEN live ELSE files[u]] \in [Units -> Contents]
      BY UnitsAre DEF CallTyped
    <3>2. helper.archive \in Contents  BY DEF CallTyped, Calls
    <3> QED  BY <1>4, <3>1, <3>2 DEF Dumped, Copies
  <2> QED  BY <1>4, <2>1, <2>2, <2>3, DieKeepsTypes DEF Dumped
<1>5. CASE Copy
  <2>1. Enter("copy", Services) /\ runs \in Names  BY <1>5 DEF Copy
  <2>2. script' \in Scripts /\ script'.at = "copy"  BY <2>1, EnterTyped, UnitsAre DEF Places
  <2> QED  BY <1>5, <2>1, <2>2, SnapshotUnchanged DEF Copy
<1>6. CASE Copied
  <2>1. Enter("restart", script.stopped) /\ runs \in Names  BY <1>6 DEF Copied
  <2>2. script' \in Scripts /\ script'.at = "restart"
    BY <2>1, EnterTyped DEF Places, Scripts
  <2> QED  BY <1>6, <2>1, <2>2, SnapshotUnchanged DEF Copied
<1>7. CASE Create
  <2>1. Enter("refresh", Units) /\ runs \in Names  BY <1>7 DEF Create
  <2>2. script' \in Scripts /\ script'.at = "refresh"  BY <2>1, EnterTyped DEF Places
  <2> QED  BY <1>7, <2>1, <2>2, SnapshotUnchanged DEF Create
<1>8. CASE Refreshed
  <2>1. Exit("ok") /\ runs \in Names  BY <1>8 DEF Refreshed
  <2>2. script' \in Scripts /\ script'.at = "cleanup" /\ released' \subseteq unfinished
    BY <2>1, ExitTyped
  <2> QED  BY <1>8, <2>1, <2>2, SnapshotUnchanged DEF Refreshed
<1>9. ASSUME NEW u \in Units, Refresh(u) PROVE Typed'
  <2>1. script' \in Scripts /\ script'.at = script.at  BY <1>9, PassTyped DEF Refresh
  <2>2. latest' \in Copies
    <3>1. Partial \in Contents  BY Markers
    <3> QED  BY <1>9, <3>1 DEF Refresh, Copies
  <2> QED  BY <1>9, <2>1, <2>2, SnapshotUnchanged DEF Refresh
<1>10. ASSUME NEW s \in Services, CopyOut(s) PROVE Typed'
  <2>1. script' \in Scripts /\ script'.at = script.at  BY <1>10, PassTyped DEF CopyOut
  <2>2. PICK c \in {files[s]} \cup {Partial} : staging' = [staging EXCEPT !.files[s] = c]
    BY <1>10 DEF CopyOut
  <2>3. c \in Contents  BY Markers
  <2>4. staging' \in Copies  BY <2>2, <2>3 DEF Copies
  <2> QED  BY <1>10, <2>1, <2>4, SnapshotUnchanged DEF CopyOut
<1> QED  BY <1>1, <1>2, <1>3, <1>4, <1>5, <1>6, <1>7, <1>8, <1>9, <1>10

\* Steps of a restore.
LEMMA RestoreStepsTyped ==
  ASSUME Typed,
         \/ StartRestore \/ ValidateSource \/ CopyBack \/ StartEngine \/ Imported \/ AllAgain
         \/ \E s \in Services : CopyBegin(s) \/ CopyEnd(s) \/ Again(s)
  PROVE  Typed'
<1> USE DEF Typed, ScriptTyped, unitVars, archives, restoreVars, counters, Place
<1>1. CASE StartRestore  BY <1>1, StartTyped DEF StartRestore, Places
<1>2. CASE ValidateSource
  <2>1. Enter("stop", Units) /\ runs \in Names  BY <1>2 DEF ValidateSource
  <2>2. script' \in Scripts /\ script'.at = "stop"  BY <2>1, EnterTyped DEF Places
  <2> QED  BY <1>2, <2>1, <2>2, SnapshotUnchanged DEF ValidateSource
<1>3. CASE CopyBack
  <2>1. Enter("copyBack", Services) /\ runs \in Names  BY <1>3 DEF CopyBack
  <2>2. script' \in Scripts /\ script'.at = "copyBack"
    BY <2>1, EnterTyped, UnitsAre DEF Places
  <2> QED  BY <1>3, <2>1, <2>2, SnapshotUnchanged DEF CopyBack
<1>4. CASE StartEngine
  <2>1. /\ Enter("import", {}) /\ runs \in Names
        /\ Call("restore", runs, staging.dump) /\ staging.dump \in Contents
    BY <1>4 DEF StartEngine, Copies
  <2>2. script' \in Scripts /\ script'.at = "import"  BY <2>1, EnterTyped DEF Places
  <2>3. CallTyped'  BY <2>1, CallKeepsTypes
  <2> QED  BY <1>4, <2>1, <2>2, <2>3, UnitsAre DEF StartEngine
<1>5. CASE Imported
  <2>1. runs \in Names /\ script.stopped \in SUBSET Units  BY <1>5 DEF Imported, Scripts
  <2>2. script' \in Scripts /\ script'.at # "idle"
    BY <1>5, <2>1, EnterTyped, UnitsAre DEF Imported, Places
  <2> QED  BY <1>5, <2>1, <2>2, DieKeepsTypes DEF Imported
<1>6. CASE AllAgain
  <2>1. Enter("restart", script.stopped) /\ runs \in Names  BY <1>6 DEF AllAgain
  <2>2. script' \in Scripts /\ script'.at = "restart"
    BY <2>1, EnterTyped DEF Places, Scripts
  <2> QED  BY <1>6, <2>1, <2>2, SnapshotUnchanged DEF AllAgain
<1>7. ASSUME NEW s \in Services, CopyBegin(s) PROVE Typed'
  <2>1. script' \in Scripts /\ script'.at = script.at  BY <1>7 DEF CopyBegin, Scripts
  <2>2. files' \in [Services -> Contents]  BY <1>7, Markers DEF CopyBegin
  <2> QED  BY <1>7, <2>1, <2>2, SnapshotUnchanged DEF CopyBegin
<1>8. ASSUME NEW s \in Services, CopyEnd(s) PROVE Typed'
  <2>1. script' \in Scripts /\ script'.at = script.at  BY <1>8, PassTyped DEF CopyEnd
  <2>2. files' \in [Services -> Contents]
    <3>1. staging.files[s] \in Contents  BY DEF Copies
    <3> QED  BY <1>8, <3>1 DEF CopyEnd
  <2> QED  BY <1>8, <2>1, <2>2, SnapshotUnchanged DEF CopyEnd
<1>9. ASSUME NEW s \in Services, Again(s) PROVE Typed'
  <2>1. script' \in Scripts /\ script'.at # "idle" /\ released' \subseteq unfinished
    BY <1>9, PassTyped, ExitTyped DEF Again
  <2>2. s \in Units /\ runs \in Names  BY <1>9, UnitsAre DEF Again
  <2>3. /\ active' \subseteq Units /\ starting' \subseteq Units /\ active' \cap starting' = {}
        /\ hurt' \subseteq Units
    BY <1>9, <2>2 DEF Again
  <2> QED  BY <1>9, <2>1, <2>2, <2>3, SnapshotUnchanged DEF Again
<1> QED  BY <1>1, <1>2, <1>3, <1>4, <1>5, <1>6, <1>7, <1>8, <1>9

\* What goes on beside the scripts.
LEMMA OtherStepsTyped ==
  ASSUME Typed,
         \/ Helper \/ \E n \in Names : Background(n)
         \/ \E s \in Services : Write(s) \/ Crash(s) \/ Started(s)
  PROVE  Typed'
<1> USE DEF Typed, ScriptTyped, unitVars, archives, restoreVars, counters, Place
<1>1. CASE Helper  BY <1>1, HelperKeepsTypes DEF Helper
<1>2. ASSUME NEW n \in Names, Background(n) PROVE Typed'
  BY <1>2, CompleteKeepsTypes DEF Background
<1>3. ASSUME NEW s \in Services, Write(s) PROVE Typed'
  <2>1. writes' = writes + 1 /\ writes < MaxWrites /\ UNCHANGED crashes /\ UNCHANGED runs
    BY <1>3 DEF Write
  <2>2. writes' \in 0..MaxWrites /\ writes + 1 \in Contents
    BY <2>1, BackupAssumption, Markers
  <2>3. files' \in [Services -> Contents] /\ live' \in Contents
    BY <1>3, <2>2 DEF Write, CallTyped
  <2>4. CallTyped'  BY <1>3, <2>3 DEF Write, CallTyped, At, name
  <2> QED  BY <1>3, <2>2, <2>3, <2>4 DEF Write
<1>4. ASSUME NEW s \in Services, Crash(s) PROVE Typed'
  <2>1. crashes' = crashes + 1 /\ crashes < MaxCrashes  BY <1>4 DEF Crash
  <2>2. crashes' \in 0..MaxCrashes  BY <2>1, BackupAssumption
  <2>3. active' \subseteq Units /\ starting' \subseteq Units /\ active' \cap starting' = {}
    BY <1>4, UnitsAre DEF Crash
  <2> QED  BY <1>4, <2>2, <2>3, SnapshotUnchanged DEF Crash
<1>5. ASSUME NEW s \in Services, Started(s) PROVE Typed'
  <2>3. active' \subseteq Units /\ starting' \subseteq Units /\ active' \cap starting' = {}
    BY <1>5, UnitsAre DEF Started
  <2> QED  BY <1>5, <2>3, SnapshotUnchanged DEF Started
<1> QED  BY <1>1, <1>2, <1>3, <1>4, <1>5

\* Every step keeps the types.
LEMMA TypedStep == Typed /\ [Next]_vars => Typed'
<1> SUFFICES ASSUME Typed, [Next]_vars PROVE Typed'  OBVIOUS
<1>1. CASE UNCHANGED vars
  BY <1>1, SnapshotUnchanged
  DEF vars, Typed, ScriptTyped, unitVars, archives, restoreVars, counters, Place
<1> QED
  BY <1>1, UnitStepsTyped, EndStepsTyped, BackupStepsTyped, RestoreStepsTyped, OtherStepsTyped
  DEF Next

-----------------------------------------------------------------------------
(* Where a script is *)

BackupPlaces == {"check", "dump", "stopEngine", "copy", "create", "refresh"}
RestorePlaces == {"validate", "copyBack", "import", "again"}

\* Both scripts go through "stop", "restart" and "cleanup"; only a restore
\* changes anything, and a helper belongs to the script that waits for it.
PlaceInv ==
  /\ script.at \in BackupPlaces => script.kind = "backup"
  /\ script.at \in RestorePlaces => script.kind = "restore"
  /\ script.kind = "backup" => ~script.mutated
  /\ ~At("idle") =>
       /\ script.at \in {"dump", "import"} /\ helper.op = script.kind /\ name = runs

LEMMA PlaceInit == Init => PlaceInv
BY ScriptsTyped, IdleTyped DEF Init, SnapshotInit, PlaceInv, At, Places, BackupPlaces, RestorePlaces

\* Every step keeps scripts and helpers together.
LEMMA PlaceStep == Typed /\ PlaceInv /\ [Next]_vars => PlaceInv'
<1> SUFFICES ASSUME Typed, PlaceInv, [Next]_vars PROVE PlaceInv'  OBVIOUS
<1> USE DEF PlaceInv, Place, At, BackupPlaces, RestorePlaces
<1> script \in Scripts /\ helper \in Calls  BY DEF Typed, ScriptTyped, CallTyped
<1>0. helper' = Idle => helper'.at = "idle"  BY IdleTyped
<1>1. ASSUME NEW u \in Units, StopUnit(u) \/ Record(u) \/ Skip(u) \/ Restart(u) \/ Refresh(u)
      PROVE  PlaceInv'
  <2>1. /\ script'.at = script.at /\ script'.kind = script.kind
        /\ script'.mutated = script.mutated
    BY <1>1 DEF StopUnit, Record, Skip, Restart, Refresh, Pass, Scripts
  <2>2. UNCHANGED <<helper, runs>>
    BY <1>1 DEF StopUnit, Record, Skip, Restart, Refresh, snapshotVars, counters
  <2> QED  BY <2>1, <2>2 DEF name
<1>2. CASE Restarted
  <2>1. /\ script'.at \in {"cleanup", "create"} /\ script'.kind = script.kind
        /\ script'.mutated = script.mutated
        /\ script'.at = "create" => script.kind = "backup"
    BY <1>2, ExitTyped, EnterTyped DEF Restarted, Places
  <2> QED  BY <1>2, <2>1 DEF Restarted, snapshotVars, counters, name
<1>3. CASE Vanish  BY <1>0, <1>3, ScriptsTyped DEF Vanish, Die, Places
<1>4. ASSUME NEW c \in {"error", "signal"}, Break(c) PROVE PlaceInv'
  BY <1>0, <1>4, ExitTyped DEF Break, Die
<1>5. CASE StartBackup \/ StartRestore
  <2>1. PICK p \in {"check", "validate"}, k \in {"backup", "restore"} :
          script' = Script(k, p) /\ (p = "check" => k = "backup") /\ (p = "validate" => k = "restore")
    BY <1>5 DEF StartBackup, StartRestore, Start
  <2>2. script'.at = p /\ script'.kind = k /\ ~script'.mutated
    BY <2>1, ScriptsTyped DEF Places
  <2>3. helper' = helper /\ Place("idle")
    BY <1>5 DEF StartBackup, StartRestore, Start, snapshotVars
  <2> QED  BY <2>1, <2>2, <2>3
<1>6. CASE Check \/ Copy \/ Copied \/ Create \/ ValidateSource \/ CopyBack \/ AllAgain
  <2>1. PICK p \in {"stop", "copy", "restart", "refresh", "copyBack"}, S \in SUBSET Units : Enter(p, S)
    BY <1>6, UnitsAre
    DEF Check, Copy, Copied, Create, ValidateSource, CopyBack, AllAgain, Scripts
  <2>2. script'.at = p /\ script'.kind = script.kind /\ script'.mutated = script.mutated
    BY <2>1, EnterTyped DEF Places
  <2>3. helper' = helper /\ script.at \notin {"dump", "import"}
    BY <1>6 DEF Check, Copy, Copied, Create, ValidateSource, CopyBack, AllAgain, snapshotVars
  <2>4. (p \in {"copy", "refresh"} => script.kind = "backup") /\ (p = "copyBack" => script.kind = "restore")
    BY <1>6, <2>2
    DEF Check, Copy, Copied, Create, ValidateSource, CopyBack, AllAgain, Enter, Scripts
  <2> QED  BY <2>2, <2>3, <2>4
<1>7. CASE Dump
  <2>1. Enter("dump", {}) /\ Call("backup", runs, None) /\ runs' = runs /\ script.kind = "backup"
    BY <1>7 DEF Dump, counters
  <2>2. script'.at = "dump" /\ script'.kind = script.kind /\ script'.mutated = script.mutated
    BY <2>1, EnterTyped DEF Places
  <2> QED  BY <2>1, <2>2 DEF Call, name
<1>8. CASE Dumped
  <2>1. Enter("stopEngine", {Engine}) /\ Die /\ script.kind = "backup"  BY <1>8 DEF Dumped
  <2>2. script'.at = "stopEngine" /\ script'.kind = script.kind /\ script'.mutated = script.mutated
    BY <2>1, EnterTyped, UnitsAre DEF Places
  <2> QED  BY <1>0, <2>1, <2>2 DEF Die
<1>9. CASE Refreshed  BY <1>9, ExitTyped DEF Refreshed, snapshotVars
<1>10. CASE StartEngine
  <2>1. /\ Enter("import", {}) /\ Call("restore", runs, staging.dump) /\ runs' = runs
        /\ script.kind = "restore"
    BY <1>10 DEF StartEngine, counters
  <2>2. script'.at = "import" /\ script'.kind = script.kind /\ script'.mutated = script.mutated
    BY <2>1, EnterTyped DEF Places
  <2> QED  BY <2>1, <2>2 DEF Call, name
<1>11. CASE Imported
  <2>1. Die /\ script.kind = "restore"  BY <1>11 DEF Imported
  <2>2. script'.at \in {"again", "restart"} /\ script'.kind = script.kind
    BY <1>11 DEF Imported, Enter, Scripts
  <2> QED  BY <1>0, <2>1, <2>2 DEF Die
<1>12. ASSUME NEW s \in Services, CopyOut(s) \/ CopyEnd(s) PROVE PlaceInv'
  <2>1. Pass(s) /\ UNCHANGED <<helper, runs>>
    BY <1>12 DEF CopyOut, CopyEnd, snapshotVars, counters
  <2> QED  BY <2>1, PassTyped DEF name
<1>13. ASSUME NEW s \in Services, CopyBegin(s) PROVE PlaceInv'
  <2>1. script'.at = "copyBack" /\ script'.kind = "restore"  BY <1>13 DEF CopyBegin, Scripts
  <2>2. UNCHANGED <<helper, runs>> /\ Place("copyBack")
    BY <1>13 DEF CopyBegin, snapshotVars, counters
  <2> QED  BY <2>1, <2>2
<1>14. ASSUME NEW s \in Services, Again(s) PROVE PlaceInv'
  <2>1. script'.at \in {"again", "cleanup"} /\ script'.kind = "restore"
    BY <1>14, PassTyped, ExitTyped DEF Again
  <2>2. UNCHANGED <<helper, runs>> /\ Place("again")
    BY <1>14 DEF Again, snapshotVars, counters
  <2> QED  BY <2>1, <2>2
<1>15. CASE Helper
  BY <1>15, HelperUsesItsName DEF Helper, counters, name, Typed
<1>16. ASSUME NEW n \in Names, Background(n) PROVE PlaceInv'
  BY <1>16 DEF Background, Complete, counters, name
<1>17. ASSUME NEW s \in Services, Write(s) \/ Crash(s) \/ Started(s) PROVE PlaceInv'
  BY <1>17 DEF Write, Crash, Started, snapshotVars, counters, name
<1>18. CASE UNCHANGED vars  BY <1>18 DEF vars, snapshotVars, counters, name
<1> QED
  BY <1>1, <1>2, <1>3, <1>4, <1>5, <1>6, <1>7, <1>8, <1>9, <1>10, <1>11, <1>12, <1>13,
     <1>14, <1>15, <1>16, <1>17, <1>18 DEF Next, CleanedUp, Kill

\* No name is used twice.
NamesInv ==
  /\ CallInv
  /\ \A n \in registered \cup busy : n \in 1..runs
  /\ script.at \in {"check", "validate", "stop", "copyBack"} => Unknown(runs)

LEMMA NamesInit == Init => NamesInv
BY TypedInit, ScriptsTyped DEF Init, SnapshotInit, NamesInv, Places

LEMMA CallInvKept == CallInv /\ UNCHANGED snapshotVars => CallInv'
BY DEF CallInv, snapshotVars, RegisteredKeepTheirDirectory, Unknown, name

\* Every step keeps directories of known repositories, and names fresh.
LEMMA NamesStep == Typed /\ PlaceInv /\ NamesInv /\ [Next]_vars => NamesInv'
<1> SUFFICES ASSUME Typed, PlaceInv, NamesInv, [Next]_vars PROVE NamesInv'  OBVIOUS
<1> USE DEF NamesInv, Place, At, counters
<1> DEFINE Early == {"check", "validate", "stop", "copyBack"}
<1> script \in Scripts /\ helper \in Calls /\ CallTyped  BY DEF Typed, ScriptTyped, CallTyped
<1>0. \A n \in registered \cup busy : n \in Names /\ n \in 1..runs
  BY DEF Typed, CallTyped
\* Steps that leave the snapshot's state alone.
<1>1. ASSUME UNCHANGED <<snapshotVars, runs>>, script'.at \in Early => script.at \in Early
      PROVE  NamesInv'
  BY <1>1, CallInvKept DEF snapshotVars, Unknown
<1>2. ASSUME Die, UNCHANGED runs, script'.at \notin Early PROVE NamesInv'
  BY <1>2, DieKeepsInv DEF Die
<1>3. ASSUME NEW u \in Units, StopUnit(u) \/ Record(u) \/ Skip(u) \/ Restart(u) \/ Refresh(u)
      PROVE  NamesInv'
  <2>1. script'.at = script.at
    BY <1>3 DEF StopUnit, Record, Skip, Restart, Refresh, Pass, Scripts
  <2> QED  BY <1>1, <1>3, <2>1 DEF StopUnit, Record, Skip, Restart, Refresh
<1>4. CASE Restarted
  <2>1. script'.at \in {"cleanup", "create"}
    BY <1>4, ExitTyped, EnterTyped DEF Restarted, Places
  <2> QED  BY <1>1, <1>4, <2>1 DEF Restarted
<1>5. CASE Vanish
  <2>1. script'.at = "idle"  BY <1>5, ScriptsTyped DEF Vanish, Places
  <2> QED  BY <1>2, <1>5, <2>1 DEF Vanish
<1>6. ASSUME NEW c \in {"error", "signal"}, Break(c) PROVE NamesInv'
  BY <1>2, <1>6, ExitTyped DEF Break
<1>7. CASE StartBackup \/ StartRestore
  <2>1. runs' = runs + 1 /\ UNCHANGED snapshotVars
    BY <1>7 DEF StartBackup, StartRestore, Start
  <2>2. runs \in Nat  BY BackupAssumption DEF Typed, ScriptTyped
  <2>3. \A n \in 1..runs : n \in 1..(runs + 1) /\ n # runs + 1  BY <2>2
  <2> QED  BY <1>0, <2>1, <2>3, CallInvKept DEF snapshotVars, Unknown
<1>8. CASE Check \/ Copy \/ Copied \/ Create \/ ValidateSource \/ CopyBack \/ AllAgain
  <2>1. script'.at \in Early => script.at \in Early
    BY <1>8 DEF Check, Copy, Copied, Create, ValidateSource, CopyBack, AllAgain, Enter, Scripts
  <2>2. UNCHANGED <<snapshotVars, runs>>
    BY <1>8 DEF Check, Copy, Copied, Create, ValidateSource, CopyBack, AllAgain
  <2> QED  BY <1>1, <2>1, <2>2
<1>9. CASE Dump
  <2>1. /\ Enter("dump", {}) /\ Call("backup", runs, None) /\ runs' = runs
        /\ script.at = "stop" /\ runs \in Names
    BY <1>9 DEF Dump, Typed, ScriptTyped
  <2>2. script'.at = "dump"  BY <2>1, EnterTyped DEF Places
  <2>3. CallInv'  BY <2>1, CallKeepsInv, Markers
  <2> QED  BY <2>1, <2>2, <2>3 DEF Call
<1>10. CASE StartEngine
  <2>1. /\ Enter("import", {}) /\ Call("restore", runs, staging.dump) /\ runs' = runs
        /\ script.at = "copyBack" /\ runs \in Names
    BY <1>10 DEF StartEngine, Typed, ScriptTyped
  <2>2. script'.at = "import"  BY <2>1, EnterTyped DEF Places
  <2>3. staging.dump \in Contents  BY DEF Typed, ScriptTyped, Copies
  <2>4. CallInv'  BY <2>1, <2>3, CallKeepsInv
  <2> QED  BY <2>1, <2>2, <2>4 DEF Call
<1>11. CASE Dumped
  <2>1. script'.at = "stopEngine"  BY <1>11, EnterTyped, UnitsAre DEF Dumped, Places
  <2> QED  BY <1>2, <1>11, <2>1 DEF Dumped
<1>12. CASE Imported
  <2>1. script'.at \in {"again", "restart"}  BY <1>12 DEF Imported, Enter, Scripts
  <2> QED  BY <1>2, <1>12, <2>1 DEF Imported
<1>13. CASE Refreshed  BY <1>1, <1>13, ExitTyped DEF Refreshed
<1>14. ASSUME NEW s \in Services, CopyOut(s) \/ CopyBegin(s) \/ CopyEnd(s) \/ Again(s)
       PROVE  NamesInv'
  <2>1. script'.at \in {script.at, "cleanup"}
    BY <1>14, PassTyped, ExitTyped DEF CopyOut, CopyBegin, CopyEnd, Again, Scripts
  <2> QED  BY <1>1, <1>14, <2>1 DEF CopyOut, CopyBegin, CopyEnd, Again
<1>15. CASE Helper
  \* The script waits, and what becomes known has the name of its run.
  <2>1. HelperStep /\ script' = script /\ runs' = runs  BY <1>15 DEF Helper
  <2>2. ~At("idle") /\ registered' \cup busy' \subseteq registered \cup busy \cup {name}
    BY <2>1, HelperUsesItsName
  <2>3. name = runs /\ script.at \notin Early /\ runs \in 1..runs
    <3>1. name = runs /\ script.at \in {"dump", "import"}  BY <2>2 DEF PlaceInv
    <3>2. runs \in Names  BY <2>2, <3>1 DEF CallTyped
    <3> QED  BY <3>1, <3>2, BackupAssumption
  <2> QED  BY <2>1, <2>2, <2>3, HelperKeepsInv
<1>16. ASSUME NEW n \in Names, Background(n) PROVE NamesInv'
  <2>1. Complete(n) /\ script' = script /\ runs' = runs  BY <1>16 DEF Background
  <2>2. registered' = registered /\ busy' \subseteq busy  BY <2>1 DEF Complete
  <2> QED  BY <2>1, <2>2, CompleteKeepsInv DEF Unknown
<1>17. ASSUME NEW s \in Services, Write(s) PROVE NamesInv'
  <2>1. UNCHANGED <<exports, registered, busy, helper, script, runs>>  BY <1>17 DEF Write
  <2>2. live' # None
    <3>1. writes + 1 \in Nat  BY BackupAssumption DEF Typed, ScriptTyped
    <3>2. live' \in {live, writes + 1}  BY <1>17 DEF Write
    <3> QED  BY <3>1, <3>2, Markers DEF CallInv
  <2> QED  BY <2>1, <2>2 DEF CallInv, RegisteredKeepTheirDirectory, Unknown, name
<1>18. ASSUME NEW s \in Services, Crash(s) \/ Started(s) PROVE NamesInv'
  BY <1>1, <1>18 DEF Crash, Started
<1>19. CASE UNCHANGED vars  BY <1>1, <1>19 DEF vars
<1> QED
  BY <1>3, <1>4, <1>5, <1>6, <1>7, <1>8, <1>9, <1>10, <1>11, <1>12, <1>13,
     <1>14, <1>15, <1>16, <1>17, <1>18, <1>19 DEF Next, CleanedUp, Kill

\* What every other proof starts from.
BaseInv == Typed /\ PlaceInv /\ NamesInv

LEMMA BaseInit == Init => BaseInv
BY TypedInit, PlaceInit, NamesInit DEF BaseInv

LEMMA BaseStep == BaseInv /\ [Next]_vars => BaseInv'
BY TypedStep, PlaceStep, NamesStep DEF BaseInv

LEMMA AlwaysBase == BackupSpec => []BaseInv
BY BaseInit, BaseStep, PTL DEF BackupSpec

\* Every variable keeps its type, live indices included: an index is never
\* restored from a repository that is not there.
THEOREM BackupAlwaysTyped == BackupSpec => []BackupTypeOK
<1>1. BaseInv => BackupTypeOK
  BY DEF BaseInv, Typed, CallTyped, ScriptTyped, NamesInv, CallInv, BackupTypeOK, SnapshotTypeOK
<1> QED  BY <1>1, AlwaysBase, PTL

\* "Never delete a still-registered repository, even when unregister fails"
\* (finally in elasticsearch-snapshot.py), whatever fails or is killed.
THEOREM RepositoriesAlwaysKeepTheirDirectory == BackupSpec => []RegisteredKeepTheirDirectory
<1>1. BaseInv => RegisteredKeepTheirDirectory  BY DEF BaseInv, NamesInv, CallInv
<1> QED  BY <1>1, AlwaysBase, PTL

-----------------------------------------------------------------------------
(* Indices *)

Kept == Whole(borg.dump) \/ Whole(latest.dump)

\* A restore has validated an archive that is still there, and no backup
\* replaces one by less than it.
SafeInv ==
  /\ live \notin Nat \/ restoring # NoCall => Kept
  /\ script.kind = "restore" /\ script.at \in {"stop", "copyBack", "import"} => Kept
  /\ Place("validate") => staging \in {borg, latest}
  /\ script.kind = "backup" /\ script.at \in {"stopEngine", "copy", "restart", "create", "refresh"}
       => Whole(staging.dump)
  /\ Place("refresh") => Whole(borg.dump)

LEMMA SafeInit == Init => SafeInv
<1> SUFFICES ASSUME Init PROVE SafeInv  OBVIOUS
<1>1. live = 0 /\ restoring = NoCall  BY DEF Init, SnapshotInit
<1>2. script.at = "idle"  BY ScriptsTyped DEF Init, Places
<1> QED  BY <1>1, <1>2 DEF SafeInv, Place

\* Every step keeps an archive of the indices while it is needed.
LEMMA SafeStep == BaseInv /\ SafeInv /\ [Next]_vars => SafeInv'
<1> SUFFICES ASSUME BaseInv, SafeInv, [Next]_vars PROVE SafeInv'  OBVIOUS
<1> USE DEF SafeInv, Place, At, Kept, archives
<1> script \in Scripts /\ helper \in Calls /\ PlaceInv /\ staging \in Copies
  BY DEF BaseInv, Typed, ScriptTyped, CallTyped
\* Steps that leave the archives and the indices alone.
<1>1. ASSUME UNCHANGED <<live, restoring, borg, latest, staging>>,
             script'.kind = script.kind, script'.at \in {script.at, "cleanup"}
      PROVE  SafeInv'
  BY <1>1
<1>2. ASSUME NEW u \in Units, StopUnit(u) \/ Record(u) \/ Restart(u) PROVE SafeInv'
  <2>1. script'.at = script.at /\ script'.kind = script.kind
    BY <1>2 DEF StopUnit, Record, Restart, Pass, Scripts
  <2> QED  BY <1>1, <1>2, <2>1 DEF StopUnit, Record, Restart, snapshotVars
<1>3. ASSUME NEW u \in Units, Skip(u) PROVE SafeInv'
  <2>1. script'.at = script.at /\ script'.kind = script.kind /\ script.at \in {"stop", "stopEngine"}
    BY <1>3, PassTyped DEF Skip
  <2>2. staging'.dump = staging.dump  BY <1>3 DEF Skip, Copies
  <2>3. UNCHANGED <<live, restoring, borg, latest>>  BY <1>3 DEF Skip, snapshotVars
  <2> QED  BY <2>1, <2>2, <2>3
<1>4. ASSUME NEW u \in Units, Refresh(u) PROVE SafeInv'
  <2>1. script'.at = script.at /\ script'.kind = script.kind /\ script.at = "refresh"
    BY <1>4, PassTyped DEF Refresh
  <2>2. UNCHANGED <<live, restoring, borg, staging>>  BY <1>4 DEF Refresh, snapshotVars
  <2> QED  BY <2>1, <2>2
<1>5. CASE Restarted
  <2>1. /\ script'.at \in {"cleanup", "create"} /\ script'.kind = script.kind
        /\ script.at = "restart" /\ (script'.at = "create" => script.kind = "backup")
    BY <1>5, ExitTyped, EnterTyped DEF Restarted, Places
  <2>2. UNCHANGED <<live, restoring, borg, latest, staging>>  BY <1>5 DEF Restarted, snapshotVars
  <2> QED  BY <2>1, <2>2
<1>6. CASE Vanish
  <2>1. script'.at = "idle"  BY <1>6, ScriptsTyped DEF Vanish, Places
  <2>2. UNCHANGED <<live, restoring, borg, latest>>  BY <1>6 DEF Vanish, Die
  <2> QED  BY <2>1, <2>2
<1>7. ASSUME NEW c \in {"error", "signal"}, Break(c) PROVE SafeInv'
  BY <1>1, <1>7, ExitTyped DEF Break, Die
<1>8. CASE StartBackup
  <2>1. script'.at = "check" /\ UNCHANGED <<live, restoring, borg, latest>>
    BY <1>8, ScriptsTyped DEF StartBackup, Start, snapshotVars, Places
  <2> QED  BY <2>1
<1>9. CASE StartRestore
  <2>1. /\ script'.at = "validate" /\ UNCHANGED <<live, restoring, borg, latest>>
        /\ staging' \in {borg, latest}
    BY <1>9, ScriptsTyped DEF StartRestore, Start, snapshotVars, Places
  <2> QED  BY <2>1
<1>10. CASE ValidateSource
  <2>1. /\ script'.at = "stop" /\ script'.kind = "restore"
        /\ Whole(staging.dump) /\ staging \in {borg, latest}
    BY <1>10, EnterTyped DEF ValidateSource, Places, PlaceInv, RestorePlaces
  <2> QED  BY <1>10, <2>1 DEF ValidateSource, snapshotVars
<1>11. CASE Check \/ CopyBack \/ AllAgain
  <2>1. /\ script'.kind = script.kind
        /\ \/ script'.at = "stop" /\ script.kind = "backup"
           \/ script'.at = "copyBack" /\ script.at = "stop" /\ script.kind = "restore"
           \/ script'.at = "restart" /\ script.kind = "restore"
    BY <1>11
    DEF Check, CopyBack, AllAgain, Enter, Scripts, PlaceInv, BackupPlaces, RestorePlaces
  <2> QED  BY <1>11, <2>1 DEF Check, CopyBack, AllAgain, snapshotVars
<1>12. CASE Copy \/ Copied
  <2>1. script'.kind = script.kind /\ script.kind = "backup" /\ script'.at \in {"copy", "restart"}
        /\ script.at \in {"stopEngine", "copy"}
    BY <1>12 DEF Copy, Copied, Enter, Scripts, PlaceInv, BackupPlaces
  <2> QED  BY <1>12, <2>1 DEF Copy, Copied, snapshotVars
<1>13. CASE Dump
  <2>1. script'.at = "dump" /\ script'.kind = script.kind  BY <1>13, EnterTyped DEF Dump, Places
  <2>2. UNCHANGED <<live, restoring, borg, latest>>  BY <1>13 DEF Dump, Call
  <2> QED  BY <2>1, <2>2
<1>14. CASE Dumped
  \* The dump has been looked at.
  <2>1. script'.at = "stopEngine"  BY <1>14, EnterTyped, UnitsAre DEF Dumped, Places
  <2>2. Whole(staging'.dump)  BY <1>14 DEF Dumped, Copies
  <2>3. UNCHANGED <<live, restoring, borg, latest>>  BY <1>14 DEF Dumped, Die
  <2> QED  BY <2>1, <2>2, <2>3
<1>15. CASE Create
  <2>1. script'.at = "refresh" /\ Whole(staging.dump)
    BY <1>15, EnterTyped DEF Create, Places, PlaceInv, BackupPlaces
  <2>2. borg' = staging /\ UNCHANGED <<live, restoring, latest, staging>>
        /\ script'.kind = script.kind
    BY <1>15, EnterTyped DEF Create, snapshotVars, Places
  <2> QED  BY <2>1, <2>2
<1>16. CASE Refreshed
  <2>1. script'.at = "cleanup" /\ Whole(borg.dump)  BY <1>16, ExitTyped DEF Refreshed
  <2> QED  BY <1>16, <2>1 DEF Refreshed, snapshotVars
<1>17. CASE StartEngine
  <2>1. script'.at = "import" /\ script'.kind = script.kind  BY <1>17, EnterTyped DEF StartEngine, Places
  <2>2. Kept  BY <1>17 DEF StartEngine, PlaceInv, RestorePlaces
  <2>3. UNCHANGED <<live, restoring, borg, latest>>  BY <1>17 DEF StartEngine, Call
  <2> QED  BY <2>1, <2>2, <2>3
<1>18. CASE Imported
  <2>1. script'.at \in {"again", "restart"} /\ script'.kind = "restore"
    BY <1>18 DEF Imported, Enter, Scripts, PlaceInv, RestorePlaces
  <2> QED  BY <1>18, <2>1 DEF Imported, Die
<1>19. ASSUME NEW s \in Services, CopyOut(s) PROVE SafeInv'
  <2>1. script'.at = script.at /\ script'.kind = script.kind  BY <1>19, PassTyped DEF CopyOut
  <2>2. staging'.dump = staging.dump /\ script.at = "copy"  BY <1>19 DEF CopyOut, Copies
  <2> QED  BY <1>19, <2>1, <2>2 DEF CopyOut, snapshotVars
<1>20. ASSUME NEW s \in Services, CopyBegin(s) \/ CopyEnd(s) \/ Again(s) PROVE SafeInv'
  <2>1. script'.at \in {script.at, "cleanup"} /\ script'.kind = script.kind
    BY <1>20, PassTyped, ExitTyped DEF CopyBegin, CopyEnd, Again, Scripts
  <2> QED  BY <1>1, <1>20, <2>1 DEF CopyBegin, CopyEnd, Again, snapshotVars
<1>21. CASE Helper
  \* Indices are deleted, or become incomplete, only in a restore.
  <2>1. UNCHANGED <<borg, latest, script, staging>>  BY <1>21 DEF Helper
  <2>2. (UNCHANGED <<live, restoring>>) \/ helper.at \in {"delete", "post"}
    BY <1>21
    DEF Helper, HelperStep, Validate, Ready, Import, Register, Snapshot, Unregister, Export,
        Look, Delete, Post, Finally, RemoveExport
  <2>3. helper.at \in {"delete", "post"} => script.kind = "restore" /\ script.at = "import"
    BY DEF PlaceInv, BackupPlaces, BaseInv, NamesInv, CallInv
  <2> QED  BY <2>1, <2>2, <2>3
<1>22. ASSUME NEW n \in Names, Background(n) PROVE SafeInv'
  <2>1. UNCHANGED <<borg, latest, script, staging>>  BY <1>22 DEF Background
  <2>2. (UNCHANGED <<live, restoring>>) \/ restoring = n  BY <1>22 DEF Background, Complete
  <2>3. n # NoCall  BY NoCallAssumption
  <2> QED  BY <2>1, <2>2, <2>3
<1>23. ASSUME NEW s \in Services, Write(s) PROVE SafeInv'
  <2>1. UNCHANGED <<borg, latest, script, staging, restoring>>  BY <1>23 DEF Write
  <2>2. live' = live \/ live' \in Nat
    <3>1. writes + 1 \in Nat  BY BackupAssumption DEF BaseInv, Typed, ScriptTyped
    <3> QED  BY <1>23, <3>1 DEF Write
  <2> QED  BY <2>1, <2>2
<1>24. ASSUME NEW s \in Services, Crash(s) \/ Started(s) PROVE SafeInv'
  BY <1>1, <1>24 DEF Crash, Started, snapshotVars
<1>25. CASE UNCHANGED vars  BY <1>1, <1>25 DEF vars, snapshotVars
<1> QED
  BY <1>2, <1>3, <1>4, <1>5, <1>6, <1>7, <1>8, <1>9, <1>10, <1>11, <1>12, <1>13,
     <1>14, <1>15, <1>16, <1>17, <1>18, <1>19, <1>20, <1>21, <1>22, <1>23, <1>24, <1>25
  DEF Next, CleanedUp, Kill

\* The indices are never lost: an archive that is complete has them while they
\* are deleted, incomplete or being restored (restore_snapshot in
\* elasticsearch-snapshot.py, validation in restore-service-configs.sh).
THEOREM SnapshotsAlwaysSafe == BackupSpec => []SnapshotsAreSafe
<1>1. BaseInv /\ SafeInv /\ [Next]_vars => (BaseInv /\ SafeInv)'  BY BaseStep, SafeStep
<1>2. BaseInv /\ SafeInv => SnapshotsAreSafe
  BY DEF BaseInv, NamesInv, CallInv, SafeInv, Kept, SnapshotsAreSafe
<1> QED  BY <1>1, <1>2, BaseInit, SafeInit, PTL DEF BackupSpec

-----------------------------------------------------------------------------
(* Units *)

Up == active \cup starting
Held == unfinished \ (missed \cup released)

\* What is held stays down: no script has recorded it, and none starts it.
HeldInv ==
  /\ Held \cap Up = {}
  /\ script.at \in {"check", "validate", "stop", "dump", "stopEngine"} => hurt \cap Up = {}
  /\ script.kind = "restore" /\ Place("stop") => Up \ script.todo \subseteq missed
  /\ script.at \in {"copyBack", "import"} => Up \cap Services \subseteq missed
  /\ script.kind = "restore" /\ script.at \in {"again", "restart"} => unfinished = {}
  /\ ~script.mutated => (script.stopped \cup hurt) \cap Held = {}
  /\ script.at \in {"restart", "cleanup"} => script.todo \cap Held = {}

LEMMA HeldInit == Init => HeldInv
<1> SUFFICES ASSUME Init PROVE HeldInv  OBVIOUS
<1>1. hurt = {} /\ unfinished = {}  BY DEF Init
<1>2. script.at = "idle"  BY ScriptsTyped DEF Init, Places
<1> QED  BY <1>1, <1>2 DEF HeldInv, Held, Place

\* An exit starts again only what is not held.
LEMMA ExitKeepsHeld ==
  ASSUME BaseInv, HeldInv, NEW c \in {"ok", "error", "signal"}, Exit(c),
         UNCHANGED <<active, starting, unfinished, missed>>, hurt' = hurt,
         script.mutated /\ c = "ok" => unfinished = {}
  PROVE  HeldInv'
<1>1. /\ script'.at = "cleanup" /\ script'.stopped = script.stopped
      /\ script'.mutated = script.mutated
      /\ script'.todo = IF c = "error" /\ script.mutated THEN {} ELSE script.stopped
      /\ released' = IF c = "signal" /\ script.mutated THEN unfinished ELSE released
  BY ExitTyped DEF BaseInv, Typed, ScriptTyped
<1>2. Held' \subseteq Held /\ Up' = Up
  BY <1>1 DEF Held, Up, BaseInv, Typed, ScriptTyped
<1>3. script'.todo \cap Held' = {}
  <2>1. CASE ~script.mutated  BY <1>1, <1>2, <2>1 DEF HeldInv
  <2>2. CASE script.mutated /\ c = "error"  BY <1>1, <2>2
  <2>3. CASE script.mutated /\ c = "signal"  BY <1>1, <2>3 DEF Held
  <2>4. CASE script.mutated /\ c = "ok"  BY <2>4 DEF Held
  <2> QED  BY <2>1, <2>2, <2>3, <2>4
<1> QED  BY <1>1, <1>2, <1>3 DEF HeldInv, Place

\* Every step leaves what is held stopped.
LEMMA HeldStep == BaseInv /\ HeldInv /\ [Next]_vars => HeldInv'
<1> SUFFICES ASSUME BaseInv, HeldInv, [Next]_vars PROVE HeldInv'  OBVIOUS
<1> USE DEF HeldInv, Place, unitVars, restoreVars
<1> /\ script \in Scripts /\ PlaceInv /\ unfinished \subseteq Services /\ released \subseteq unfinished
    /\ active \subseteq Units /\ starting \subseteq Units /\ active \cap starting = {}
  BY DEF BaseInv, Typed, ScriptTyped
\* Steps that leave the units alone and do not enter a place.
<1>1. ASSUME UNCHANGED <<active, starting, unfinished, released, missed, hurt, script>>
      PROVE  HeldInv'
  BY <1>1 DEF Held, Up
<1>2. ASSUME NEW u \in Units, StopUnit(u) PROVE HeldInv'
  <2>1. /\ script' = script /\ script.at \in {"stop", "stopEngine"}
        /\ UNCHANGED <<unfinished, released, missed>>
    BY <1>2 DEF StopUnit
  <2>2. u \in Up /\ Up' = Up \ {u} /\ hurt' = hurt \cup {u}  BY <1>2 DEF StopUnit, Up
  <2> QED  BY <2>1, <2>2 DEF Held
<1>3. ASSUME NEW u \in Units, Record(u) PROVE HeldInv'
  <2>1. /\ script'.at = script.at /\ script'.kind = script.kind
        /\ script'.mutated = script.mutated /\ script'.stopped = script.stopped \cup {u}
        /\ script'.todo = script.todo \ {u} /\ script.at \in {"stop", "stopEngine"}
    BY <1>3 DEF Record, Scripts
  <2>2. UNCHANGED <<active, starting, unfinished, released, missed>> /\ u \in hurt
        /\ hurt' = hurt \ {u}
    BY <1>3 DEF Record
  <2> QED  BY <2>1, <2>2 DEF Held, Up
<1>4. ASSUME NEW u \in Units, Skip(u) PROVE HeldInv'
  \* A unit that is up all the same was starting, and is missed.
  <2>1. /\ script'.at = script.at /\ script'.kind = script.kind
        /\ script'.mutated = script.mutated /\ script'.stopped = script.stopped
        /\ script'.todo = script.todo \ {u} /\ script.at \in {"stop", "stopEngine"}
    BY <1>4, PassTyped DEF Skip
  <2>2. /\ UNCHANGED <<active, starting, unfinished, released, hurt>>
        /\ u \notin active /\ missed' = missed \cup ({u} \cap starting)
    BY <1>4 DEF Skip
  <2> QED  BY <2>1, <2>2 DEF Held, Up
<1>5. ASSUME NEW u \in Units, Restart(u) PROVE HeldInv'
  <2>1. /\ script'.at = script.at /\ script'.kind = script.kind
        /\ script'.mutated = script.mutated /\ script'.stopped \subseteq script.stopped
        /\ script'.todo = script.todo \ {u} /\ script.at \in {"restart", "cleanup"}
    BY <1>5, RestartTyped
  <2>2. UNCHANGED <<unfinished, released, missed>> /\ u \in script.todo
    BY <1>5 DEF Restart, ChosenLast
  <2>3. Up' \subseteq Up \cup {u} /\ hurt' \subseteq hurt \cup {u}  BY <1>5 DEF Restart, Up
  <2> QED  BY <2>1, <2>2, <2>3 DEF Held
<1>6. ASSUME NEW u \in Units, Refresh(u) PROVE HeldInv'
  <2>1. /\ script'.at = script.at /\ script'.kind = script.kind /\ script.at = "refresh"
        /\ script'.mutated = script.mutated /\ script'.stopped = script.stopped
    BY <1>6, PassTyped DEF Refresh
  <2> QED  BY <1>6, <2>1 DEF Refresh, Held, Up
<1>7. CASE Restarted
  <2>1. UNCHANGED <<active, starting, unfinished, missed, hurt>> /\ script.at = "restart"
    BY <1>7 DEF Restarted
  <2>2. CASE Exit("error") \/ Exit("ok")
    <3>1. script.mutated => unfinished = {}  BY <2>1 DEF PlaceInv, Scripts
    <3> QED  BY <2>1, <2>2, <3>1, ExitKeepsHeld
  <2>3. CASE Enter("create", {}) /\ UNCHANGED released
    BY <2>1, <2>3, EnterTyped DEF Places, Held, Up
  <2> QED  BY <1>7, <2>2, <2>3 DEF Restarted
<1>8. CASE Vanish
  <2>1. script'.at = "idle" /\ script'.stopped = {} /\ hurt' = {}
    BY <1>8, ScriptsTyped DEF Vanish, Places
  <2> QED  BY <1>8, <2>1 DEF Vanish, Held, Up
<1>9. ASSUME NEW c \in {"error", "signal"}, Break(c) PROVE HeldInv'
  BY <1>9, ExitKeepsHeld DEF Break
<1>10. CASE StartBackup \/ StartRestore
  <2>1. PICK p \in {"check", "validate"}, k \in {"backup", "restore"} : script' = Script(k, p)
    BY <1>10 DEF StartBackup, StartRestore, Start
  <2>2. script'.at = p /\ script'.stopped = {}  BY <2>1, ScriptsTyped DEF Places
  <2>3. UNCHANGED <<active, starting, unfinished, released, missed>> /\ hurt' = {}
    BY <1>10 DEF StartBackup, StartRestore, Start
  <2> QED  BY <2>2, <2>3 DEF Held, Up
<1>11. ASSUME UNCHANGED <<active, starting, unfinished, released, missed, hurt>>,
              NEW p, NEW S, p \in Places, S \subseteq Units, Enter(p, S),
              \/ script.at = "check" /\ p = "stop" /\ script.kind = "backup"
              \/ script.at = "stop" /\ p = "dump"
              \/ script.at = "dump" /\ p = "stopEngine"
              \/ script.at = "validate" /\ p = "stop" /\ S = Units
              \/ script.at = "stop" /\ p = "copyBack" /\ script.todo = {} /\ script.kind = "restore"
              \/ script.kind = "restore" /\ script.at = "again" /\ p = "restart"
              \/ script.kind = "backup" /\ p = "restart" /\ S = script.stopped
              \/ p \in {"copy", "refresh"}
       PROVE  HeldInv'
  <2>1. /\ script'.at = p /\ script'.todo = S /\ script'.kind = script.kind
        /\ script'.stopped = script.stopped /\ script'.mutated = script.mutated
    BY <1>11, EnterTyped
  <2>2. Held' = Held /\ Up' = Up /\ Up \subseteq Units  BY <1>11 DEF Held, Up
  <2> QED  BY <1>11, <2>1, <2>2 DEF PlaceInv, Held
<1>12. CASE Check \/ ValidateSource \/ CopyBack \/ AllAgain
  <2>1. UNCHANGED <<active, starting, unfinished, released, missed, hurt>>
    BY <1>12 DEF Check, ValidateSource, CopyBack, AllAgain
  <2>2. CASE Check  BY <1>11, <2>1, <2>2, UnitsAre DEF Check, Places, PlaceInv, BackupPlaces
  <2>3. CASE ValidateSource  BY <1>11, <2>1, <2>3 DEF ValidateSource, Places
  <2>4. CASE CopyBack  BY <1>11, <2>1, <2>4, UnitsAre DEF CopyBack, Finished, Places
  <2>5. CASE AllAgain
    <3>1. script.kind = "restore" /\ script.at = "again" /\ Enter("restart", script.stopped)
      BY <2>5 DEF AllAgain, PlaceInv, RestorePlaces
    <3>2. script.stopped \subseteq Units /\ "restart" \in Places  BY DEF Scripts, Places
    <3> QED  BY <1>11, <2>1, <3>1, <3>2
  <2> QED  BY <1>12, <2>2, <2>3, <2>4, <2>5
<1>13. CASE Dump \/ Dumped \/ Copy \/ Copied \/ Create
  <2>1. UNCHANGED <<active, starting, unfinished, released, missed, hurt>>
    BY <1>13 DEF Dump, Dumped, Copy, Copied, Create
  <2>2. CASE Dump  BY <1>11, <2>1, <2>2 DEF Dump, Places
  <2>3. CASE Dumped  BY <1>11, <2>1, <2>3, UnitsAre DEF Dumped, Places
  <2>4. CASE Copy  BY <1>11, <2>1, <2>4, UnitsAre DEF Copy, Places
  <2>5. CASE Copied
    <3>1. script.kind = "backup" /\ Enter("restart", script.stopped)
      BY <2>5 DEF Copied, PlaceInv, BackupPlaces
    <3>2. script.stopped \subseteq Units /\ "restart" \in Places  BY DEF Scripts, Places
    <3> QED  BY <1>11, <2>1, <3>1, <3>2
  <2>6. CASE Create  BY <1>11, <2>1, <2>6 DEF Create, Places
  <2> QED  BY <1>13, <2>2, <2>3, <2>4, <2>5, <2>6
<1>14. CASE Refreshed
  <2>1. ~script.mutated  BY <1>14 DEF Refreshed, PlaceInv, BackupPlaces
  <2> QED  BY <1>14, <2>1, ExitKeepsHeld DEF Refreshed
<1>15. CASE StartEngine
  <2>1. /\ script'.at = "import" /\ script'.stopped = script.stopped
        /\ script'.mutated = script.mutated
    BY <1>15, EnterTyped DEF StartEngine, Places
  <2>2. /\ Up' = Up \cup {Engine} /\ script.at = "copyBack"
        /\ UNCHANGED <<unfinished, released, missed, hurt>>
    BY <1>15 DEF StartEngine, Up
  <2> QED  BY <2>1, <2>2, UnitsAre DEF Held
<1>16. CASE Imported
  <2>1. script'.at \in {"again", "restart"}  BY <1>16 DEF Imported, Enter, Scripts
  <2>2. unfinished' = {}  BY <1>16 DEF Imported
  <2> QED  BY <2>1, <2>2 DEF Held
<1>17. ASSUME NEW s \in Services, CopyOut(s) \/ CopyEnd(s) PROVE HeldInv'
  <2>1. /\ script'.at = script.at /\ script'.kind = script.kind
        /\ script'.mutated = script.mutated /\ script'.stopped = script.stopped
        /\ script.at \in {"copy", "copyBack"}
    BY <1>17, PassTyped DEF CopyOut, CopyEnd
  <2>2. UNCHANGED <<active, starting, unfinished, released, missed, hurt>>
    BY <1>17 DEF CopyOut, CopyEnd
  <2> QED  BY <2>1, <2>2 DEF Held, Up
<1>18. ASSUME NEW s \in Services, CopyBegin(s) PROVE HeldInv'
  \* The service is down, or was missed.
  <2>1. script'.at = "copyBack" /\ script.at = "copyBack" /\ script'.mutated
    BY <1>18 DEF CopyBegin, Scripts
  <2>2. UNCHANGED <<active, starting, missed>> /\ Held' \subseteq Held \cup ({s} \ missed)
    BY <1>18 DEF CopyBegin, Held
  <2> QED  BY <2>1, <2>2 DEF Up
<1>19. ASSUME NEW s \in Services, Again(s) PROVE HeldInv'
  <2>1. unfinished = {} /\ unfinished' = {}  BY <1>19 DEF Again, PlaceInv, RestorePlaces
  <2>2. script'.at \in {"again", "cleanup"}  BY <1>19, PassTyped, ExitTyped DEF Again
  <2> QED  BY <2>1, <2>2 DEF Held
<1>20. ASSUME Helper \/ (\E n \in Names : Background(n)) \/ (\E s \in Services : Write(s))
       PROVE  HeldInv'
  BY <1>1, <1>20 DEF Helper, Background, Write
<1>21. ASSUME NEW s \in Services, Crash(s) \/ Started(s) PROVE HeldInv'
  <2>1. Up' = Up /\ UNCHANGED <<unfinished, released, missed, hurt, script>>
    BY <1>21 DEF Crash, Started, Up
  <2> QED  BY <2>1 DEF Held
<1>22. CASE UNCHANGED vars  BY <1>1, <1>22 DEF vars
<1> QED
  BY <1>2, <1>3, <1>4, <1>5, <1>6, <1>7, <1>8, <1>9, <1>10, <1>12, <1>13,
     <1>14, <1>15, <1>16, <1>17, <1>18, <1>19, <1>20, <1>21, <1>22
  DEF Next, CleanedUp, Kill

\* A failed restore leaves what it has begun to change stopped, and so does
\* every later script (cleanup in restore-service-configs.sh).
THEOREM NothingEverRunsOnPartialState == BackupSpec => []NothingRunsOnPartialState
<1>1. BaseInv /\ HeldInv /\ [Next]_vars => (BaseInv /\ HeldInv)'  BY BaseStep, HeldStep
<1>2. HeldInv => NothingRunsOnPartialState
  BY DEF HeldInv, Held, Up, NothingRunsOnPartialState
<1> QED  BY <1>1, <1>2, BaseInit, HeldInit, PTL DEF BackupSpec

\* Nothing but a signal lets the trap start what a restore has left half
\* changed: after any other failure the exit status keeps it stopped.
LEMMA OnlySignalsRelease ==
  ASSUME [Next]_vars, [Break("signal") => ~script.mutated]_vars, released = {}
  PROVE  released' = {}
<1> USE DEF restoreVars
<1>1. ASSUME NEW c \in {"ok", "error"}, Exit(c) PROVE released' = {}
  BY <1>1 DEF Exit
<1>2. ASSUME NEW u \in Units, StopUnit(u) \/ Record(u) \/ Skip(u) \/ Restart(u) \/ Refresh(u)
      PROVE  released' = {}
  BY <1>2 DEF StopUnit, Record, Skip, Restart, Refresh
<1>3. CASE Restarted
  BY <1>1, <1>3 DEF Restarted
<1>4. CASE CleanedUp \/ Kill
  BY <1>4 DEF CleanedUp, Kill, Vanish
<1>5. ASSUME NEW c \in {"error", "signal"}, Break(c) PROVE released' = {}
  <2>1. CASE c = "error"  BY <1>1, <1>5, <2>1 DEF Break
  <2>2. CASE c = "signal" /\ UNCHANGED vars  BY <2>2 DEF vars
  <2>3. CASE c = "signal" /\ ~script.mutated  BY <1>5, <2>3 DEF Break, Exit
  <2> QED  BY <1>5, <2>1, <2>2, <2>3
<1>6. CASE \/ StartBackup \/ Check \/ Dump \/ Dumped \/ Copy \/ Copied \/ Create
           \/ StartRestore \/ ValidateSource \/ CopyBack \/ StartEngine \/ Imported \/ AllAgain
  BY <1>6 DEF StartBackup, Check, Dump, Dumped, Copy, Copied, Create, StartRestore, Start,
              ValidateSource, CopyBack, StartEngine, Imported, AllAgain
<1>7. CASE Refreshed
  BY <1>1, <1>7 DEF Refreshed
<1>8. ASSUME NEW s \in Services,
             CopyOut(s) \/ CopyBegin(s) \/ CopyEnd(s) \/ Again(s) \/ Write(s) \/ Crash(s) \/ Started(s)
      PROVE  released' = {}
  BY <1>1, <1>8 DEF CopyOut, CopyBegin, CopyEnd, Again, Write, Crash, Started
<1>9. CASE Helper \/ \E n \in Names : Background(n)
  BY <1>9 DEF Helper, Background
<1>10. CASE UNCHANGED vars
  BY <1>10 DEF vars
<1> QED
  BY <1>2, <1>3, <1>4, <1>5, <1>6, <1>7, <1>8, <1>9, <1>10 DEF Next

\* docs/storage-backups.md promises that a failed restore leaves the affected
\* applications stopped.  It does as long as no signal ends a restore that has
\* changed something: the exit status of the trap is the only way the promise
\* is broken (cleanup in restore-service-configs.sh).
THEOREM StoppedUnlessSignalled ==
  BackupSpec /\ [][Break("signal") => ~script.mutated]_vars => []FailedRestoreLeavesStopped
<1> DEFINE All == BaseInv /\ HeldInv /\ released = {}
<1>1. Init => All  BY BaseInit, HeldInit DEF Init
<1>2. All /\ [Next]_vars /\ [Break("signal") => ~script.mutated]_vars => All'
  BY BaseStep, HeldStep, OnlySignalsRelease
<1>3. All => FailedRestoreLeavesStopped
  BY DEF HeldInv, Held, Up, FailedRestoreLeavesStopped
<1> QED  BY <1>1, <1>2, <1>3, PTL DEF BackupSpec

\* What ran when a script was started runs, or is known to it.
BackInv ==
  /\ ~Place("idle") => before \subseteq Up \cup hurt \cup script.stopped
  /\ Place("cleanup") =>
       \/ script.kind = "restore" /\ script.mutated /\ script.code = "error"
       \/ script.stopped \subseteq script.todo \cup hurt

LEMMA BackInit == Init => BackInv
<1>1. Init => script.at = "idle"  BY ScriptsTyped DEF Init, Places
<1> QED  BY <1>1 DEF BackInv, Place

\* Only a restore that has changed something keeps units stopped at its exit.
LEMMA ExitKeepsBack ==
  ASSUME BaseInv, NEW c \in {"ok", "error", "signal"}, Exit(c),
         before' = before, ~Place("idle"),
         before' \subseteq Up' \cup hurt' \cup script.stopped
  PROVE  BackInv'
<1>1. /\ script'.at = "cleanup" /\ script'.stopped = script.stopped
      /\ script'.mutated = script.mutated /\ script'.kind = script.kind /\ script'.code = c
      /\ script'.todo = IF c = "error" /\ script.mutated THEN {} ELSE script.stopped
  BY ExitTyped DEF BaseInv, Typed, ScriptTyped
<1>2. script.mutated => script.kind = "restore"
  BY DEF BaseInv, PlaceInv, Typed, ScriptTyped, Scripts
<1> QED  BY <1>1, <1>2 DEF BackInv, Place

\* Every step keeps track of what ran before the script.
LEMMA BackStep == BaseInv /\ BackInv /\ [Next]_vars => BackInv'
<1> SUFFICES ASSUME BaseInv, BackInv, [Next]_vars PROVE BackInv'  OBVIOUS
<1> USE DEF BackInv, Place, unitVars
<1> /\ script \in Scripts /\ active \cap starting = {}
  BY DEF BaseInv, Typed, ScriptTyped
\* Steps that leave the units and their records alone.
<1>1. ASSUME UNCHANGED <<active, starting, hurt, before>>,
             script'.stopped = script.stopped, script.at # "idle",
             script'.at = "cleanup" =>
               /\ script.at = "cleanup" /\ script'.todo = script.todo
               /\ script'.kind = script.kind /\ script'.mutated = script.mutated
               /\ script'.code = script.code
      PROVE  BackInv'
  BY <1>1 DEF Up
<1>2. ASSUME UNCHANGED <<hurt, before, script>>, Up' = Up PROVE BackInv'
  BY <1>2
<1>3. ASSUME NEW u \in Units, StopUnit(u) PROVE BackInv'
  <2>1. script' = script /\ script.at \in {"stop", "stopEngine"} /\ before' = before
    BY <1>3 DEF StopUnit
  <2>2. Up' = Up \ {u} /\ hurt' = hurt \cup {u}  BY <1>3 DEF StopUnit, Up
  <2> QED  BY <2>1, <2>2
<1>4. ASSUME NEW u \in Units, Record(u) PROVE BackInv'
  <2>1. /\ script'.at \in {"stop", "stopEngine"} /\ script.at \in {"stop", "stopEngine"}
        /\ script'.stopped = script.stopped \cup {u}
    BY <1>4 DEF Record, Scripts
  <2>2. UNCHANGED <<active, starting, before>> /\ hurt' = hurt \ {u}  BY <1>4 DEF Record
  <2> QED  BY <2>1, <2>2 DEF Up
<1>5. ASSUME NEW u \in Units, Skip(u) PROVE BackInv'
  <2>1. script'.at \in {"stop", "stopEngine"} /\ script'.stopped = script.stopped
    BY <1>5, PassTyped DEF Skip
  <2> QED  BY <1>1, <1>5, <2>1 DEF Skip
<1>6. ASSUME NEW u \in Units, Restart(u) PROVE BackInv'
  \* It runs, or is hurt.
  <2>1. /\ script'.at = script.at /\ script'.kind = script.kind /\ script'.code = script.code
        /\ script'.mutated = script.mutated /\ script'.todo = script.todo \ {u}
        /\ script.at # "idle" /\ before' = before
    BY <1>6 DEF Restart, Pass, Scripts
  <2>2. \/ Up' = Up \cup {u} /\ script'.stopped = script.stopped \ {u} /\ hurt' = hurt
        \/ Up' = Up /\ script'.stopped = script.stopped /\ hurt' = hurt \cup {u}
    BY <1>6 DEF Restart, Pass, Scripts, Up
  <2> QED  BY <2>1, <2>2
<1>7. ASSUME NEW u \in Units, Refresh(u) PROVE BackInv'
  <2>1. script'.at = "refresh" /\ script.at = "refresh" /\ script'.stopped = script.stopped
    BY <1>7, PassTyped DEF Refresh
  <2> QED  BY <1>1, <1>7, <2>1 DEF Refresh
<1>8. CASE Restarted
  <2>1. UNCHANGED <<active, starting, hurt, before>> /\ script.at = "restart"
    BY <1>8 DEF Restarted
  <2>2. CASE Exit("error") \/ Exit("ok")  BY <2>1, <2>2, ExitKeepsBack DEF Up
  <2>3. CASE Enter("create", {})  BY <1>1, <2>1, <2>3, EnterTyped DEF Places
  <2> QED  BY <1>8, <2>2, <2>3 DEF Restarted
<1>9. CASE Vanish
  <2>1. script'.at = "idle"  BY <1>9, ScriptsTyped DEF Vanish, Places
  <2> QED  BY <2>1
<1>10. ASSUME NEW c \in {"error", "signal"}, Break(c) PROVE BackInv'
  BY <1>10, ExitKeepsBack DEF Break, Up
<1>11. CASE StartBackup \/ StartRestore
  <2>1. before' = active /\ UNCHANGED <<active, starting>>
    BY <1>11 DEF StartBackup, StartRestore, Start
  <2>2. script'.at \in {"check", "validate"}
    BY <1>11, ScriptsTyped DEF StartBackup, StartRestore, Start, Places
  <2> QED  BY <2>1, <2>2 DEF Up
<1>12. CASE Check \/ Dump \/ Dumped \/ Copy \/ Copied \/ Create
  <2>1. script.at # "idle" /\ UNCHANGED <<active, starting, hurt, before>>
    BY <1>12 DEF Check, Dump, Dumped, Copy, Copied, Create
  <2>2. script'.at # "cleanup" /\ script'.stopped = script.stopped
    BY <1>12 DEF Check, Dump, Dumped, Copy, Copied, Create, Enter, Scripts
  <2> QED  BY <1>1, <2>1, <2>2
<1>13. CASE ValidateSource \/ CopyBack \/ AllAgain \/ Imported
  <2>1. script.at # "idle" /\ UNCHANGED <<active, starting, hurt, before>>
    BY <1>13 DEF ValidateSource, CopyBack, AllAgain, Imported
  <2>2. script'.at # "cleanup" /\ script'.stopped = script.stopped
    BY <1>13 DEF ValidateSource, CopyBack, AllAgain, Imported, Enter, Scripts
  <2> QED  BY <1>1, <2>1, <2>2
<1>14. CASE Refreshed  BY <1>14, ExitKeepsBack DEF Refreshed, Up
<1>15. CASE StartEngine
  <2>1. script'.at = "import" /\ script'.stopped = script.stopped
    BY <1>15, EnterTyped DEF StartEngine, Places
  <2>2. /\ Up' = Up \cup {Engine} /\ script.at = "copyBack"
        /\ UNCHANGED <<hurt, before>>
    BY <1>15 DEF StartEngine, Up
  <2> QED  BY <2>1, <2>2
<1>16. ASSUME NEW s \in Services, CopyOut(s) \/ CopyEnd(s) \/ CopyBegin(s) PROVE BackInv'
  <2>1. script'.at \in {"copy", "copyBack"} /\ script'.stopped = script.stopped
    BY <1>16, PassTyped DEF CopyOut, CopyEnd, CopyBegin, Scripts
  <2>2. UNCHANGED <<active, starting, hurt, before>> /\ script.at \in {"copy", "copyBack"}
    BY <1>16 DEF CopyOut, CopyEnd, CopyBegin
  <2> QED  BY <1>1, <2>1, <2>2
<1>17. ASSUME NEW s \in Services, Again(s) PROVE BackInv'
  <2>1. before' = before /\ script.at = "again"  BY <1>17 DEF Again
  <2>2. CASE Pass(s) /\ Up' = Up \cup {s} /\ hurt' = hurt
    BY <2>1, <2>2, PassTyped
  <2>3. CASE Exit("error") /\ Up' = Up \ {s} /\ hurt' = hurt \cup {s}
    BY <2>1, <2>3, ExitKeepsBack
  <2> QED  BY <1>17, <2>2, <2>3 DEF Again, Up
<1>18. ASSUME Helper \/ (\E n \in Names : Background(n)) \/ (\E s \in Services : Write(s))
       PROVE  BackInv'
  BY <1>2, <1>18 DEF Helper, Background, Write, Up
<1>19. ASSUME NEW s \in Services, Crash(s) \/ Started(s) PROVE BackInv'
  BY <1>2, <1>19 DEF Crash, Started, Up
<1>20. CASE UNCHANGED vars  BY <1>2, <1>20 DEF vars, Up
<1> QED
  BY <1>3, <1>4, <1>5, <1>6, <1>7, <1>8, <1>9, <1>10, <1>11, <1>12, <1>13,
     <1>14, <1>15, <1>16, <1>17, <1>18, <1>19, <1>20
  DEF Next, CleanedUp, Kill

\* Whatever fails and whichever signal ends a script, what it has stopped is
\* started again, except after a restore that failed (the EXIT traps).
THEOREM StoppedUnitsAlwaysComeBack == BackupSpec => []StoppedUnitsComeBack
<1>1. BaseInv /\ BackInv /\ [Next]_vars => (BaseInv /\ BackInv)'  BY BaseStep, BackStep
<1>2. BackInv => StoppedUnitsComeBack
  BY DEF BackInv, Up, Place, Finished, StoppedUnitsComeBack
<1> QED  BY <1>1, <1>2, BaseInit, BackInit, PTL DEF BackupSpec

-----------------------------------------------------------------------------
(* Archives *)

\* While the applications are down nothing writes, so the dump, the moment and
\* the copies are all of what is live.
CopyInv ==
  script.kind = "backup" /\ ~staging.missed =>
    /\ Place("stop") => Up \cap Services \subseteq script.todo
    /\ script.at \in {"dump", "stopEngine", "copy"} => Up \cap Services = {}
    /\ script.at \in {"stopEngine", "copy", "restart", "create", "refresh"} =>
         staging.dump = staging.moment[Engine]
    /\ script.at \in {"stopEngine", "copy"} =>
         \A s \in Services : staging.moment[s] = files[s]
    /\ script.at = "copy" =>
         \A s \in Services \ script.todo : staging.files[s] = staging.moment[s]
    /\ script.at \in {"restart", "create", "refresh"} =>
         \A s \in Services : staging.files[s] = staging.moment[s]
    /\ helper.at \in {"register", "snapshot", "unregister", "export", "finally", "remove", "done"}
         /\ ~helper.failed => restoring = NoCall
    /\ helper.at \in {"unregister", "export"} /\ ~helper.failed => exports[name] = live
    /\ helper.at \in {"finally", "remove", "done"} /\ ~helper.failed => helper.archive = live

ArchiveInv ==
  /\ ArchivesAreConsistent
  /\ CopyInv

LEMMA ArchiveInit == Init => ArchiveInv
<1> SUFFICES ASSUME Init PROVE ArchiveInv  OBVIOUS
<1>1. script.at = "idle" /\ helper.at = "idle"
  BY ScriptsTyped, IdleTyped DEF Init, SnapshotInit, Places
<1>2. Consistent(borg) /\ Consistent(latest)  BY CopiesTyped DEF Init
<1> QED  BY <1>1, <1>2 DEF ArchiveInv, ArchivesAreConsistent, CopyInv, Place

\* A helper that takes a snapshot while nothing writes archives what is live.
LEMMA HelperKeepsCopy ==
  ASSUME BaseInv, CopyInv, Helper PROVE CopyInv'
<1> USE DEF CopyInv, Place, At, Goto, Raise, Refuse, name
<1>1. UNCHANGED <<active, starting, files, script, staging>>  BY DEF Helper, unitVars, restoreVars
<1>2. HelperStep /\ helper \in Calls /\ CallTyped /\ PlaceInv /\ CallInv
  BY DEF Helper, BaseInv, Typed, CallTyped, NamesInv
<1> SUFFICES ASSUME script.kind = "backup", ~staging.missed
             PROVE  /\ helper'.at \in {"register", "snapshot", "unregister", "export", "finally",
                                      "remove", "done"} /\ ~helper'.failed => restoring' = NoCall
                    /\ helper'.at \in {"unregister", "export"} /\ ~helper'.failed =>
                         exports'[name'] = live'
                    /\ helper'.at \in {"finally", "remove", "done"} /\ ~helper'.failed =>
                         helper'.archive = live'
  BY <1>1 DEF Up
<1>3. helper.op = "backup" /\ helper.at \notin {"import", "look", "delete", "post"}
  BY <1>2, HelperUsesItsName DEF PlaceInv, CallInv
<1>4. name \in Names /\ exports \in [Names -> Contents]
  BY <1>2, HelperUsesItsName DEF CallTyped
<1>5. CASE Validate \/ Ready
  BY <1>2, <1>3, <1>5 DEF Validate, Ready, Calls
<1>6. CASE Register
  <2>1. helper'.at = "finally" => helper'.failed  BY <1>2, <1>3, <1>6 DEF Register, Calls
  <2>2. helper'.at \in {"snapshot", "finally"} /\ restoring' = restoring /\ helper.at = "register"
        /\ (~helper'.failed => ~helper.failed)
    BY <1>2, <1>3, <1>6 DEF Register, Calls
  <2> QED  BY <2>1, <2>2
<1>7. CASE Snapshot
  <2>1. \/ helper'.at = "finally" /\ helper'.failed
        \/ helper'.at = "unregister" /\ helper'.failed = helper.failed /\ exports'[name] = live
    BY <1>2, <1>4, <1>7 DEF Snapshot, Calls
  <2>2. helper'.name = name /\ UNCHANGED <<live, restoring>> /\ helper.at = "snapshot"
    BY <1>2, <1>7 DEF Snapshot, Calls
  <2> QED  BY <2>1, <2>2
<1>8. CASE Unregister
  <2>1. \/ helper'.at = "finally" /\ helper'.failed
        \/ helper'.at = "export" /\ helper'.failed = helper.failed
    BY <1>2, <1>8 DEF Unregister, Calls
  <2>2. helper'.name = name /\ UNCHANGED <<live, restoring, exports>> /\ helper.at = "unregister"
    BY <1>2, <1>8 DEF Unregister, Calls
  <2> QED  BY <2>1, <2>2
<1>9. CASE Export
  <2>1. \/ helper'.at = "finally" /\ helper'.failed
        \/ helper'.at = "finally" /\ helper'.failed = helper.failed /\ helper'.archive = exports[name]
    BY <1>2, <1>9 DEF Export, Calls
  <2>2. UNCHANGED <<live, restoring, exports>> /\ helper.at = "export"  BY <1>9 DEF Export
  <2> QED  BY <2>1, <2>2
<1>10. CASE Finally
  <2>1. /\ helper'.at \in {"remove", "done"} /\ helper'.archive = helper.archive
        /\ ~helper'.failed => ~helper.failed
    <3>1. \/ helper' = [helper EXCEPT !.at = "remove"]
          \/ helper' = [helper EXCEPT !.at = "done", !.failed = TRUE]
      BY <1>10 DEF Finally
    <3> QED  BY <1>2, <3>1 DEF Calls
  <2>2. UNCHANGED <<live, restoring>> /\ helper.at = "finally"  BY <1>10 DEF Finally
  <2> QED  BY <2>1, <2>2
<1>11. CASE RemoveExport
  <2>1. /\ helper'.at = "done" /\ helper'.archive = helper.archive
        /\ ~helper'.failed => ~helper.failed
    BY <1>2, <1>11 DEF RemoveExport, Calls
  <2>2. UNCHANGED <<live, restoring>> /\ helper.at = "remove"  BY <1>11 DEF RemoveExport
  <2> QED  BY <2>1, <2>2
<1> QED
  BY <1>2, <1>3, <1>5, <1>6, <1>7, <1>8, <1>9, <1>10, <1>11
  DEF HelperStep, Import, Look, Delete, Post

\* Every step keeps the archives consistent.
LEMMA ArchiveStep == BaseInv /\ HeldInv /\ ArchiveInv /\ [Next]_vars => ArchiveInv'
<1> SUFFICES ASSUME BaseInv, HeldInv, ArchiveInv, [Next]_vars PROVE ArchiveInv'  OBVIOUS
<1> USE DEF ArchiveInv, ArchivesAreConsistent, Place, unitVars, restoreVars
<1> /\ script \in Scripts /\ staging \in Copies /\ active \cap starting = {} /\ PlaceInv
    /\ helper \in Calls
  BY DEF BaseInv, Typed, ScriptTyped, CallTyped
<1>0. script.at \notin {"dump", "import"} => helper.at = "idle"  BY DEF PlaceInv, At
<1>1. UNCHANGED <<borg, latest, refreshing>> => ArchivesAreConsistent'
  BY DEF Consistent
\* Steps that leave everything about the archives alone.
<1>2. ASSUME UNCHANGED <<borg, latest, refreshing, staging, files, live, exports, restoring, helper>>,
             Up' \subseteq Up, script'.kind = script.kind, script'.at = script.at,
             script'.todo = script.todo
      PROVE  ArchiveInv'
  BY <1>1, <1>2 DEF CopyInv, name
\* Where nothing is said of a backup.
<1>3. ASSUME UNCHANGED <<borg, latest, refreshing>>, helper'.at = "idle" \/ script'.kind = "restore",
             script'.kind = "restore" \/ script'.at \in {"idle", "check", "cleanup"}
      PROVE  ArchiveInv'
  BY <1>1, <1>3 DEF CopyInv
<1>4. ASSUME NEW u \in Units, StopUnit(u) PROVE ArchiveInv'
  BY <1>2, <1>4 DEF StopUnit, Up, archives, snapshotVars
<1>5. ASSUME NEW u \in Units, Record(u) PROVE ArchiveInv'
  <2>1. /\ script'.at = script.at /\ script'.kind = script.kind /\ script'.todo = script.todo \ {u}
        /\ script.at \in {"stop", "stopEngine"}
    BY <1>5 DEF Record, Scripts
  <2>2. u \notin Up  BY <1>5, <2>1 DEF Record, HeldInv
  <2>3. UNCHANGED <<borg, latest, refreshing, staging, files, active, starting, snapshotVars>>
    BY <1>5 DEF Record, archives
  <2> QED  BY <1>0, <1>1, <2>1, <2>2, <2>3 DEF CopyInv, Up, snapshotVars
<1>6. ASSUME NEW u \in Units, Skip(u) PROVE ArchiveInv'
  <2>1. /\ script'.at = script.at /\ script'.kind = script.kind /\ script'.todo = script.todo \ {u}
        /\ script.at \in {"stop", "stopEngine"}
    BY <1>6, PassTyped DEF Skip
  <2>2. /\ staging'.dump = staging.dump /\ staging'.files = staging.files
        /\ staging'.moment = staging.moment
        /\ staging'.missed = (staging.missed \/ (script.kind = "backup" /\ u \in starting))
        /\ u \notin active
    BY <1>6 DEF Skip, Copies
  <2>3. UNCHANGED <<borg, latest, refreshing, files, active, starting, snapshotVars>>
    BY <1>6 DEF Skip, archives
  <2> QED  BY <1>0, <1>1, <2>1, <2>2, <2>3 DEF CopyInv, Up, snapshotVars
<1>7. ASSUME NEW u \in Units, Restart(u) PROVE ArchiveInv'
  <2>1. /\ script'.at = script.at /\ script'.kind = script.kind
        /\ script.at \in {"restart", "cleanup"}
    BY <1>7 DEF Restart, Pass, Scripts
  <2>2. UNCHANGED <<borg, latest, refreshing, files, staging, snapshotVars>>
    BY <1>7 DEF Restart, archives
  <2> QED  BY <1>0, <1>1, <2>1, <2>2 DEF CopyInv, snapshotVars
<1>8. ASSUME NEW u \in Units, Refresh(u) PROVE ArchiveInv'
  <2>1. script'.at = script.at /\ script'.kind = script.kind /\ script.at = "refresh"
    BY <1>8, PassTyped DEF Refresh
  <2>2. UNCHANGED <<borg, files, staging, snapshotVars>> /\ refreshing'  BY <1>8 DEF Refresh
  <2>3. Consistent(borg)' /\ refreshing'  BY <2>2 DEF Consistent
  <2> QED  BY <1>0, <2>1, <2>2, <2>3 DEF CopyInv, snapshotVars
<1>9. CASE Restarted
  <2>1. script'.at \in {"cleanup", "create"} /\ script'.kind = script.kind /\ script.at = "restart"
    BY <1>9, ExitTyped, EnterTyped DEF Restarted, Places
  <2>2. UNCHANGED <<borg, latest, refreshing, files, staging, snapshotVars>>
    BY <1>9 DEF Restarted, archives
  <2> QED  BY <1>0, <1>1, <2>1, <2>2 DEF CopyInv, snapshotVars
<1>10. CASE Vanish
  <2>1. script'.at = "idle" /\ helper'.at = "idle"
    BY <1>10, ScriptsTyped, IdleTyped DEF Vanish, Die, Places
  <2> QED  BY <1>3, <1>10, <2>1 DEF Vanish, archives
<1>11. ASSUME NEW c \in {"error", "signal"}, Break(c) PROVE ArchiveInv'
  BY <1>3, <1>11, ExitTyped, IdleTyped DEF Break, Die, archives
<1>12. CASE StartBackup \/ StartRestore
  <2>1. helper' = helper /\ script.at = "idle" /\ UNCHANGED archives
    BY <1>12 DEF StartBackup, StartRestore, Start, snapshotVars
  <2>2. script'.at = "check" \/ script'.kind = "restore"
    BY <1>12, ScriptsTyped DEF StartBackup, StartRestore, Start, Places
  <2> QED  BY <1>0, <1>3, <2>1, <2>2 DEF archives
<1>13. CASE Check
  <2>1. script'.at = "stop" /\ script'.todo = Services /\ script'.kind = script.kind
    BY <1>13, EnterTyped, UnitsAre DEF Check, Places
  <2>2. UNCHANGED <<borg, latest, refreshing, staging, snapshotVars>> /\ script.at = "check"
    BY <1>13 DEF Check, archives
  <2> QED  BY <1>0, <1>1, <2>1, <2>2 DEF CopyInv, snapshotVars
<1>14. CASE Dump
  <2>1. script'.at = "dump" /\ helper'.at = "ready" /\ script'.kind = script.kind
    BY <1>14, EnterTyped DEF Dump, Places, Call
  <2>2. /\ UNCHANGED <<borg, latest, refreshing, staging, active, starting>>
        /\ script.at = "stop" /\ script.todo = {}
    BY <1>14 DEF Dump, archives, Finished
  <2> QED  BY <1>1, <2>1, <2>2 DEF CopyInv, Up
<1>15. CASE Dumped
  \* Nothing has written since the snapshot.
  <2>1. /\ script'.at = "stopEngine" /\ script'.kind = script.kind /\ script.at = "dump"
        /\ script.kind = "backup" /\ helper'.at = "idle"
    BY <1>15, EnterTyped, UnitsAre, IdleTyped DEF Dumped, Places, Die, PlaceInv, BackupPlaces
  <2>2. UNCHANGED <<borg, latest, refreshing, active, starting, files>>
    BY <1>15 DEF Dumped, archives
  <2>3. /\ staging'.dump = helper.archive /\ staging'.missed = staging.missed
        /\ staging'.moment = [u \in Units |-> IF u = Engine THEN live ELSE files[u]]
    BY <1>15 DEF Dumped, Copies
  <2>4. ~staging.missed => helper.archive = live  BY <1>15, <2>1 DEF Dumped, At, CopyInv
  <2>5. staging'.moment[Engine] = live /\ \A s \in Services : staging'.moment[s] = files[s]
    BY <2>3, UnitsAre
  <2> QED  BY <1>1, <2>1, <2>2, <2>3, <2>4, <2>5 DEF CopyInv, Up
<1>16. CASE Copy
  <2>1. /\ script'.at = "copy" /\ script'.todo = Services /\ script'.kind = script.kind
        /\ script.at = "stopEngine"
    BY <1>16, EnterTyped, UnitsAre DEF Copy, Places
  <2>2. UNCHANGED <<borg, latest, refreshing, staging, files, active, starting, snapshotVars>>
    BY <1>16 DEF Copy, archives
  <2> QED  BY <1>0, <1>1, <2>1, <2>2 DEF CopyInv, Up, snapshotVars
<1>17. ASSUME NEW s \in Services, CopyOut(s) PROVE ArchiveInv'
  <2>1. /\ script'.at = script.at /\ script'.kind = script.kind /\ script'.todo = script.todo \ {s}
        /\ script.at = "copy"
    BY <1>17, PassTyped DEF CopyOut
  <2>2. UNCHANGED <<borg, latest, refreshing, files, active, starting, snapshotVars>>
    BY <1>17 DEF CopyOut, archives
  <2>3. PICK c \in {files[s]} \cup (IF s \in active THEN {Partial} ELSE {}) :
          staging' = [staging EXCEPT !.files[s] = c]
    BY <1>17 DEF CopyOut
  <2>4. /\ staging'.dump = staging.dump /\ staging'.missed = staging.missed
        /\ staging'.moment = staging.moment
        /\ staging'.files = [staging.files EXCEPT ![s] = c]
    BY <2>3 DEF Copies
  <2>5. s \notin active => c = files[s]  BY <2>3
  <2>6. staging.files \in [Services -> Contents]  BY DEF Copies
  <2> QED  BY <1>0, <1>1, <2>1, <2>2, <2>4, <2>5, <2>6 DEF CopyInv, Up, snapshotVars
<1>18. CASE Copied
  <2>1. /\ script'.at = "restart" /\ script'.kind = script.kind
        /\ script.at = "copy" /\ script.todo = {}
    <3>1. script.stopped \subseteq Units  BY DEF Scripts
    <3> QED  BY <1>18, <3>1, EnterTyped DEF Copied, Finished, Places
  <2>2. UNCHANGED <<borg, latest, refreshing, staging, files, snapshotVars>>
    BY <1>18 DEF Copied, archives
  <2> QED  BY <1>0, <1>1, <2>1, <2>2 DEF CopyInv, snapshotVars
<1>19. CASE Create
  <2>1. /\ script'.at = "refresh" /\ script'.kind = script.kind /\ script.at = "create"
        /\ script.kind = "backup"
    BY <1>19, EnterTyped DEF Create, Places, PlaceInv, BackupPlaces
  <2>2. UNCHANGED <<latest, refreshing, staging, files, snapshotVars>> /\ borg' = staging
    BY <1>19 DEF Create
  <2>3. Consistent(staging)  BY <2>1 DEF CopyInv, Consistent
  <2>4. ArchivesAreConsistent'  BY <2>2, <2>3 DEF Consistent
  <2> QED  BY <1>0, <2>1, <2>2, <2>4 DEF CopyInv, snapshotVars
<1>20. CASE Refreshed
  <2>1. script'.at = "cleanup" /\ script.at = "refresh" /\ script.kind = "backup"
    BY <1>20, ExitTyped DEF Refreshed, PlaceInv, BackupPlaces
  <2>2. UNCHANGED <<borg, staging, snapshotVars>> /\ latest' = staging
    BY <1>20 DEF Refreshed
  <2>3. Consistent(staging)  BY <2>1 DEF CopyInv, Consistent
  <2>4. ArchivesAreConsistent'  BY <2>2, <2>3 DEF Consistent
  <2> QED  BY <1>0, <2>1, <2>2, <2>4 DEF CopyInv, snapshotVars
<1>21. CASE ValidateSource \/ CopyBack \/ StartEngine \/ Imported \/ AllAgain
  <2>1. UNCHANGED <<borg, latest, refreshing>>
    BY <1>21 DEF ValidateSource, CopyBack, StartEngine, Imported, AllAgain, archives
  <2>2. script'.kind = "restore"
    BY <1>21
    DEF ValidateSource, CopyBack, StartEngine, Imported, AllAgain, Enter, Scripts, PlaceInv,
        RestorePlaces
  <2> QED  BY <1>3, <2>1, <2>2
<1>22. ASSUME NEW s \in Services, CopyBegin(s) \/ CopyEnd(s) \/ Again(s) PROVE ArchiveInv'
  <2>1. script'.kind = "restore" /\ UNCHANGED archives
    BY <1>22, PassTyped, ExitTyped DEF CopyBegin, CopyEnd, Again, Scripts, PlaceInv, RestorePlaces
  <2> QED  BY <1>3, <2>1 DEF archives
<1>23. CASE Helper
  BY <1>1, <1>23, HelperKeepsCopy DEF Helper, archives
<1>24. ASSUME NEW n \in Names, Background(n) PROVE ArchiveInv'
  \* The indices of a restore that goes on are not being archived.
  <2>1. UNCHANGED <<borg, latest, refreshing, script, staging, files, active, starting, helper, exports>>
    BY <1>24 DEF Background, Complete, archives
  <2>2. restoring = NoCall => UNCHANGED <<live, restoring>>
    BY <1>24, NoCallAssumption DEF Background, Complete
  <2> QED  BY <1>1, <2>1, <2>2 DEF CopyInv, Up, name
<1>25. ASSUME NEW s \in Services, Write(s) PROVE ArchiveInv'
  <2>1. /\ UNCHANGED <<borg, latest, refreshing, script, staging, active, starting, exports,
                       restoring, helper>>
        /\ s \in Up
    BY <1>25 DEF Write, archives, Up
  <2>2. script.kind = "backup" /\ ~staging.missed => script.at \notin {"dump", "stopEngine", "copy"}
    BY <2>1 DEF CopyInv
  <2>3. script.kind = "backup" => script.at # "import"  BY DEF PlaceInv, RestorePlaces
  <2> QED  BY <1>0, <1>1, <2>1, <2>2, <2>3 DEF CopyInv, Up
<1>26. ASSUME NEW s \in Services, Crash(s) \/ Started(s) PROVE ArchiveInv'
  BY <1>2, <1>26 DEF Crash, Started, Up, archives, snapshotVars
<1>27. CASE UNCHANGED vars  BY <1>2, <1>27 DEF vars, Up, archives, snapshotVars
<1> QED
  BY <1>4, <1>5, <1>6, <1>7, <1>8, <1>9, <1>10, <1>11, <1>12, <1>13, <1>14, <1>15,
     <1>16, <1>17, <1>18, <1>19, <1>20, <1>21, <1>22, <1>23, <1>24, <1>25, <1>26, <1>27
  DEF Next, CleanedUp, Kill

\* Every archive, and the latest copy unless its refresh was cut off, holds the
\* files and the indices of one moment, unless a unit was between two starts
\* (the order of stops, dump and copies in backup-service-configs.sh).
THEOREM ArchivesAlwaysConsistent == BackupSpec => []ArchivesAreConsistent
<1>1. BaseInv /\ HeldInv /\ ArchiveInv /\ [Next]_vars => (BaseInv /\ HeldInv /\ ArchiveInv)'
  BY BaseStep, HeldStep, ArchiveStep
<1>2. ArchiveInv => ArchivesAreConsistent  BY DEF ArchiveInv
<1> QED  BY <1>1, <1>2, BaseInit, HeldInit, ArchiveInit, PTL DEF BackupSpec

-----------------------------------------------------------------------------
(* What a restore puts in place *)

\* Services are down while a restore writes, so what it has written is still
\* there at its end; and what it works from is one of the archives.
RestoreInv ==
  /\ script.at \in {"copyBack", "import"} =>
       \A s \in Services \ (missed \cup script.todo) : files[s] = staging.files[s]
  /\ Place("import") => script.todo = {}
  /\ script.kind = "restore" /\ ~Place("idle") => staging \in {borg, latest}
  /\ RestoreCall
  /\ helper.op = "restore" /\ ~At("idle") =>
       /\ helper.archive = staging.dump
       /\ helper.at \in {"finally", "remove", "done"} /\ ~helper.failed =>
            live = helper.archive \/ Database \in missed

LEMMA RestoreInit == Init => RestoreInv
<1> SUFFICES ASSUME Init PROVE RestoreInv  OBVIOUS
<1>1. script.at = "idle" /\ helper.at = "idle"
  BY ScriptsTyped, IdleTyped DEF Init, SnapshotInit, Places
<1> QED  BY <1>1 DEF RestoreInv, RestoreCall, Place, At

\* Elsewhere there is nothing to keep but the source.
LEMMA ElsewhereRestores ==
  ASSUME PlaceInv', script'.at \notin {"copyBack", "import"},
         script'.kind = "restore" /\ script'.at # "idle" => staging' \in {borg', latest'}
  PROVE  RestoreInv'
<1>1. helper'.op = "restore" => helper'.at = "idle"
  BY DEF PlaceInv, At, BackupPlaces
<1> QED  BY <1>1 DEF RestoreInv, RestoreCall, Place, At

LEMMA RestoreStep == BaseInv /\ HeldInv /\ RestoreInv /\ [Next]_vars => RestoreInv'
<1> SUFFICES ASSUME BaseInv, HeldInv, RestoreInv, [Next]_vars PROVE RestoreInv'  OBVIOUS
<1> USE DEF Place, archives
<1>p. PlaceInv /\ PlaceInv'  BY PlaceStep DEF BaseInv
<1>t. script \in Scripts /\ staging \in Copies  BY DEF BaseInv, Typed, ScriptTyped
<1>s. script.kind = "restore" /\ script.at # "idle" => staging \in {borg, latest}
  BY DEF RestoreInv
<1>0. ASSUME UNCHANGED <<staging, borg, latest>>, script'.kind = script.kind,
             script.at # "idle", script'.at \notin {"copyBack", "import"}
      PROVE  RestoreInv'
  BY <1>0, <1>p, <1>s, ElsewhereRestores
<1>1. ASSUME NEW u \in Units, StopUnit(u) \/ Record(u) \/ Restart(u) PROVE RestoreInv'
  <2>1. /\ script'.kind = script.kind /\ script'.at = script.at
        /\ script.at \in {"stop", "stopEngine", "restart", "cleanup"}
    BY <1>1, <1>t, RestartTyped DEF StopUnit, Record, Scripts
  <2> QED  BY <1>0, <1>1, <2>1 DEF StopUnit, Record, Restart
<1>2. ASSUME NEW u \in Units, Skip(u) PROVE RestoreInv'
  <2>1. /\ script'.kind = script.kind /\ script'.at = script.at
        /\ script.at \in {"stop", "stopEngine"} /\ UNCHANGED <<borg, latest>>
    BY <1>2, <1>t, PassTyped DEF Skip
  <2>2. script.kind = "restore" => staging' = staging
    <3>1. staging' = [staging EXCEPT !.missed =
                        staging.missed \/ (script.kind = "backup" /\ u \in starting)]
      BY <1>2 DEF Skip
    <3>2. script.kind = "restore" => staging' = [staging EXCEPT !.missed = staging.missed]
      BY <1>t, <3>1 DEF Copies
    <3> QED  BY <1>t, <3>2 DEF Copies
  <2> QED  BY <1>p, <1>s, <2>1, <2>2, ElsewhereRestores
<1>3. ASSUME NEW u \in Units, Refresh(u) PROVE RestoreInv'
  <2>1. script'.kind = script.kind /\ script'.at = "refresh" /\ script.at = "refresh"
    BY <1>3, <1>t, PassTyped DEF Refresh
  <2>2. script.kind = "backup"  BY <1>p, <2>1 DEF PlaceInv, BackupPlaces
  <2> QED  BY <1>p, <2>1, <2>2, ElsewhereRestores
<1>4. CASE Restarted
  <2>1. /\ script'.at \in {"cleanup", "create"} /\ script'.kind = script.kind
        /\ script.at = "restart"
    BY <1>4, <1>t, ExitTyped, EnterTyped DEF Restarted, Places
  <2> QED  BY <1>0, <1>4, <2>1 DEF Restarted
<1>5. CASE Vanish
  <2>1. script'.at = "idle"  BY <1>5, ScriptsTyped DEF Vanish, Places
  <2> QED  BY <1>p, <2>1, ElsewhereRestores
<1>6. ASSUME NEW c \in {"error", "signal"}, Break(c) PROVE RestoreInv'
  <2>1. script'.at = "cleanup" /\ script'.kind = script.kind /\ script.at # "idle"
    BY <1>6, <1>t, ExitTyped DEF Break
  <2> QED  BY <1>0, <1>6, <2>1 DEF Break
<1>7. CASE StartBackup
  <2>1. script'.at = "check" /\ script'.kind = "backup"
    BY <1>7, ScriptsTyped DEF StartBackup, Start, Places
  <2> QED  BY <1>p, <2>1, ElsewhereRestores
<1>8. CASE StartRestore
  <2>1. script'.at = "validate" /\ staging' \in {borg, latest} /\ UNCHANGED <<borg, latest>>
    BY <1>8, ScriptsTyped DEF StartRestore, Start, Places
  <2> QED  BY <1>p, <2>1, ElsewhereRestores
<1>9. CASE Check \/ Dump \/ Dumped \/ Copy \/ Copied \/ Create \/ Refreshed
  <2>1. script.kind = "backup"
    BY <1>9, <1>p DEF Check, Dump, Dumped, Copy, Copied, Create, Refreshed, PlaceInv, BackupPlaces
  <2>2. script'.kind = script.kind
    BY <1>9, <1>t DEF Check, Dump, Dumped, Copy, Copied, Create, Refreshed, Enter, Exit, Scripts
  <2>3. script'.at \notin {"copyBack", "import"}
    BY <1>p, <2>1, <2>2 DEF PlaceInv, RestorePlaces
  <2> QED  BY <1>p, <2>1, <2>2, <2>3, ElsewhereRestores
<1>10. CASE ValidateSource \/ AllAgain
  <2>1. /\ script'.at \in {"stop", "restart"} /\ script'.kind = script.kind
        /\ script.at # "idle" /\ UNCHANGED <<staging, borg, latest>>
    BY <1>10, <1>t DEF ValidateSource, AllAgain, Enter, Scripts
  <2> QED  BY <1>0, <2>1
<1>11. CASE CopyBack
  <2>1. /\ script'.at = "copyBack" /\ script'.todo = Services /\ script.kind = "restore"
        /\ script.at # "idle"
        /\ UNCHANGED <<staging, borg, latest, helper>>
    BY <1>11, <1>t, EnterTyped, UnitsAre DEF CopyBack, Places, snapshotVars
  <2>2. helper'.at = "idle"  BY <1>p, <2>1 DEF PlaceInv, At
  <2> QED  BY <1>s, <2>1, <2>2 DEF RestoreInv, RestoreCall, At
<1>12. ASSUME NEW s \in Services, CopyBegin(s) \/ CopyEnd(s) PROVE RestoreInv'
  <2>1. /\ script.at = "copyBack" /\ script'.at = "copyBack" /\ script'.kind = script.kind
        /\ s \in script.todo /\ UNCHANGED <<staging, borg, latest, helper, missed>>
    BY <1>12, <1>t, PassTyped DEF CopyBegin, CopyEnd, Chosen, Scripts, snapshotVars
  <2>2. helper'.at = "idle"  BY <1>p, <2>1 DEF PlaceInv, At
  <2>3. \A v \in Services \ {s} : files'[v] = files[v]
    BY <1>12 DEF CopyBegin, CopyEnd, BaseInv, Typed, ScriptTyped
  <2>4. \/ script'.todo = script.todo
        \/ script'.todo = script.todo \ {s} /\ files'[s] = staging.files[s]
    BY <1>12, <1>t, PassTyped DEF CopyBegin, CopyEnd, Scripts, BaseInv, Typed, ScriptTyped
  <2>5. \A v \in Services \ (missed' \cup script'.todo) : files'[v] = staging'.files[v]
    BY <2>1, <2>3, <2>4 DEF RestoreInv
  <2> QED  BY <1>s, <2>1, <2>2, <2>5 DEF RestoreInv, RestoreCall, At
<1>13. CASE StartEngine
  <2>1. /\ script.at = "copyBack" /\ script.todo = {}
        /\ script'.at = "import" /\ script'.todo = {} /\ script'.kind = script.kind
        /\ UNCHANGED <<staging, borg, latest, files, missed>>
    BY <1>13, <1>t, EnterTyped DEF StartEngine, Finished, Places, restoreVars
  <2>2. helper'.at = "validate" /\ helper'.archive = staging.dump
    BY <1>13 DEF StartEngine, Call
  <2> QED  BY <1>s, <2>1, <2>2 DEF RestoreInv, RestoreCall, At
<1>14. CASE Imported
  <2>1. /\ script'.at \in {"again", "restart"} /\ script'.kind = script.kind
        /\ script.at # "idle" /\ UNCHANGED <<staging, borg, latest>>
    BY <1>14, <1>t DEF Imported, Enter, Scripts
  <2> QED  BY <1>0, <2>1
<1>15. ASSUME NEW s \in Services, CopyOut(s) PROVE RestoreInv'
  <2>1. script'.at = "copy" /\ script'.kind = script.kind /\ script.at = "copy"
    BY <1>15, <1>t, PassTyped DEF CopyOut
  <2>2. script.kind = "backup"  BY <1>p, <2>1 DEF PlaceInv, BackupPlaces
  <2> QED  BY <1>p, <2>1, <2>2, ElsewhereRestores
<1>16. ASSUME NEW s \in Services, Again(s) PROVE RestoreInv'
  <2>1. /\ script'.at \in {"again", "cleanup"} /\ script'.kind = script.kind
        /\ script.at = "again" /\ UNCHANGED <<staging, borg, latest>>
    BY <1>16, <1>t, PassTyped, ExitTyped DEF Again
  <2> QED  BY <1>0, <2>1
<1>17. CASE Helper
  <2>1. UNCHANGED <<files, staging, borg, latest, script, missed>> /\ HelperStep
    BY <1>17 DEF Helper, restoreVars
  <2>2. CASE helper.op = "restore"
    <3>1. CallTyped  BY DEF BaseInv, Typed
    <3>2. helper.at # "idle"  BY <2>1, <3>1, HelperUsesItsName DEF At
    <3>3. /\ RestoreCall' /\ helper'.archive = helper.archive
          /\ helper'.at \in {"finally", "remove", "done"} /\ ~helper'.failed =>
               \/ live' = helper.archive
               \/ helper.at \in {"finally", "remove"} /\ ~helper.failed /\ live' = live
      BY <2>1, <2>2, <3>1, HelperRestores DEF RestoreInv
    <3> QED  BY <2>1, <2>2, <3>2, <3>3 DEF RestoreInv, At
  <2>3. CASE helper.op # "restore"
    <3>1. helper'.op # "restore"
      BY <2>1, <2>3, HelperUsesItsName DEF BaseInv, Typed
    <3> QED  BY <2>1, <3>1 DEF RestoreInv, RestoreCall
  <2> QED  BY <2>2, <2>3
<1>18. ASSUME NEW n \in Names, Background(n) PROVE RestoreInv'
  <2>1. /\ UNCHANGED <<files, staging, borg, latest, script, missed, helper, exports>>
        /\ n = restoring \/ UNCHANGED <<live, restoring>>
    BY <1>18 DEF Background, Complete, restoreVars
  <2>2. restoring = NoCall => UNCHANGED <<live, restoring>>
    BY <2>1, NoCallAssumption
  <2>3. restoring' \in {restoring, NoCall}  BY <1>18 DEF Background, Complete
  <2> QED  BY <2>1, <2>2, <2>3 DEF RestoreInv, RestoreCall, At, name
<1>19. ASSUME NEW s \in Services, Write(s) PROVE RestoreInv'
  <2>1. /\ UNCHANGED <<staging, borg, latest, script, missed, helper, exports, restoring>>
        /\ s \in active /\ (s # Database => UNCHANGED live)
        /\ \A v \in Services \ {s} : files'[v] = files[v]
    BY <1>19 DEF Write, BaseInv, Typed, ScriptTyped
  <2>2. script.at \in {"copyBack", "import"} => s \in missed
    BY <2>1 DEF HeldInv, Up
  <2>3. helper.op = "restore" /\ helper.at # "idle" => script.at = "import"
    BY <1>p DEF PlaceInv, At, BackupPlaces
  <2> QED  BY <2>1, <2>2, <2>3 DEF RestoreInv, RestoreCall, At, name
<1>20. ASSUME NEW s \in Services, Crash(s) \/ Started(s) PROVE RestoreInv'
  BY <1>20 DEF Crash, Started, restoreVars, snapshotVars, RestoreInv, RestoreCall, At, name
<1>21. CASE UNCHANGED vars
  BY <1>21 DEF vars, restoreVars, snapshotVars, RestoreInv, RestoreCall, At, name
<1> QED
  BY <1>1, <1>2, <1>3, <1>4, <1>5, <1>6, <1>7, <1>8, <1>9, <1>10, <1>11, <1>12, <1>13,
     <1>14, <1>15, <1>16, <1>17, <1>18, <1>19, <1>20, <1>21
  DEF Next, CleanedUp, Kill

\* What a restore promises when its import has returned: the files and the
\* indices are those of the archive, and with an archive that was not cut off
\* they are of one moment.
RestoresArchive ==
  Imported /\ missed = {} =>
    /\ live' = staging.dump /\ \A s \in Services : files'[s] = staging.files[s]
    /\ ~staging.missed /\ (staging = latest => ~refreshing) =>
         /\ live' = staging.moment[Engine]
         /\ \A s \in Services : files'[s] = staging.moment[s]

\* A restore that succeeds has brought back its archive, whole: whatever was
\* running, half restored or half deleted when it began, no application and no
\* earlier restore that Elasticsearch is still busy with writes over it, unless
\* a unit was between two starts (restore-service-configs.sh).
THEOREM RestoresBringBackTheArchive == BackupSpec => [][RestoresArchive]_vars
<1> DEFINE All == BaseInv /\ HeldInv /\ ArchiveInv /\ RestoreInv
<1>1. All /\ [Next]_vars => All'
  BY BaseStep, HeldStep, ArchiveStep, RestoreStep
<1>2. All /\ [Next]_vars => [RestoresArchive]_vars
  <2> SUFFICES ASSUME All, Imported, missed = {} PROVE RestoresArchive
    BY DEF RestoresArchive
  <2>1. /\ script.at = "import" /\ helper.at = "done" /\ ~helper.failed
        /\ UNCHANGED <<files, live>>
    BY DEF Imported, Place, At, Die
  <2>2. script.kind = "restore" /\ helper.op = "restore"
    BY <2>1 DEF BaseInv, PlaceInv, RestorePlaces, At
  <2>3. script.todo = {}  BY <2>1 DEF RestoreInv, Place
  <2>4. live = staging.dump /\ \A s \in Services : files[s] = staging.files[s]
    BY <2>1, <2>2, <2>3, UnitsAre DEF RestoreInv, At
  <2>5. staging \in {borg, latest}  BY <2>1, <2>2 DEF RestoreInv, Place
  <2>6. (staging = latest => ~refreshing) => Consistent(staging)
    BY <2>5 DEF ArchiveInv, ArchivesAreConsistent
  <2> QED  BY <2>1, <2>4, <2>6 DEF RestoresArchive, Consistent
<1> QED  BY <1>1, <1>2, BaseInit, HeldInit, ArchiveInit, RestoreInit, PTL DEF BackupSpec
=============================================================================
