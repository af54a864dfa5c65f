---------------------------- MODULE ServiceBackup ----------------------------
(***************************************************************************)
(* scripts/backup-service-configs.sh and restore-service-configs.sh, with  *)
(* the one database that ElasticsearchSnapshot models.                     *)
(*                                                                         *)
(* A script stops units and remembers which, works on staged copies or on  *)
(* live files, and starts the units again: at the end, or when it exits in *)
(* the middle, unless a restore has already changed something.  Every      *)
(* command may fail; a script may be ended by a signal, when bash still    *)
(* runs its EXIT trap, with $? of the last command that ended, a zero; or  *)
(* it may be killed without its trap.                                      *)
(*                                                                         *)
(* The data of a service is the number of its last write; the application  *)
(* of the database writes its files and its indices together.  Scripts do  *)
(* not overlap: neither takes a lock, and the README says what is lost by  *)
(* that.  Prune keeps the newest archive, the least it may be told.        *)
(***************************************************************************)
EXTENDS ElasticsearchSnapshot

CONSTANTS
  Services,   \* services with a backup policy, named as their units
  Database,   \* the one among them that has a database
  Engine,     \* the unit of that database
  Rank,       \* the order of the registry, each service with its units
  MaxRuns,    \* bound on scripts,
  MaxWrites,  \*   on writes of applications
  MaxCrashes  \*   and on their crashes

Units == Services \cup {Engine}

ASSUME BackupAssumption ==
  /\ Database \in Services /\ Engine \notin Services
  /\ Rank \in [Units -> Nat]
  /\ \A u, v \in Units : Rank[u] = Rank[v] => u = v
  /\ MaxRuns \in Nat /\ MaxWrites \in Nat /\ MaxCrashes \in Nat
  /\ Names = 1..MaxRuns

VARIABLES
  active,      \* units that run
  starting,    \* units that systemd is starting again after a crash
  files,       \* the live files of each service
  script,      \* the script
  staging,     \* what the script copies from, or to
  borg,        \* the newest archive of the Borg repository
  latest,      \* the service-configs-latest directory
  refreshing,  \* latest has been begun to be refreshed, and not been finished
  before,      \* units that ran when the script was started
  hurt,        \* units stopped and not yet recorded, or that do not start
  missed,      \* units that were starting when a script looked for them
  unfinished,  \* services that a restore has begun to change and not finished
  released,    \* those of them that a signal let start again
  runs, writes, crashes

unitVars == <<active, starting>>
archives == <<borg, latest, refreshing>>
counters == <<runs, writes, crashes>>
restoreVars == <<files, unfinished, released>>
vars == <<snapshotVars, unitVars, archives, restoreVars, counters,
          script, staging, before, hurt, missed>>

\* A copy of every service: its files, its dump, and (for the properties only)
\* what was live at the moment of the dump, and whether a unit was missed.
Copies == [files : [Services -> Contents], dump : Contents,
           moment : [Units -> Contents], missed : BOOLEAN]

Nothing == [files |-> [s \in Services |-> None], dump |-> None,
            moment |-> [u \in Units |-> None], missed |-> FALSE]

\* A backup made before anything was written again.
Earlier == [files |-> [s \in Services |-> 0], dump |-> 0,
            moment |-> [u \in Units |-> 0], missed |-> FALSE]

Places == {"check", "stop", "dump", "stopEngine", "copy", "restart", "create", "refresh",
           "validate", "copyBack", "import", "again", "cleanup", "idle"}

Scripts == [kind : {"backup", "restore"}, at : Places,
            todo : SUBSET Units,     \* units or services the loop has left
            stopped : SUBSET Units,  \* STOPPED_UNITS
            mutated : BOOLEAN,       \* RESTORE_MUTATED
            code : {"", "ok", "error", "signal"}]

Script(k, p) == [kind |-> k, at |-> p, todo |-> {}, stopped |-> {},
                 mutated |-> FALSE, code |-> ""]

BackupTypeOK ==
  /\ SnapshotTypeOK
  /\ active \subseteq Units /\ starting \subseteq Units /\ active \cap starting = {}
  /\ files \in [Services -> Contents]
  /\ script \in Scripts
  /\ staging \in Copies /\ borg \in Copies /\ latest \in Copies
  /\ refreshing \in BOOLEAN
  /\ before \subseteq Units /\ hurt \subseteq Units
  /\ missed \subseteq Units
  /\ unfinished \subseteq Services /\ released \subseteq unfinished
  /\ runs \in 0..MaxRuns /\ writes \in 0..MaxWrites /\ crashes \in 0..MaxCrashes

Init ==
  /\ SnapshotInit
  /\ active \in {Units, Units \ {Engine}} /\ starting = {}
  /\ files = [s \in Services |-> 0]
  /\ script = Script("backup", "idle") /\ staging = Nothing
  /\ borg \in {Nothing, Earlier} /\ latest = borg
  /\ refreshing = FALSE /\ before = {} /\ hurt = {} /\ missed = {}
  /\ unfinished = {} /\ released = {} /\ runs = 0 /\ writes = 0 /\ crashes = 0

Place(p) == script.at = p
Enter(p, S) == script' = [script EXCEPT !.at = p, !.todo = S]
Finished == script.todo = {}
Pass(u) == script' = [script EXCEPT !.todo = @ \ {u}]
Chosen(u) == u \in script.todo /\ \A v \in script.todo : Rank[u] <= Rank[v]
ChosenLast(u) == u \in script.todo /\ \A v \in script.todo : Rank[v] <= Rank[u]

\* Faulty: the trap does not ask what a restore has changed.
Exit_AlwaysRestarts(c) ==
  /\ script' = [script EXCEPT !.at = "cleanup", !.code = c, !.todo = script.stopped]
  /\ released' = IF c = "signal" /\ script.mutated THEN unfinished ELSE released

\* Faulty: units are started again only at the end of the script.
Exit_WithoutTrap(c) ==
  /\ script' = [script EXCEPT !.at = "cleanup", !.code = c,
                  !.todo = IF c = "ok" THEN script.stopped ELSE {}]
  /\ released' = IF c = "signal" /\ script.mutated THEN unfinished ELSE released

\* The trap.  Only an exit status other than zero keeps units stopped, and
\* after a signal $? is zero.
Exit(c) ==
  /\ script' = [script EXCEPT !.at = "cleanup", !.code = c,
                  !.todo = IF c = "error" /\ script.mutated
                             THEN {} ELSE script.stopped]
  /\ released' = IF c = "signal" /\ script.mutated THEN unfinished ELSE released

-----------------------------------------------------------------------------
(* Both scripts: stopping and starting units. *)

\* The unit is down, and systemctl has yet to return.
StopUnit(u) ==
  /\ \E p \in {"stop", "stopEngine"} : Place(p)
  /\ Chosen(u) /\ u \in active
  /\ active' = active \ {u} /\ hurt' = hurt \cup {u}
  /\ UNCHANGED <<snapshotVars, starting, archives, restoreVars, counters,
                 script, staging, before, missed>>

Record(u) ==
  /\ \E p \in {"stop", "stopEngine"} : Place(p)
  /\ Chosen(u) /\ u \in hurt
  /\ script' = [script EXCEPT !.todo = @ \ {u}, !.stopped = @ \cup {u}]
  /\ hurt' = hurt \ {u}
  /\ UNCHANGED <<snapshotVars, unitVars, archives, restoreVars, counters,
                 staging, before, missed>>

\* is-active is false of a unit that systemd is about to start again.
Skip(u) ==
  /\ \E p \in {"stop", "stopEngine"} : Place(p)
  /\ Chosen(u) /\ u \notin active \cup hurt
  /\ Pass(u)
  /\ missed' = missed \cup ({u} \cap starting)
  /\ staging' = [staging EXCEPT !.missed =
                   @ \/ (script.kind = "backup" /\ u \in starting)]
  /\ UNCHANGED <<snapshotVars, unitVars, archives, restoreVars, counters, before, hurt>>

\* Backwards; what does not start is kept for the next time.
Restart(u) ==
  /\ \E p \in {"restart", "cleanup"} : Place(p)
  /\ ChosenLast(u)
  /\ \/ /\ active' = active \cup {u} /\ starting' = starting \ {u}
        /\ script' = [script EXCEPT !.todo = @ \ {u}, !.stopped = @ \ {u}]
        /\ UNCHANGED hurt
     \/ Pass(u) /\ hurt' = hurt \cup {u} /\ UNCHANGED unitVars
  /\ UNCHANGED <<snapshotVars, archives, restoreVars, counters, staging, before, missed>>

\* What did not start is tried once more by the trap.
Restarted ==
  /\ Place("restart") /\ Finished
  /\ CASE script.stopped # {} -> Exit("error")
       [] script.kind = "backup" -> Enter("create", {}) /\ UNCHANGED released
       [] OTHER -> Exit("ok")
  /\ UNCHANGED <<snapshotVars, unitVars, archives, files, unfinished, counters,
                 staging, before, hurt, missed>>

\* The process is gone, and what it staged.
Vanish ==
  /\ script' = Script("backup", "idle")
  /\ staging' = Nothing /\ before' = {} /\ hurt' = {}
  /\ Die
  /\ UNCHANGED <<unitVars, archives, restoreVars, counters, missed>>

CleanedUp == Place("cleanup") /\ Finished /\ Vanish

Kill == ~Place("idle") /\ Vanish

\* A command fails without effect, or a signal ends the script; what it ran of
\* the helper ends with it.
Break(c) ==
  /\ script.at \notin {"idle", "cleanup"} /\ c \in {"error", "signal"}
  /\ Exit(c)
  /\ Die
  /\ UNCHANGED <<unitVars, archives, files, unfinished, counters, staging,
                 before, hurt, missed>>

-----------------------------------------------------------------------------
(* backup-service-configs.sh *)

Start(k, p, a) ==
  /\ Place("idle") /\ runs < MaxRuns
  /\ runs' = runs + 1
  /\ script' = Script(k, p)
  /\ staging' = a /\ before' = active /\ hurt' = {}
  /\ UNCHANGED <<snapshotVars, unitVars, archives, restoreVars, writes, crashes, missed>>

StartBackup == Start("backup", "check", Nothing)

\* Faulty: only the service that has a database is stopped.
Check_OnlyTheDatabase ==
  /\ Place("check") /\ Engine \in active
  /\ Enter("stop", {Database})
  /\ UNCHANGED <<snapshotVars, unitVars, archives, restoreVars, counters,
                 staging, before, hurt, missed>>

\* Databases must run; they are stopped after their dump.
Check ==
  /\ Place("check") /\ Engine \in active
  /\ Enter("stop", Services)
  /\ UNCHANGED <<snapshotVars, unitVars, archives, restoreVars, counters,
                 staging, before, hurt, missed>>

Dump ==
  /\ Place("stop") /\ script.kind = "backup" /\ Finished
  /\ Enter("dump", {})
  /\ Call("backup", runs, None)
  /\ UNCHANGED <<unitVars, archives, restoreVars, counters, staging, before, hurt, missed>>

\* The dump is looked at as a restore will look at it.
Dumped ==
  /\ Place("dump") /\ At("done") /\ ~helper.failed /\ Whole(helper.archive)
  /\ staging' = [staging EXCEPT !.dump = helper.archive,
                   !.moment = [u \in Units |-> IF u = Engine THEN live ELSE files[u]]]
  /\ Die
  /\ Enter("stopEngine", {Engine})
  /\ UNCHANGED <<unitVars, archives, restoreVars, counters, before, hurt, missed>>

Copy ==
  /\ Place("stopEngine") /\ Finished
  /\ Enter("copy", Services)
  /\ UNCHANGED <<snapshotVars, unitVars, archives, restoreVars, counters,
                 staging, before, hurt, missed>>

\* A copy that is made while the service writes is torn.
CopyOut(s) ==
  /\ Place("copy") /\ Chosen(s) /\ files[s] # None
  /\ \E c \in {files[s]} \cup (IF s \in active THEN {Partial} ELSE {}) :
        staging' = [staging EXCEPT !.files[s] = c]
  /\ Pass(s)
  /\ UNCHANGED <<snapshotVars, unitVars, archives, restoreVars, counters,
                 before, hurt, missed>>

Copied ==
  /\ Place("copy") /\ Finished
  /\ Enter("restart", script.stopped)
  /\ UNCHANGED <<snapshotVars, unitVars, archives, restoreVars, counters,
                 staging, before, hurt, missed>>

\* An archive whose verification fails later is the newest one all the same.
Create ==
  /\ Place("create")
  /\ borg' = staging
  /\ Enter("refresh", Units)
  /\ UNCHANGED <<snapshotVars, unitVars, latest, refreshing, restoreVars, counters,
                 staging, before, hurt, missed>>

\* Part by part, the dump with the rest (Engine stands for it).
Refresh(u) ==
  /\ Place("refresh") /\ Chosen(u)
  /\ \/ /\ latest' = IF u = Engine THEN [latest EXCEPT !.dump = staging.dump]
                     ELSE [latest EXCEPT !.files[u] = staging.files[u]]
        /\ Pass(u)
     \/ /\ u # Engine
        /\ latest' = [latest EXCEPT !.files[u] = Partial]
        /\ UNCHANGED script
  /\ refreshing' = TRUE
  /\ UNCHANGED <<snapshotVars, unitVars, borg, restoreVars, counters,
                 staging, before, hurt, missed>>

Refreshed ==
  /\ Place("refresh") /\ Finished
  /\ latest' = staging /\ refreshing' = FALSE
  /\ Exit("ok")
  /\ UNCHANGED <<snapshotVars, unitVars, borg, files, unfinished, counters,
                 staging, before, hurt, missed>>

-----------------------------------------------------------------------------
(* restore-service-configs.sh *)

StartRestore == \E a \in {borg, latest} : Start("restore", "validate", a)

\* All of the source, before a unit is stopped.
ValidateSource ==
  /\ Place("validate")
  /\ Whole(staging.dump) /\ \A s \in Services : staging.files[s] # None
  /\ Enter("stop", Units)
  /\ UNCHANGED <<snapshotVars, unitVars, archives, restoreVars, counters,
                 staging, before, hurt, missed>>

CopyBack ==
  /\ Place("stop") /\ script.kind = "restore" /\ Finished
  /\ Enter("copyBack", Services)
  /\ UNCHANGED <<snapshotVars, unitVars, archives, restoreVars, counters,
                 staging, before, hurt, missed>>

\* rsync --delete begins, and ends.
CopyBegin(s) ==
  /\ Place("copyBack") /\ Chosen(s)
  /\ script' = [script EXCEPT !.mutated = TRUE]
  /\ files' = [files EXCEPT ![s] = Partial]
  /\ unfinished' = unfinished \cup {s} /\ released' = released \ {s}
  /\ UNCHANGED <<snapshotVars, unitVars, archives, counters,
                 staging, before, hurt, missed>>

CopyEnd(s) ==
  /\ Place("copyBack") /\ Chosen(s) /\ s \in unfinished
  /\ script.mutated /\ files[s] = Partial
  /\ files' = [files EXCEPT ![s] = staging.files[s]]
  /\ Pass(s)
  /\ UNCHANGED <<snapshotVars, unitVars, archives, unfinished, released, counters,
                 staging, before, hurt, missed>>

StartEngine ==
  /\ Place("copyBack") /\ Finished
  /\ active' = active \cup {Engine} /\ starting' = starting \ {Engine}
  /\ Call("restore", runs, staging.dump)
  /\ Enter("import", {})
  /\ UNCHANGED <<archives, restoreVars, counters, staging, before, hurt, missed>>

\* With --restart-services, or without.
Imported ==
  /\ Place("import") /\ At("done") /\ ~helper.failed
  /\ unfinished' = {} /\ released' = {} /\ missed' = {}
  /\ Die
  /\ Enter("again", Services) \/ Enter("restart", script.stopped)
  /\ UNCHANGED <<unitVars, archives, files, counters, staging, before, hurt>>

\* systemctl restart stops a unit before it starts it.
Again(s) ==
  /\ Place("again") /\ Chosen(s)
  /\ \/ /\ active' = active \cup {s} /\ starting' = starting \ {s}
        /\ Pass(s) /\ UNCHANGED <<released, hurt>>
     \/ /\ active' = active \ {s} /\ starting' = starting \ {s}
        /\ hurt' = hurt \cup {s} /\ Exit("error")
  /\ UNCHANGED <<snapshotVars, archives, files, unfinished, counters,
                 staging, before, missed>>

AllAgain ==
  /\ Place("again") /\ Finished
  /\ Enter("restart", script.stopped)
  /\ UNCHANGED <<snapshotVars, unitVars, archives, restoreVars, counters,
                 staging, before, hurt, missed>>

-----------------------------------------------------------------------------
(* What goes on beside the scripts. *)

Helper ==
  /\ HelperStep
  /\ UNCHANGED <<unitVars, archives, restoreVars, counters, script, staging,
                 before, hurt, missed>>

Background(n) ==
  /\ Engine \in active
  /\ Complete(n)
  /\ UNCHANGED <<unitVars, archives, restoreVars, counters, script, staging,
                 before, hurt, missed>>

Write(s) ==
  /\ writes < MaxWrites /\ s \in active /\ files[s] \in Nat
  /\ s = Database => Engine \in active /\ live \in Nat
  /\ writes' = writes + 1
  /\ files' = [files EXCEPT ![s] = writes + 1]
  /\ live' = IF s = Database THEN writes + 1 ELSE live
  /\ UNCHANGED <<exports, registered, busy, restoring, helper, unitVars, archives,
                 unfinished, released, runs, crashes, script, staging, before, hurt, missed>>

Crash(s) ==
  /\ crashes < MaxCrashes /\ s \in active
  /\ crashes' = crashes + 1
  /\ active' = active \ {s} /\ starting' = starting \cup {s}
  /\ UNCHANGED <<snapshotVars, archives, restoreVars, runs, writes,
                 script, staging, before, hurt, missed>>

Started(s) ==
  /\ s \in starting
  /\ active' = active \cup {s} /\ starting' = starting \ {s}
  /\ UNCHANGED <<snapshotVars, archives, restoreVars, counters,
                 script, staging, before, hurt, missed>>

Next ==
  \/ \E u \in Units : StopUnit(u) \/ Record(u) \/ Skip(u) \/ Restart(u) \/ Refresh(u)
  \/ Restarted \/ CleanedUp \/ Kill
  \/ \E c \in {"error", "signal"} : Break(c)
  \/ StartBackup \/ Check \/ Dump \/ Dumped \/ Copy \/ Copied \/ Create \/ Refreshed
  \/ StartRestore \/ ValidateSource \/ CopyBack \/ StartEngine \/ Imported \/ AllAgain
  \/ \E s \in Services : CopyOut(s) \/ CopyBegin(s) \/ CopyEnd(s) \/ Again(s)
  \/ Helper
  \/ \E n \in Names : Background(n)
  \/ \E s \in Services : Write(s) \/ Crash(s) \/ Started(s)

BackupSpec == Init /\ [][Next]_vars

-----------------------------------------------------------------------------
(* Properties *)

\* An archive holds the files and the indices of one moment, that of the dump,
\* unless a unit was between two starts when the script looked for it.  The
\* latest copy does, unless a refresh of it was cut off.
Consistent(a) ==
  a.missed \/ /\ a.dump = a.moment[Engine]
              /\ \A s \in Services : a.files[s] = a.moment[s]

ArchivesAreConsistent == Consistent(borg) /\ (refreshing \/ Consistent(latest))

\* A failed restore leaves what it has begun to change stopped, and so does
\* every script after it, until a restore succeeds: cleanup() of
\* restore-service-configs.sh, unless a signal ended the restore.
NothingRunsOnPartialState == unfinished \cap active \subseteq missed \cup released

\* The same with signals, as docs/storage-backups.md says: "A failed import
\* returns failure and leaves affected applications stopped".
FailedRestoreLeavesStopped == unfinished \cap active \subseteq missed

\* Whatever fails, and whichever signal ends a script, what it has stopped is
\* started again, except by a restore that failed after its first change and
\* for a unit that systemctl does not start or that was not yet recorded.
StoppedUnitsComeBack ==
  /\ Place("cleanup") /\ Finished
  /\ ~(script.kind = "restore" /\ script.mutated /\ script.code = "error")
  => before \ (active \cup starting) \subseteq hurt

\* The indices are never lost: while they are deleted or incomplete a backup
\* has them; and no repository that Elasticsearch knows loses its directory.
SnapshotsAreSafe ==
  /\ live \notin Nat => Whole(borg.dump) \/ Whole(latest.dump)
  /\ RegisteredKeepTheirDirectory
=============================================================================
