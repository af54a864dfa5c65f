------------------------ MODULE ElasticsearchSnapshot ------------------------
(***************************************************************************)
(* scripts/lib/elasticsearch-snapshot.py: TubeArchivist's indices are      *)
(* exported and restored through a snapshot repository that exists for one *)
(* call only.  Its directory is in the container, and Elasticsearch knows  *)
(* of it while it is registered.                                           *)
(*                                                                         *)
(* A request may fail without effect, or take effect and lose its answer:  *)
(* curl gives up after 180 seconds, and a snapshot or a restore then goes  *)
(* on in the background.  The process may be killed anywhere.  What a      *)
(* snapshot holds is the version of the application's data it was taken    *)
(* of; checksums and the layout of the archive are left out.               *)
(***************************************************************************)
EXTENDS Naturals

CONSTANTS
  Names,    \* names of calls and of their repositories
  None,     \* nothing there
  Gone,     \* no indices
  Partial,  \* indices with shards missing, or files cut off
  NoCall    \* no call is running

ASSUME ContentAssumption ==
  /\ {None, Gone, Partial} \cap Nat = {}
  /\ None # Gone /\ None # Partial /\ Gone # Partial
ASSUME NoCallAssumption == NoCall \notin Names

VARIABLES
  live,        \* the indices
  exports,     \* the directory of each repository
  registered,  \* repositories that Elasticsearch knows
  busy,        \* those that a snapshot or a restore is still using
  restoring,   \* the one the indices are restored from in the background
  helper       \* the call

snapshotVars == <<live, exports, registered, busy, restoring, helper>>

Contents == Nat \cup {None, Gone, Partial}

Calls == [op : {"backup", "restore"},
          name : Names \cup {NoCall},  \* NoCall between two calls
          at : {"idle", "validate", "ready", "import", "register", "snapshot",
                "unregister", "export", "look", "delete", "post", "finally",
                "remove", "done"},
          mine : BOOLEAN,       \* the local variable registered
          archive : Contents,   \* the archive read or written
          failed : BOOLEAN]

Idle == [op |-> "backup", name |-> NoCall, at |-> "idle", mine |-> FALSE,
         archive |-> None, failed |-> FALSE]

SnapshotTypeOK ==
  /\ live \in Contents \ {None}
  /\ exports \in [Names -> Contents]
  /\ registered \subseteq Names
  /\ busy \subseteq Names /\ restoring \in Names \cup {NoCall}
  /\ helper \in Calls

SnapshotInit ==
  /\ live = 0 /\ exports = [n \in Names |-> None]
  /\ registered = {} /\ busy = {} /\ restoring = NoCall
  /\ helper = Idle

name == helper.name
At(p) == helper.at = p
Goto(p) == helper' = [helper EXCEPT !.at = p]

\* check_indices and check_snapshot, and the checksums of an archive.
Whole(c) == c \in Nat

\* An exception inside and outside the try statement.
Raise == helper' = [helper EXCEPT !.at = "finally", !.failed = TRUE]
Refuse == helper' = [helper EXCEPT !.at = "done", !.failed = TRUE]

-----------------------------------------------------------------------------
\* What the scripts call: a backup that writes an archive, or a restore from
\* the archive a.
Call(op, n, a) ==
  /\ At("idle")
  /\ helper' = [op |-> op, name |-> n, mine |-> FALSE, archive |-> a, failed |-> FALSE,
                at |-> IF op = "backup" THEN "ready" ELSE "validate"]
  /\ UNCHANGED <<live, exports, registered, busy, restoring>>

Validate ==
  /\ At("validate")
  /\ \/ Whole(helper.archive) /\ Goto("ready")
     \/ Refuse
  /\ UNCHANGED <<live, exports, registered, busy, restoring>>

\* Shards that are missing or being restored keep ready() from returning.
Ready ==
  /\ At("ready")
  /\ \/ /\ live # Partial /\ restoring = NoCall
        /\ Goto(IF helper.op = "backup" THEN "register" ELSE "import")
     \/ Refuse
  /\ UNCHANGED <<live, exports, registered, busy, restoring>>

\* The archive's repository is copied into the container.
Import ==
  /\ At("import")
  /\ \/ exports' = [exports EXCEPT ![name] = helper.archive] /\ Goto("register")
     \/ /\ exports' \in {exports, [exports EXCEPT ![name] = Partial]}
        /\ Raise
  /\ UNCHANGED <<live, registered, busy, restoring>>

\* Faulty: a repository counts as registered only after the answer.
Register_AfterAnswer ==
  /\ At("register")
  /\ \/ /\ registered' = registered \cup {name}
        /\ exports' = [exports EXCEPT ![name] = IF @ = None THEN Partial ELSE @]
        /\ \/ helper' = [helper EXCEPT !.mine = TRUE,
                           !.at = IF helper.op = "backup" THEN "snapshot" ELSE "look"]
           \/ helper' = [helper EXCEPT !.at = "finally", !.failed = TRUE]
     \/ /\ helper' = [helper EXCEPT !.at = "finally", !.failed = TRUE]
        /\ UNCHANGED <<registered, exports>>
  /\ UNCHANGED <<live, busy, restoring>>

\* The repository counts as registered before the request is sent.
\* Elasticsearch makes its directory when there is none.
Register ==
  /\ At("register")
  /\ \/ /\ registered' = registered \cup {name}
        /\ exports' = [exports EXCEPT ![name] = IF @ = None THEN Partial ELSE @]
        /\ \/ helper' = [helper EXCEPT !.mine = TRUE,
                           !.at = IF helper.op = "backup" THEN "snapshot" ELSE "look"]
           \/ helper' = [helper EXCEPT !.mine = TRUE, !.at = "finally", !.failed = TRUE]
     \/ /\ helper' = [helper EXCEPT !.mine = TRUE, !.at = "finally", !.failed = TRUE]
        /\ UNCHANGED <<registered, exports>>
  /\ UNCHANGED <<live, busy, restoring>>

-----------------------------------------------------------------------------
(* backup *)

\* Without the required indices the snapshot is refused by check_snapshot().
Snapshot ==
  /\ At("snapshot")
  /\ \/ /\ Whole(live)
        /\ exports' = [exports EXCEPT ![name] = live]
        /\ \/ Goto("unregister") /\ UNCHANGED busy
           \/ Raise /\ busy' = busy \cup {name}
     \/ Raise /\ UNCHANGED <<exports, busy>>
  /\ UNCHANGED <<live, registered, restoring>>

\* Nothing may write to the repository while it is exported.
Unregister ==
  /\ At("unregister")
  /\ \/ /\ registered' = registered \ {name}
        /\ \/ helper' = [helper EXCEPT !.mine = FALSE, !.at = "export"]
           \/ Raise
     \/ Raise /\ UNCHANGED registered
  /\ UNCHANGED <<live, exports, busy, restoring>>

\* docker cp, and write_archive(), which replaces its output at once.
Export ==
  /\ At("export")
  /\ \/ helper' = [helper EXCEPT !.archive = exports[name], !.at = "finally"]
     \/ Raise
  /\ UNCHANGED <<live, exports, registered, busy, restoring>>

-----------------------------------------------------------------------------
(* restore *)

\* The snapshot and the live indices are looked at before anything is deleted.
Look ==
  /\ At("look")
  /\ \/ exports[name] = helper.archive /\ Goto(IF live = Gone THEN "post" ELSE "delete")
     \/ Raise
  /\ UNCHANGED <<live, exports, registered, busy, restoring>>

\* Only the indices of the archive are deleted; the answer may be lost.
Delete ==
  /\ At("delete")
  /\ \/ live' = Gone /\ (Goto("post") \/ Raise)
     \/ UNCHANGED live /\ Raise
  /\ UNCHANGED <<exports, registered, busy, restoring>>

\* The restore is complete, has missing shards, goes on without its caller, or
\* does not begin.
Post ==
  /\ At("post")
  /\ \/ /\ live' = exports[name] /\ Goto("finally")
        /\ UNCHANGED <<busy, restoring>>
     \/ /\ live' \in {live, Partial} /\ Raise
        /\ UNCHANGED <<busy, restoring>>
     \/ /\ busy' = busy \cup {name} /\ restoring' = name /\ Raise
        /\ UNCHANGED live
  /\ UNCHANGED <<exports, registered>>

-----------------------------------------------------------------------------
(* Cleaning up. *)

\* Faulty: the directory goes even when the repository does not.
Finally_Regardless ==
  /\ At("finally")
  /\ \/ /\ name \in registered \ busy
        /\ registered' = registered \ {name}
     \/ UNCHANGED registered
  /\ Goto("remove")
  /\ UNCHANGED <<live, exports, busy, restoring>>

\* A repository that is in use, or not known, is not given up; one that is not
\* given up keeps its directory.
Finally ==
  /\ At("finally")
  /\ IF helper.mine
       THEN \/ /\ name \in registered \ busy
               /\ registered' = registered \ {name}
               /\ Goto("remove") \/ Refuse
            \/ Refuse /\ UNCHANGED registered
       ELSE Goto("remove") /\ UNCHANGED registered
  /\ UNCHANGED <<live, exports, busy, restoring>>

RemoveExport ==
  /\ At("remove")
  /\ \/ exports' = [exports EXCEPT ![name] = None] /\ (Goto("done") \/ Refuse)
     \/ /\ exports[name] # None
        /\ exports' \in {exports, [exports EXCEPT ![name] = Partial]}
        /\ Refuse
  /\ UNCHANGED <<live, registered, busy, restoring>>

HelperStep ==
  \/ Validate \/ Ready \/ Import \/ Register
  \/ Snapshot \/ Unregister \/ Export
  \/ Look \/ Delete \/ Post \/ Finally \/ RemoveExport

\* The process is gone: everything else stays as it is.
Die == helper' = Idle /\ UNCHANGED <<live, exports, registered, busy, restoring>>

\* Elasticsearch ends what it was doing in the background.
Complete(n) ==
  /\ n \in busy
  /\ busy' = busy \ {n}
  /\ IF n = restoring
       THEN live' \in {exports[n], Partial} /\ restoring' = NoCall
       ELSE UNCHANGED <<live, restoring>>
  /\ UNCHANGED <<exports, registered, helper>>

-----------------------------------------------------------------------------
(* Properties *)

\* "Never delete a still-registered repository, even when unregister fails":
\* whatever answers are lost, and whenever the helper is killed, what
\* Elasticsearch knows as a repository, or still uses, has its directory.
RegisteredKeepTheirDirectory ==
  \A n \in registered \cup busy : exports[n] # None
=============================================================================
