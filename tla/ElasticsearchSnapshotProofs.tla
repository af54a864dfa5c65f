--------------------- MODULE ElasticsearchSnapshotProofs ---------------------
(***************************************************************************)
(* What the steps of ElasticsearchSnapshot keep, for any names of calls:   *)
(* lemmas for the proofs about the scripts that call it.                   *)
(***************************************************************************)
EXTENDS ElasticsearchSnapshot, TLAPS

-----------------------------------------------------------------------------
(* Types *)

\* Typed but for live # None, which needs CallInv.
CallTyped ==
  /\ live \in Contents /\ exports \in [Names -> Contents]
  /\ registered \subseteq Names /\ busy \subseteq Names
  /\ restoring \in Names \cup {NoCall}
  /\ helper \in Calls
  /\ At("idle") \/ name \in Names

\* Markers are not versions, and the copies of versions are.
LEMMA Markers ==
  /\ None \notin Nat /\ Gone \notin Nat /\ Partial \notin Nat
  /\ None # Gone /\ None # Partial /\ Gone # Partial
  /\ {None, Gone, Partial} \subseteq Contents /\ Nat \subseteq Contents
<1>1. None \notin Nat /\ Gone \notin Nat /\ Partial \notin Nat  BY ContentAssumption
<1> QED  BY <1>1, ContentAssumption DEF Contents

LEMMA IdleTyped == Idle \in Calls /\ Idle.at = "idle"
BY Markers DEF Idle, Calls

\* Where a call is between its start and its end.
CallPlaces == {"validate", "ready", "import", "register", "snapshot", "unregister", "export",
               "look", "delete", "post", "finally", "remove", "done"}

\* What the updates of the call change, and what they leave alone.
LEMMA GotoKeeps ==
  ASSUME helper \in Calls, NEW p \in CallPlaces, Goto(p)
  PROVE  /\ helper' \in Calls /\ helper'.at = p
         /\ UNCHANGED <<helper.op, helper.name, helper.mine, helper.archive, helper.failed>>
<1>1. helper' = [op |-> helper.op, name |-> helper.name, at |-> p, mine |-> helper.mine,
                 archive |-> helper.archive, failed |-> helper.failed]
  BY DEF Goto, Calls
<1>2. /\ helper.op \in {"backup", "restore"} /\ helper.name \in Names \cup {NoCall}
      /\ helper.mine \in BOOLEAN /\ helper.archive \in Contents /\ helper.failed \in BOOLEAN
  BY DEF Calls
<1> QED  BY <1>1, <1>2 DEF Calls, CallPlaces

LEMMA FailureKeeps ==
  ASSUME helper \in Calls, Raise \/ Refuse
  PROVE  /\ helper' \in Calls /\ helper'.failed
         /\ helper'.at \in {"finally", "done"} /\ (Raise => helper'.at = "finally")
         /\ Refuse => helper'.at = "done"
         /\ UNCHANGED <<helper.op, helper.name, helper.mine, helper.archive>>
<1>1. PICK p \in {"finally", "done"} :
        /\ helper' = [helper EXCEPT !.at = p, !.failed = TRUE]
        /\ (Raise => p = "finally") /\ (Refuse => p = "done")
  <2>1. CASE Raise /\ ~Refuse  BY <2>1 DEF Raise
  <2>2. CASE Refuse /\ ~Raise  BY <2>2 DEF Refuse
  <2>3. CASE Raise /\ Refuse
    <3>1. helper'.at = "finally" /\ helper'.at = "done"  BY <2>3 DEF Raise, Refuse, Calls
    <3> QED  BY <3>1
  <2> QED  BY <2>1, <2>2, <2>3
<1>2. helper' = [op |-> helper.op, name |-> helper.name, at |-> p, mine |-> helper.mine,
                 archive |-> helper.archive, failed |-> TRUE]
  BY <1>1 DEF Calls
<1>3. /\ helper.op \in {"backup", "restore"} /\ helper.name \in Names \cup {NoCall}
      /\ helper.mine \in BOOLEAN /\ helper.archive \in Contents
  BY DEF Calls
<1> QED  BY <1>1, <1>2, <1>3 DEF Calls

LEMMA HoldingKeeps ==
  ASSUME helper \in Calls, NEW p \in CallPlaces, NEW m \in BOOLEAN,
         \/ helper' = [helper EXCEPT !.mine = m, !.at = p]
         \/ helper' = [helper EXCEPT !.mine = m, !.at = p, !.failed = TRUE]
  PROVE  /\ helper' \in Calls /\ helper'.at = p /\ helper'.mine = m
         /\ UNCHANGED <<helper.op, helper.name, helper.archive>>
<1>1. PICK f \in {helper.failed, TRUE} :
        helper' = [op |-> helper.op, name |-> helper.name, at |-> p, mine |-> m,
                   archive |-> helper.archive, failed |-> f]
  BY DEF Calls
<1>2. /\ helper.op \in {"backup", "restore"} /\ helper.name \in Names \cup {NoCall}
      /\ helper.archive \in Contents /\ helper.failed \in BOOLEAN
  BY DEF Calls
<1> QED  BY <1>1, <1>2 DEF Calls, CallPlaces

LEMMA ArchivingKeeps ==
  ASSUME helper \in Calls, NEW a \in Contents,
         helper' = [helper EXCEPT !.archive = a, !.at = "finally"]
  PROVE  /\ helper' \in Calls /\ helper'.at = "finally"
         /\ UNCHANGED <<helper.op, helper.name, helper.mine, helper.failed>>
<1>1. helper' = [op |-> helper.op, name |-> helper.name, at |-> "finally",
                 mine |-> helper.mine, archive |-> a, failed |-> helper.failed]
  BY DEF Calls
<1>2. /\ helper.op \in {"backup", "restore"} /\ helper.name \in Names \cup {NoCall}
      /\ helper.mine \in BOOLEAN /\ helper.failed \in BOOLEAN
  BY DEF Calls
<1> QED  BY <1>1, <1>2 DEF Calls

\* A step leads to one of the places P; its operation and its name stay.
Leads(P) ==
  /\ helper' \in Calls /\ helper'.at \in P
  /\ helper'.op = helper.op /\ helper'.name = helper.name

\* Where each step leads.
LEMMA ValidateLeads ==
  ASSUME CallTyped, Validate
  PROVE  Leads({"ready", "done"}) /\ UNCHANGED <<helper.mine, helper.archive>>
<1>1. helper \in Calls  BY DEF CallTyped
<1> QED  BY <1>1, GotoKeeps, FailureKeeps DEF Validate, CallPlaces, At, Leads

LEMMA ReadyLeads ==
  ASSUME CallTyped, Ready
  PROVE  /\ Leads({"register", "import", "done"})
         /\ helper'.at = "import" => helper.op = "restore"
         /\ UNCHANGED <<helper.mine, helper.archive>>
<1>1. helper \in Calls /\ helper.op \in {"backup", "restore"}  BY DEF CallTyped, Calls
<1>2. \/ helper.op = "backup" /\ Goto("register")
      \/ helper.op = "restore" /\ Goto("import")
      \/ Refuse
  BY <1>1 DEF Ready
<1> QED  BY <1>1, <1>2, GotoKeeps, FailureKeeps DEF CallPlaces, Leads

LEMMA ImportLeads ==
  ASSUME CallTyped, Import
  PROVE  Leads({"register", "finally"}) /\ UNCHANGED <<helper.mine, helper.archive>>
<1>1. helper \in Calls  BY DEF CallTyped
<1> QED  BY <1>1, GotoKeeps, FailureKeeps DEF Import, CallPlaces, At, Leads

LEMMA RegisterLeads ==
  ASSUME CallTyped, Register
  PROVE  /\ Leads({"snapshot", "look", "finally"}) /\ helper'.mine
         /\ helper'.at = "look" => helper.op = "restore"
         /\ helper'.at # "finally" => registered' = registered \cup {name}
<1>1. helper \in Calls /\ helper.op \in {"backup", "restore"}  BY DEF CallTyped, Calls
<1>2. \E p \in {"snapshot", "look", "finally"} :
        /\ \/ helper' = [helper EXCEPT !.mine = TRUE, !.at = p]
           \/ helper' = [helper EXCEPT !.mine = TRUE, !.at = p, !.failed = TRUE]
        /\ p = "look" => helper.op = "restore"
        /\ p # "finally" => registered' = registered \cup {name}
  BY <1>1 DEF Register
<1> QED  BY <1>1, <1>2, HoldingKeeps DEF CallPlaces, Leads

LEMMA SnapshotLeads ==
  ASSUME CallTyped, Snapshot
  PROVE  /\ Leads({"unregister", "finally"}) /\ UNCHANGED helper.mine
         /\ helper'.at = "unregister" => busy' = busy
<1>1. helper \in Calls  BY DEF CallTyped
<1>2. Raise \/ (Goto("unregister") /\ busy' = busy)  BY DEF Snapshot
<1> QED  BY <1>1, <1>2, GotoKeeps, FailureKeeps DEF CallPlaces, Leads

LEMMA UnregisterLeads ==
  ASSUME CallTyped, Unregister
  PROVE  /\ Leads({"export", "finally"})
         /\ helper'.at = "export" => ~helper'.mine /\ registered' = registered \ {name}
         /\ helper'.at = "finally" => UNCHANGED helper.mine
<1>1. helper \in Calls  BY DEF CallTyped
<1>2. \/ Raise
      \/ /\ helper' = [helper EXCEPT !.mine = FALSE, !.at = "export"]
         /\ registered' = registered \ {name}
  BY DEF Unregister
<1> QED  BY <1>1, <1>2, HoldingKeeps, FailureKeeps DEF CallPlaces, Leads

LEMMA ExportLeads ==
  ASSUME CallTyped, Export
  PROVE  Leads({"finally"}) /\ UNCHANGED helper.mine
<1>1. helper \in Calls  BY DEF CallTyped
<1>2. helper.at = "export"  BY DEF Export, At
<1>3. name \in Names  BY <1>2 DEF CallTyped, At
<1>4. exports[name] \in Contents  BY <1>3 DEF CallTyped
<1> QED  BY <1>1, <1>4, ArchivingKeeps, FailureKeeps DEF Export, Leads

LEMMA LookLeads ==
  ASSUME CallTyped, Look
  PROVE  Leads({"delete", "post", "finally"}) /\ UNCHANGED helper.mine
<1>1. helper \in Calls  BY DEF CallTyped
<1> QED  BY <1>1, GotoKeeps, FailureKeeps DEF Look, CallPlaces, At, Leads

LEMMA DeleteLeads ==
  ASSUME CallTyped, Delete
  PROVE  Leads({"post", "finally"}) /\ UNCHANGED helper.mine
<1>1. helper \in Calls  BY DEF CallTyped
<1> QED  BY <1>1, GotoKeeps, FailureKeeps DEF Delete, CallPlaces, At, Leads

LEMMA PostLeads ==
  ASSUME CallTyped, Post
  PROVE  Leads({"finally"}) /\ UNCHANGED helper.mine
<1>1. helper \in Calls  BY DEF CallTyped
<1> QED  BY <1>1, GotoKeeps, FailureKeeps DEF Post, CallPlaces, At, Leads

LEMMA FinallyLeads ==
  ASSUME CallTyped, Finally
  PROVE  /\ Leads({"remove", "done"}) /\ UNCHANGED helper.mine
         /\ helper'.at = "remove" =>
              \/ ~helper.mine /\ registered' = registered
              \/ name \notin busy /\ registered' = registered \ {name}
<1>1. helper \in Calls  BY DEF CallTyped
<1>2. \/ Refuse
      \/ /\ Goto("remove")
         /\ \/ ~helper.mine /\ registered' = registered
            \/ name \notin busy /\ registered' = registered \ {name}
  BY DEF Finally
<1> QED  BY <1>1, <1>2, GotoKeeps, FailureKeeps DEF CallPlaces, Leads

LEMMA RemoveExportLeads ==
  ASSUME CallTyped, RemoveExport
  PROVE  Leads({"done"}) /\ UNCHANGED helper.mine
<1>1. helper \in Calls  BY DEF CallTyped
<1> QED  BY <1>1, GotoKeeps, FailureKeeps DEF RemoveExport, CallPlaces, At, Leads

\* A step of the helper keeps its operation and its name, and the types.
LEMMA HelperLeads == CallTyped /\ HelperStep => Leads(CallPlaces) /\ ~At("idle")
<1> SUFFICES ASSUME CallTyped, HelperStep PROVE Leads(CallPlaces) /\ ~At("idle")  OBVIOUS
<1>1. Leads(CallPlaces)
  BY ValidateLeads, ReadyLeads, ImportLeads, RegisterLeads, SnapshotLeads, UnregisterLeads,
     ExportLeads, LookLeads, DeleteLeads, PostLeads, FinallyLeads, RemoveExportLeads
  DEF HelperStep, Leads, CallPlaces
<1>2. ~At("idle")
  BY DEF HelperStep, Validate, Ready, Import, Register, Snapshot, Unregister, Export, Look,
     Delete, Post, Finally, RemoveExport, At
<1> QED  BY <1>1, <1>2

LEMMA HelperKeepsTypes == CallTyped /\ HelperStep => CallTyped'
<1> SUFFICES ASSUME CallTyped, HelperStep PROVE CallTyped'  OBVIOUS
<1>1. helper' \in Calls /\ name' = name /\ name \in Names
  BY HelperLeads DEF Leads, CallTyped, name
<1>2. /\ live \in Contents /\ exports \in [Names -> Contents]
      /\ registered \subseteq Names /\ busy \subseteq Names
      /\ restoring \in Names \cup {NoCall}
  BY DEF CallTyped
<1>3. helper.archive \in Contents  BY DEF CallTyped, Calls
<1>4. exports' \in [Names -> Contents] /\ live' \in Contents
  BY <1>1, <1>2, <1>3, Markers
  DEF HelperStep, Validate, Ready, Import, Register, Snapshot, Unregister, Export, Look,
      Delete, Post, Finally, RemoveExport
<1>5. registered' \subseteq Names /\ busy' \subseteq Names /\ restoring' \in Names \cup {NoCall}
  BY <1>1, <1>2
  DEF HelperStep, Validate, Ready, Import, Register, Snapshot, Unregister, Export, Look,
      Delete, Post, Finally, RemoveExport
<1> QED  BY <1>1, <1>4, <1>5 DEF CallTyped

LEMMA CompleteKeepsTypes == ASSUME NEW n, CallTyped, Complete(n) PROVE CallTyped'
<1>1. n \in Names  BY DEF Complete, CallTyped
<1> QED  BY <1>1, Markers DEF Complete, CallTyped, At, name

LEMMA DieKeepsTypes == CallTyped /\ Die => CallTyped'
BY IdleTyped DEF CallTyped, Die, At, name

LEMMA CallKeepsTypes ==
  ASSUME NEW op \in {"backup", "restore"}, NEW n \in Names, NEW a \in Contents,
         CallTyped, Call(op, n, a)
  PROVE  CallTyped'
BY DEF CallTyped, Call, Calls, At, name

-----------------------------------------------------------------------------
(* Directories of repositories *)

\* A name that Elasticsearch neither knows nor uses.
Unknown(n) == n \notin registered \cup busy

\* Until it asks to register its repository, and after it has given it up, the
\* helper's name is unknown; and while it does not hold the repository, too.
CallInv ==
  /\ live # None
  /\ RegisteredKeepTheirDirectory
  /\ helper.at \in {"validate", "ready", "import", "register", "export"} => ~helper.mine
  /\ helper.at \in {"snapshot", "unregister", "look", "delete", "post"} => helper.mine
  /\ helper.at \in {"snapshot", "unregister"} => name \notin busy
  /\ helper.at \in {"validate", "ready", "import", "register", "export", "finally"}
       /\ ~helper.mine => Unknown(name)
  /\ helper.at = "remove" => Unknown(name)
  /\ helper.at \in {"look", "delete", "post"} => exports[name] # None
  /\ helper.at \in {"import", "look", "delete", "post"} => helper.op = "restore"
  /\ helper.op = "restore" /\ helper.at \in {"ready", "import"} => helper.archive # None

\* A step that leaves Elasticsearch alone keeps what is known of directories.
LEMMA QuietKeepsInv ==
  ASSUME CallInv, UNCHANGED <<live, exports, registered, busy>>,
         UNCHANGED <<helper.name, helper.op, helper.mine, helper.archive>>,
         \/ helper'.at = "done"
         \/ /\ helper.at \in {"validate", "ready"}
            /\ helper'.at \in {"ready", "import", "register"}
            /\ helper'.at = "import" => helper.op = "restore"
            /\ helper.op = "restore" => helper.archive # None
         \/ /\ helper.at \in {"look", "delete"}
            /\ helper'.at \in {"delete", "post", "finally"}
  PROVE  CallInv'
<1>1. helper'.at = "done" => CallInv'  BY DEF CallInv, RegisteredKeepTheirDirectory
<1>2. CASE helper.at \in {"validate", "ready"}
  <2>1. ~helper.mine /\ Unknown(name)  BY <1>2 DEF CallInv
  <2> QED  BY <1>1, <1>2, <2>1 DEF CallInv, Unknown, name, RegisteredKeepTheirDirectory
<1>3. CASE helper.at \in {"look", "delete"}
  <2>1. helper.mine /\ helper.op = "restore" /\ exports[name] # None  BY <1>3 DEF CallInv
  <2> QED  BY <1>1, <1>3, <2>1 DEF CallInv, name, RegisteredKeepTheirDirectory
<1> QED  BY <1>1, <1>2, <1>3

\* A step of the helper keeps what is known of directories.
LEMMA HelperKeepsInv == CallTyped /\ CallInv /\ HelperStep => CallInv'
<1> SUFFICES ASSUME CallTyped, CallInv, HelperStep PROVE CallInv'  OBVIOUS
<1>n. helper'.name = helper.name /\ helper'.op = helper.op /\ name' = name
  BY HelperLeads DEF Leads, name
<1>t. name \in Names /\ registered \subseteq Names /\ busy \subseteq Names
      /\ exports \in [Names -> Contents] /\ helper.op \in {"backup", "restore"}
  BY HelperLeads DEF CallTyped, Calls
<1>1. CASE Validate
  <2>1. helper.at = "validate" /\ UNCHANGED <<live, exports, registered, busy>>
        /\ (helper'.at = "ready" => helper.archive # None)
    <3>1. helper'.at = "ready" => Whole(helper.archive)
      BY <1>1, FailureKeeps DEF Validate, CallTyped
    <3> QED  BY <1>1, <3>1, Markers DEF Validate, Whole, At
  <2> QED  BY <1>1, <1>n, <2>1, ValidateLeads, QuietKeepsInv DEF Leads
<1>2. CASE Ready
  <2>1. helper.at = "ready" /\ UNCHANGED <<live, exports, registered, busy>>
    BY <1>2 DEF Ready, At
  <2>2. helper.op = "restore" => helper.archive # None  BY <2>1 DEF CallInv
  <2> QED  BY <1>2, <1>n, <2>1, <2>2, ReadyLeads, QuietKeepsInv DEF Leads
<1>3. CASE Import
  \* Its own directory, of a name that is not known yet.
  <2>1. helper.at = "import"  BY <1>3 DEF Import, At
  <2>2. Unknown(name) /\ ~helper.mine  BY <2>1 DEF CallInv
  <2>3. helper'.at \in {"register", "finally"} /\ ~helper'.mine
    BY <1>3, <2>2, ImportLeads DEF Leads
  <2>4. UNCHANGED <<live, registered, busy>>  BY <1>3 DEF Import
  <2>5. \A n \in registered \cup busy : exports'[n] = exports[n]
    BY <1>3, <1>t, <2>2 DEF Import, Unknown
  <2> QED  BY <1>n, <2>2, <2>3, <2>4, <2>5 DEF CallInv, Unknown, RegisteredKeepTheirDirectory
<1>4. CASE Register
  <2>1. helper.at = "register"  BY <1>4 DEF Register, At
  <2>2. Unknown(name)  BY <2>1 DEF CallInv
  <2>3. /\ helper'.at \in {"snapshot", "look", "finally"} /\ helper'.mine
        /\ helper'.at = "look" => helper.op = "restore"
        /\ helper'.at # "finally" => registered' = registered \cup {name}
    BY <1>4, RegisterLeads DEF Leads
  <2>4. UNCHANGED <<live, busy>>  BY <1>4 DEF Register
  <2>5. \/ registered' = registered /\ exports' = exports
        \/ /\ registered' = registered \cup {name}
           /\ exports' = [exports EXCEPT ![name] = IF @ = None THEN Partial ELSE @]
    BY <1>4 DEF Register
  <2>6. /\ \A n \in Names : exports[n] # None => exports'[n] # None
        /\ registered' # registered => exports'[name] # None
    BY <1>t, <2>5, Markers
  <2>7. \A n \in registered' \cup busy' : exports'[n] # None
    BY <1>t, <2>4, <2>5, <2>6 DEF CallInv, RegisteredKeepTheirDirectory
  <2>8. helper'.at = "look" => exports'[name] # None
    BY <2>2, <2>3, <2>6 DEF Unknown
  <2> QED
    BY <1>n, <2>2, <2>3, <2>4, <2>7, <2>8 DEF CallInv, Unknown, RegisteredKeepTheirDirectory
<1>5. CASE Snapshot
  <2>1. helper.at = "snapshot"  BY <1>5 DEF Snapshot, At
  <2>2. name \notin busy /\ helper.mine  BY <2>1 DEF CallInv
  <2>3. /\ helper'.at \in {"unregister", "finally"} /\ helper'.mine
        /\ helper'.at = "unregister" => busy' = busy
    BY <1>5, <2>2, SnapshotLeads DEF Leads
  <2>4. UNCHANGED <<live, registered>>  BY <1>5 DEF Snapshot
  <2>5. \/ exports' = exports /\ busy' = busy
        \/ /\ exports' = [exports EXCEPT ![name] = live] /\ live # None
           /\ busy' \subseteq busy \cup {name}
    BY <1>5 DEF Snapshot, CallInv
  <2>6. \A n \in registered' \cup busy' : exports'[n] # None
    BY <1>t, <2>4, <2>5 DEF CallInv, RegisteredKeepTheirDirectory
  <2> QED  BY <1>n, <2>2, <2>3, <2>4, <2>6 DEF CallInv, RegisteredKeepTheirDirectory
<1>6. CASE Unregister
  <2>1. helper.at = "unregister"  BY <1>6 DEF Unregister, At
  <2>2. name \notin busy /\ helper.mine  BY <2>1 DEF CallInv
  <2>3. \/ helper'.at = "finally" /\ helper'.mine
        \/ helper'.at = "export" /\ ~helper'.mine /\ registered' = registered \ {name}
    BY <1>6, <2>2, UnregisterLeads DEF Leads
  <2>4. UNCHANGED <<live, exports, busy>> /\ registered' \subseteq registered
    BY <1>6 DEF Unregister
  <2> QED  BY <1>n, <2>2, <2>3, <2>4 DEF CallInv, Unknown, RegisteredKeepTheirDirectory
<1>7. CASE Export
  <2>1. helper.at = "export" /\ UNCHANGED <<live, exports, registered, busy>>
    BY <1>7 DEF Export, At
  <2>2. ~helper.mine /\ Unknown(name)  BY <2>1 DEF CallInv
  <2>3. helper'.at = "finally" /\ ~helper'.mine  BY <1>7, <2>2, ExportLeads DEF Leads
  <2> QED  BY <1>n, <2>1, <2>2, <2>3 DEF CallInv, Unknown, RegisteredKeepTheirDirectory
<1>8. CASE Look
  <2>1. helper.at = "look" /\ UNCHANGED <<live, exports, registered, busy>>
    BY <1>8 DEF Look, At
  <2>2. helper.mine /\ helper.op = "restore" /\ exports[name] # None  BY <2>1 DEF CallInv
  <2>3. helper'.at \in {"delete", "post", "finally"} /\ helper'.mine
    BY <1>8, <2>2, LookLeads DEF Leads
  <2> QED  BY <1>n, <2>1, <2>2, <2>3 DEF CallInv, RegisteredKeepTheirDirectory
<1>9. CASE Delete
  <2>1. helper.at = "delete" /\ UNCHANGED <<exports, registered, busy>> /\ live' \in {live, Gone}
    BY <1>9 DEF Delete, At
  <2>2. helper.mine /\ helper.op = "restore" /\ exports[name] # None  BY <2>1 DEF CallInv
  <2>3. helper'.at \in {"post", "finally"} /\ helper'.mine
    BY <1>9, <2>2, DeleteLeads DEF Leads
  <2> QED  BY <1>n, <2>1, <2>2, <2>3, Markers DEF CallInv, RegisteredKeepTheirDirectory
<1>10. CASE Post
  <2>1. helper.at = "post" /\ UNCHANGED <<exports, registered>>
        /\ live' \in {live, Partial, exports[name]} /\ busy' \subseteq busy \cup {name}
    BY <1>10 DEF Post, At
  <2>2. helper.mine /\ exports[name] # None  BY <2>1 DEF CallInv
  <2>3. helper'.at = "finally" /\ helper'.mine  BY <1>10, <2>2, PostLeads DEF Leads
  <2> QED  BY <1>n, <2>1, <2>2, <2>3, Markers DEF CallInv, RegisteredKeepTheirDirectory
<1>11. CASE Finally
  <2>1. helper.at = "finally" /\ UNCHANGED <<live, exports, busy>> /\ registered' \subseteq registered
    BY <1>11 DEF Finally, At
  <2>2. ~helper.mine => Unknown(name)  BY <2>1 DEF CallInv
  <2>3. helper'.at = "done" \/ (helper'.at = "remove" /\ name \notin registered' \cup busy')
    BY <1>11, <2>1, <2>2, FinallyLeads DEF Leads, Unknown
  <2> QED  BY <1>n, <2>1, <2>3 DEF CallInv, Unknown, RegisteredKeepTheirDirectory
<1>12. CASE RemoveExport
  <2>1. helper.at = "remove" /\ UNCHANGED <<live, registered, busy>>
    BY <1>12 DEF RemoveExport, At
  <2>2. Unknown(name)  BY <2>1 DEF CallInv
  <2>3. helper'.at = "done"  BY <1>12, RemoveExportLeads DEF Leads
  <2>4. \A n \in registered \cup busy : exports'[n] = exports[n]
    BY <1>12, <1>t, <2>2 DEF RemoveExport, Unknown
  <2> QED  BY <1>n, <2>1, <2>3, <2>4 DEF CallInv, RegisteredKeepTheirDirectory
<1> QED
  BY <1>1, <1>2, <1>3, <1>4, <1>5, <1>6, <1>7, <1>8, <1>9, <1>10, <1>11, <1>12
  DEF HelperStep

LEMMA CompleteKeepsInv == ASSUME NEW n, CallTyped, CallInv, Complete(n) PROVE CallInv'
<1>1. n \in busy /\ exports[n] # None  BY DEF Complete, CallInv, RegisteredKeepTheirDirectory
<1> QED
  BY <1>1, Markers DEF Complete, CallInv, Unknown, name, RegisteredKeepTheirDirectory

LEMMA DieKeepsInv == CallInv /\ Die => CallInv'
BY IdleTyped DEF CallInv, Die, Unknown, RegisteredKeepTheirDirectory

LEMMA CallKeepsInv ==
  ASSUME NEW op \in {"backup", "restore"}, NEW n \in Names, NEW a \in Contents,
         CallInv, Call(op, n, a), Unknown(n)
  PROVE  CallInv'
BY DEF CallInv, Call, Unknown, name, RegisteredKeepTheirDirectory

\* Nothing but a registration of the helper's own name makes a name known.
LEMMA HelperUsesItsName ==
  CallTyped /\ HelperStep =>
    /\ ~At("idle") /\ helper'.name = name /\ helper'.op = helper.op /\ helper'.at # "idle"
    /\ registered' \cup busy' \subseteq registered \cup busy \cup {name}
<1> SUFFICES ASSUME CallTyped, HelperStep
             PROVE  /\ ~At("idle") /\ helper'.name = name /\ helper'.op = helper.op
                    /\ helper'.at # "idle"
                    /\ registered' \cup busy' \subseteq registered \cup busy \cup {name}
  OBVIOUS
<1>1. ~At("idle") /\ helper'.name = name /\ helper'.op = helper.op /\ helper'.at # "idle"
  BY HelperLeads DEF Leads, CallPlaces, name
<1>2. registered' \cup busy' \subseteq registered \cup busy \cup {name}
  BY DEF HelperStep, Validate, Ready, Import, Register, Snapshot, Unregister, Export, Look,
     Delete, Post, Finally, RemoveExport
<1> QED  BY <1>1, <1>2

-----------------------------------------------------------------------------
(* What a restore puts in place *)

\* A restore that has not failed is alone with the indices, and before it
\* touches them its repository holds the archive.
RestoreCall ==
  helper.op = "restore" /\ ~At("idle") =>
    /\ helper.at \notin {"snapshot", "unregister", "export"}
    /\ helper.at \notin {"validate", "ready"} /\ ~helper.failed => restoring = NoCall
    /\ helper.at \in {"delete", "post"} => exports[name] = helper.archive

\* A step of a restore keeps this, and what it leaves in place when it has not
\* failed is its archive.
LEMMA HelperRestores ==
  ASSUME CallTyped, RestoreCall, helper.op = "restore", HelperStep
  PROVE  /\ RestoreCall' /\ helper'.archive = helper.archive
         /\ helper'.at \in {"finally", "remove", "done"} /\ ~helper'.failed =>
              \/ live' = helper.archive
              \/ helper.at \in {"finally", "remove"} /\ ~helper.failed /\ live' = live
<1> USE DEF RestoreCall, At
<1>h. helper \in Calls  BY DEF CallTyped
<1>n. helper'.op = helper.op /\ name' = name /\ helper.at # "idle"
  BY HelperLeads DEF Leads, name
<1>f. Raise \/ Refuse =>
        /\ helper'.failed /\ helper'.at \in {"finally", "done"}
        /\ helper'.archive = helper.archive
  BY <1>h, FailureKeeps
<1>g. ASSUME NEW p \in CallPlaces, Goto(p)
      PROVE  helper'.at = p /\ helper'.failed = helper.failed /\ helper'.archive = helper.archive
  BY <1>h, <1>g, GotoKeeps
<1>1. CASE Validate
  <2>1. helper.at = "validate" /\ (Goto("ready") \/ Refuse)  BY <1>1 DEF Validate
  <2> QED  BY <1>n, <1>f, <1>g, <2>1 DEF CallPlaces
<1>2. CASE Ready
  <2>1. helper.at = "ready" /\ UNCHANGED restoring
        /\ ((restoring = NoCall /\ Goto("import")) \/ Refuse)
    BY <1>2 DEF Ready
  <2> QED  BY <1>n, <1>f, <1>g, <2>1 DEF CallPlaces
<1>3. CASE Import
  <2>1. helper.at = "import" /\ UNCHANGED restoring /\ (Goto("register") \/ Raise)
    BY <1>3 DEF Import
  <2> QED  BY <1>n, <1>f, <1>g, <2>1 DEF CallPlaces
<1>4. CASE Register
  <2>1. /\ helper.at = "register" /\ UNCHANGED restoring
        /\ \/ helper' = [helper EXCEPT !.mine = TRUE, !.at = "look"]
           \/ helper' = [helper EXCEPT !.mine = TRUE, !.at = "finally", !.failed = TRUE]
    BY <1>4 DEF Register
  <2>2. /\ helper'.archive = helper.archive
        /\ \/ helper'.at = "look" /\ helper'.failed = helper.failed
           \/ helper'.at = "finally" /\ helper'.failed
    BY <1>h, <2>1 DEF Calls
  <2> QED  BY <1>n, <2>1, <2>2
<1>5. CASE Snapshot \/ Unregister \/ Export
  BY <1>5, <1>n DEF Snapshot, Unregister, Export
<1>6. CASE Look
  <2>1. /\ helper.at = "look" /\ UNCHANGED <<restoring, exports>>
        /\ \/ exports[name] = helper.archive /\ (Goto("post") \/ Goto("delete"))
           \/ Raise
    BY <1>6 DEF Look
  <2> QED  BY <1>n, <1>f, <1>g, <2>1 DEF CallPlaces
<1>7. CASE Delete
  <2>1. /\ helper.at = "delete" /\ UNCHANGED <<restoring, exports>>
        /\ Goto("post") \/ Raise
    BY <1>7 DEF Delete
  <2> QED  BY <1>n, <1>f, <1>g, <2>1 DEF CallPlaces
<1>8. CASE Post
  <2>1. /\ helper.at = "post"
        /\ \/ live' = exports[name] /\ Goto("finally") /\ UNCHANGED restoring
           \/ Raise
    BY <1>8 DEF Post
  <2> QED  BY <1>n, <1>f, <1>g, <2>1 DEF CallPlaces
<1>9. CASE Finally
  <2>1. helper.at = "finally" /\ UNCHANGED <<restoring, live>> /\ (Goto("remove") \/ Refuse)
    BY <1>9 DEF Finally
  <2> QED  BY <1>n, <1>f, <1>g, <2>1 DEF CallPlaces
<1>10. CASE RemoveExport
  <2>1. helper.at = "remove" /\ UNCHANGED <<restoring, live>> /\ (Goto("done") \/ Refuse)
    BY <1>10 DEF RemoveExport
  <2> QED  BY <1>n, <1>f, <1>g, <2>1 DEF CallPlaces
<1> QED
  BY <1>1, <1>2, <1>3, <1>4, <1>5, <1>6, <1>7, <1>8, <1>9, <1>10 DEF HelperStep
=============================================================================
