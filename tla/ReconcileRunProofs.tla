-------------------------- MODULE ReconcileRunProofs --------------------------
(***************************************************************************)
(* Proofs about ReconcileRun, for any relationships in any order, any time *)
(* limits and any number of kills and changes.                             *)
(***************************************************************************)
EXTENDS ReconcileRun, FiniteSetTheorems, TLAPS

-----------------------------------------------------------------------------
(* Type correctness *)

\* A host without status files has a typed, empty status.
LEMMA UnknownTyped == Unknown \in Status /\ Nothing \in [Relationships -> Entry \cup {None}]
BY DEF Status, Unknown, Nothing

LEMMA TypeInit == Init => TypeOK
<1> SUFFICES ASSUME Init PROVE TypeOK  OBVIOUS
<1>1. 0 \in Time /\ 0 \in 0 .. TimeoutStartSec  BY BoundAssumption DEF Time
<1>2. Nothing \in [Relationships -> Time \cup {None}]  BY DEF Nothing
<1>3. selected \subseteq Relationships /\ hung \subseteq Relationships  BY DEF Init
<1> QED  BY <1>1, <1>2, <1>3, UnknownTyped DEF Init, TypeOK

\* What is written down for a relationship is an entry: the last success it
\* keeps is that of the entry that was found.
LEMMA RecordTyped ==
  ASSUME TypeOK, NEW r \in Relationships, NEW ok \in BOOLEAN, Record(r, ok)
  PROVE  /\ mem' \in Status /\ truth' \in [Relationships -> Time \cup {None}]
         /\ todo' \subseteq config'.selected
<1> USE DEF TypeOK
<1>1. Kept(r) \in Time \cup {None}
  <2>1. previous[r] \in Entry \cup {None}  OBVIOUS
  <2> QED  BY <2>1 DEF Kept, Entry
<1>2. [ok |-> ok, last |-> IF ok /\ ~config.dry THEN now ELSE Kept(r)] \in Entry
  BY <1>1 DEF Entry
<1>3. mem' \in Status  BY <1>2 DEF Record, Status
<1>4. truth' \in [Relationships -> Time \cup {None}]  BY DEF Record
<1> QED  BY <1>3, <1>4 DEF Record

\* Every step keeps the state typed.
LEMMA TypeStep == TypeOK /\ [Next]_vars => TypeOK'
<1> SUFFICES ASSUME TypeOK, [Next]_vars PROVE TypeOK'  OBVIOUS
<1> USE BoundAssumption DEF TypeOK
<1>1. CASE Begin
  <2>1. mem' \in Status  BY <1>1, UnknownTyped DEF Begin, Status
  <2>2. previous' \in [Relationships -> Entry \cup {None}]  BY <1>1 DEF Begin, Status
  <2>3. now' \in Time  BY <1>1 DEF Begin, Time
  <2>4. config' \in [selected : SUBSET Relationships, dry : BOOLEAN]
        /\ todo' \subseteq config'.selected
    BY <1>1 DEF Begin
  <2>5. elapsed' \in 0 .. TimeoutStartSec  BY <1>1 DEF Begin
  <2>6. UNCHANGED <<deployed, files, truth, events>> /\ pc' = "status" /\ ended' = FALSE /\ asked' = FALSE
    BY <1>1 DEF Begin
  <2> QED  BY <2>1, <2>2, <2>3, <2>4, <2>5, <2>6 DEF deployed, files
<1>2. CASE PublishStatus
  BY <1>2 DEF PublishStatus, deployed, local
<1>3. CASE PublishMetrics
  BY <1>3 DEF PublishMetrics, deployed, local, Status
<1>4. CASE Attempt
  <2>1. PICK r \in todo, ok \in BOOLEAN : Record(r, ok)  BY <1>4 DEF Attempt
  <2>2. r \in Relationships  OBVIOUS
  <2> QED  BY <1>4, <2>1, <2>2, RecordTyped DEF Attempt, Record, deployed, files
<1>5. CASE AttemptHung
  <2>1. PICK r \in todo : Record(r, FALSE)  BY <1>5 DEF AttemptHung
  <2>2. r \in Relationships  OBVIOUS
  <2>3. elapsed' \in 0 .. TimeoutStartSec  BY <1>5 DEF AttemptHung
  <2> QED  BY <2>1, <2>2, <2>3, RecordTyped DEF Record, deployed, files
<1>6. CASE TimeOut
  BY <1>6 DEF TimeOut, deployed, files, local
<1>7. CASE Finish
  BY <1>7 DEF Finish, deployed, files, Status
<1>8. CASE Kill
  BY <1>8 DEF Kill, deployed, files, local
<1>9. CASE Change
  BY <1>9 DEF Change, files, local
<1>10. CASE UNCHANGED vars
  BY <1>10 DEF vars, deployed, files, local
<1> QED  BY <1>1, <1>2, <1>3, <1>4, <1>5, <1>6, <1>7, <1>8, <1>9, <1>10 DEF Next, Work

\* Status, metrics and the state of a run are always well-formed, and no run
\* outlasts its time limit.
THEOREM RunTyped == Spec => []TypeOK
BY TypeInit, TypeStep, PTL DEF Spec

-----------------------------------------------------------------------------
(* No success is stale *)

\* Until the end of a run, its status says that there is no success yet; both
\* files say so before the first relationship is attempted.
SuccessCleared ==
  /\ ~ended => ~mem.success
  /\ pc = "metrics" /\ ~ended => ~status.success
  /\ pc \in {"attempt", "finish"} => ~ended /\ ~status.success /\ ~metrics.success

LEMMA SuccessInit == Init => SuccessCleared /\ NoStaleSuccess
BY DEF Init, Unknown, SuccessCleared, NoStaleSuccess

LEMMA SuccessStep ==
  TypeOK /\ SuccessCleared /\ NoStaleSuccess /\ [Next]_vars
    => SuccessCleared' /\ NoStaleSuccess'
<1> SUFFICES ASSUME TypeOK, SuccessCleared, NoStaleSuccess, [Next]_vars
             PROVE  SuccessCleared' /\ NoStaleSuccess'
  OBVIOUS
<1> USE DEF SuccessCleared, NoStaleSuccess
<1>0. mem \in Status  BY DEF TypeOK
<1>1. CASE Begin
  BY <1>0, <1>1 DEF Begin, files, Status
<1>2. CASE PublishStatus
  BY <1>2 DEF PublishStatus, local
<1>3. CASE PublishMetrics
  BY <1>3 DEF PublishMetrics, local
<1>4. ASSUME NEW r, NEW ok, pc = "attempt", Record(r, ok)
      PROVE  SuccessCleared' /\ NoStaleSuccess'
  BY <1>0, <1>4 DEF Record, files, Status
<1>5. CASE TimeOut
  BY <1>5 DEF TimeOut, files, local
<1>6. CASE Finish
  BY <1>6 DEF Finish, files
<1>7. CASE Kill
  BY <1>7 DEF Kill, files, local
<1>8. CASE Change
  BY <1>8 DEF Change, files, local
<1>9. CASE UNCHANGED vars
  BY <1>9 DEF vars, files, local
<1> QED
  BY <1>1, <1>2, <1>3, <1>4, <1>5, <1>6, <1>7, <1>8, <1>9 DEF Next, Work, Attempt, AttemptHung

\* Once a run has sent a request, neither file advertises an earlier success.
THEOREM SuccessNeverStale == Spec => []NoStaleSuccess
<1>1. Init => TypeOK /\ SuccessCleared /\ NoStaleSuccess  BY TypeInit, SuccessInit
<1>2. TypeOK /\ SuccessCleared /\ NoStaleSuccess /\ [Next]_vars
        => (TypeOK /\ SuccessCleared /\ NoStaleSuccess)'
  BY TypeStep, SuccessStep
<1> QED  BY <1>1, <1>2, PTL DEF Spec

-----------------------------------------------------------------------------
(* The last success shown is the last success *)

\* Do the entries e tell, for the relationships S, when these last succeeded?
Tells(e, S) == \A r \in S : e[r] # None /\ e[r].last # None => e[r].last = truth[r]

\* While a run goes on, what it has found tells the truth about what is left,
\* what it will publish about everything, and nothing is published about what
\* is left: success of an attempt makes no published entry old.
EntriesTrue ==
  /\ Tells(status.rel, Relationships)
  /\ pc # "idle" =>
       /\ Tells(mem.rel, Relationships)
       /\ Tells(previous, todo)
       /\ \A r \in todo : mem.rel[r] = None
  /\ pc \in {"metrics", "attempt", "finish"} => status.rel = mem.rel

LEMMA EntriesInit == Init => EntriesTrue
BY DEF Init, EntriesTrue, Tells, Unknown, Nothing

\* The attempt of r gives r its entry, from the clock or from what was found.
LEMMA EntriesRecord ==
  ASSUME TypeOK, EntriesTrue, NEW r \in todo, NEW ok \in BOOLEAN,
         pc = "attempt", Record(r, ok)
  PROVE  EntriesTrue'
<1> USE DEF TypeOK, EntriesTrue, Tells, Status
<1>1. r \in Relationships /\ status.rel[r] = None  OBVIOUS
<1>2. mem'.rel = [mem.rel EXCEPT ![r] = [ok |-> ok, last |-> IF ok /\ ~config.dry THEN now ELSE Kept(r)]]
  BY DEF Record
<1>3. truth' = IF ok /\ ~config.dry THEN [truth EXCEPT ![r] = now] ELSE truth
  BY DEF Record
<1>4. ~(ok /\ ~config.dry) /\ Kept(r) # None => Kept(r) = truth[r]
  BY DEF Kept
<1>5. mem'.rel[r].last # None => mem'.rel[r].last = truth'[r]
  BY <1>1, <1>2, <1>3, <1>4
<1>6. \A s \in Relationships \ {r} : mem'.rel[s] = mem.rel[s] /\ truth'[s] = truth[s]
  BY <1>2, <1>3
<1>7. Tells(mem.rel, Relationships)'  BY <1>5, <1>6
<1>8. Tells(status.rel, Relationships)'  BY <1>1, <1>6 DEF Record, files
<1>9. Tells(previous, todo)'  BY <1>6 DEF Record
<1>10. (\A s \in todo : mem.rel[s] = None)'  BY <1>6 DEF Record
<1> QED  BY <1>7, <1>8, <1>9, <1>10 DEF Record

LEMMA EntriesStep == TypeOK /\ EntriesTrue /\ [Next]_vars => EntriesTrue'
<1> SUFFICES ASSUME TypeOK, EntriesTrue, [Next]_vars PROVE EntriesTrue'  OBVIOUS
<1>1. CASE Begin
  <2>1. mem'.rel = Nothing /\ previous' = status.rel /\ UNCHANGED <<status, truth>>
    BY <1>1 DEF Begin, files, TypeOK, Status
  <2>2. todo' \subseteq Relationships /\ pc' = "status"  BY <1>1 DEF Begin, TypeOK
  <2> QED  BY <2>1, <2>2 DEF EntriesTrue, Tells, Nothing
<1>2. CASE PublishStatus
  BY <1>2 DEF PublishStatus, local, EntriesTrue, Tells
<1>3. CASE PublishMetrics
  BY <1>3 DEF PublishMetrics, local, EntriesTrue, Tells
<1>4. CASE Attempt
  BY <1>4, EntriesRecord DEF Attempt
<1>5. CASE AttemptHung
  BY <1>5, EntriesRecord DEF AttemptHung
<1>6. CASE TimeOut
  BY <1>6 DEF TimeOut, files, local, EntriesTrue, Tells
<1>7. CASE Finish
  <2>1. mem'.rel = mem.rel  BY <1>7 DEF Finish, TypeOK, Status
  <2> QED  BY <1>7, <2>1 DEF Finish, files, EntriesTrue, Tells
<1>8. CASE Kill
  <2>1. CASE UNCHANGED truth
    BY <1>8, <2>1 DEF Kill, files, local, EntriesTrue, Tells
  <2>2. CASE pc = "attempt" /\ \E r \in todo : truth' = [truth EXCEPT ![r] = now]
    <3>1. PICK r \in todo : truth' = [truth EXCEPT ![r] = now]  BY <2>2
    <3>2. status.rel[r] = None  BY <2>2 DEF EntriesTrue
    <3>3. \A s \in Relationships \ {r} : truth'[s] = truth[s]  BY <3>1 DEF TypeOK
    <3> QED  BY <1>8, <3>2, <3>3 DEF Kill, files, EntriesTrue, Tells
  <2> QED  BY <1>8, <2>1, <2>2 DEF Kill
<1>9. CASE Change
  BY <1>9 DEF Change, files, local, EntriesTrue, Tells
<1>10. CASE UNCHANGED vars
  BY <1>10 DEF vars, files, local, EntriesTrue, Tells
<1> QED  BY <1>1, <1>2, <1>3, <1>4, <1>5, <1>6, <1>7, <1>8, <1>9, <1>10 DEF Next, Work

\* The last success shown for a relationship is its last success.
THEOREM LastSuccessNeverOld == Spec => []LastSuccessIsTrue
<1>1. Init => TypeOK /\ EntriesTrue  BY TypeInit, EntriesInit
<1>2. TypeOK /\ EntriesTrue /\ [Next]_vars => (TypeOK /\ EntriesTrue)'
  BY TypeStep, EntriesStep
<1>3. EntriesTrue => LastSuccessIsTrue  BY DEF EntriesTrue, Tells, LastSuccessIsTrue
<1> QED  BY <1>1, <1>2, <1>3, PTL DEF Spec

-----------------------------------------------------------------------------
(* The final report is complete *)

\* The status has an entry for what has been attempted and for nothing else,
\* and an entry that says ok was written after a request of this run.
Attempted ==
  pc # "idle" \/ ended =>
    /\ \A r \in Relationships : mem.rel[r] # None <=> r \in config.selected \ todo
    /\ ~config.dry => \A r \in config.selected \ todo : mem.rel[r].ok => truth[r] = now

\* Once the run has got to the final status, all have been attempted, and it
\* is a success exactly if all of them are.
Concluded ==
  /\ pc = "finish" => todo = {}
  /\ ended =>
       /\ todo = {}
       /\ mem.success = (\A r \in config.selected : mem.rel[r].ok)
       /\ mem.success /\ ~config.dry => mem.last = now

ReportSound == Attempted /\ Concluded

LEMMA ReportInit == Init => ReportSound
BY DEF Init, ReportSound, Attempted, Concluded

LEMMA ReportRecord ==
  ASSUME TypeOK, ReportSound, NEW r \in todo, NEW ok \in BOOLEAN,
         pc = "attempt", ~ended, Record(r, ok)
  PROVE  ReportSound'
<1> USE DEF TypeOK, Status
<1>1. r \in Relationships /\ r \in config.selected  OBVIOUS
<1>2. PICK e \in [ok : BOOLEAN, last : Time \cup {None}] :
        mem' = [mem EXCEPT !.rel[r] = e] /\ e.ok = ok
  <2>1. previous[r] \in Entry \cup {None}  BY <1>1
  <2>2. Kept(r) \in Time \cup {None}  BY <2>1 DEF Kept, Entry
  <2> DEFINE new == [ok |-> ok, last |-> IF ok /\ ~config.dry THEN now ELSE Kept(r)]
  <2>3. new \in [ok : BOOLEAN, last : Time \cup {None}] /\ new.ok = ok  BY <2>2
  <2>4. mem' = [mem EXCEPT !.rel[r] = new]  BY DEF Record
  <2> QED  BY <2>3, <2>4
<1>3. mem'.rel[r] = e /\ e # None  BY <1>1, <1>2, EntryAssumption DEF Entry
<1>4. \A s \in Relationships \ {r} : mem'.rel[s] = mem.rel[s] /\ truth'[s] = truth[s]
  BY <1>2 DEF Record
<1>5. ~config.dry /\ ok => truth'[r] = now  BY <1>1 DEF Record
<1>6. UNCHANGED <<config, now, ended>> /\ todo' = todo \ {r} /\ pc' = "status"
  BY DEF Record
<1>7. Attempted'
  BY <1>1, <1>2, <1>3, <1>4, <1>5, <1>6 DEF ReportSound, Attempted
<1>8. Concluded'  BY <1>6 DEF Concluded
<1> QED  BY <1>7, <1>8 DEF ReportSound

LEMMA ReportStep ==
  TypeOK /\ SuccessCleared /\ ReportSound /\ [Next]_vars => ReportSound'
<1> SUFFICES ASSUME TypeOK, SuccessCleared, ReportSound, [Next]_vars
             PROVE  ReportSound'
  OBVIOUS
<1>0. pc = "attempt" => ~ended  BY DEF SuccessCleared
<1>1. CASE Begin
  <2>1. mem'.rel = Nothing /\ ~ended' /\ todo' = config'.selected /\ pc' = "status"
    BY <1>1 DEF Begin, TypeOK, Status
  <2> QED  BY <2>1 DEF ReportSound, Attempted, Concluded, Nothing
<1>2. CASE PublishStatus
  BY <1>2 DEF PublishStatus, local, ReportSound, Attempted, Concluded
<1>3. CASE PublishMetrics
  BY <1>3 DEF PublishMetrics, local, ReportSound, Attempted, Concluded
<1>4. CASE Attempt
  BY <1>0, <1>4, ReportRecord DEF Attempt
<1>5. CASE AttemptHung
  BY <1>0, <1>5, ReportRecord DEF AttemptHung
<1>6. CASE TimeOut
  BY <1>0, <1>6 DEF TimeOut, files, local, ReportSound, Attempted, Concluded
<1>7. CASE Finish
  <2>1. mem'.rel = mem.rel  BY <1>7 DEF Finish, TypeOK, Status
  <2>2. /\ mem'.success = (\A r \in config.selected : mem.rel[r].ok)
        /\ mem'.success /\ ~config.dry => mem'.last = now
    BY <1>7 DEF Finish, TypeOK, Status
  <2> QED  BY <1>7, <2>1, <2>2 DEF Finish, ReportSound, Attempted, Concluded
<1>8. CASE Kill
  BY <1>0, <1>8 DEF Kill, local, ReportSound, Attempted, Concluded
<1>9. CASE Change
  BY <1>9 DEF Change, local, ReportSound, Attempted, Concluded
<1>10. CASE UNCHANGED vars
  BY <1>10 DEF vars, local, ReportSound, Attempted, Concluded
<1> QED  BY <1>1, <1>2, <1>3, <1>4, <1>5, <1>6, <1>7, <1>8, <1>9, <1>10 DEF Next, Work

\* The final report is about every selected relationship and no other, and it
\* says success exactly if all of them have just succeeded.
THEOREM ReportsComplete == Spec => []ReportIsComplete
<1>1. Init => TypeOK /\ SuccessCleared /\ NoStaleSuccess /\ ReportSound
  BY TypeInit, SuccessInit, ReportInit
<1>2. TypeOK /\ SuccessCleared /\ NoStaleSuccess /\ ReportSound /\ [Next]_vars
        => (TypeOK /\ SuccessCleared /\ NoStaleSuccess /\ ReportSound)'
  BY TypeStep, SuccessStep, ReportStep
<1>3. TypeOK /\ ReportSound => ReportIsComplete
  <2> SUFFICES ASSUME TypeOK, ReportSound, ended, pc = "idle", status = mem
               PROVE  /\ {r \in Relationships : status.rel[r] # None} = config.selected
                      /\ status.success = (\A r \in config.selected : status.rel[r].ok)
                      /\ status.success /\ ~config.dry =>
                           status.last = now /\ \A r \in config.selected : truth[r] = now
    BY DEF ReportIsComplete
  <2>1. config.selected \subseteq Relationships  BY DEF TypeOK
  <2>2. \A r \in Relationships : mem.rel[r] # None <=> r \in config.selected
    BY DEF ReportSound, Attempted, Concluded
  <2> QED  BY <2>1, <2>2 DEF ReportSound, Attempted, Concluded
<1> QED  BY <1>1, <1>2, <1>3, PTL DEF Spec

-----------------------------------------------------------------------------
(* Applications that hang, and the time limit *)

\* The relationships whose hanging application this run has waited for.
Waited == (config.selected \ todo) \cap hung

\* The time of a run is that of the applications it has waited for.
TimeSpent ==
  /\ Cardinality(hung) <= MaxHung
  /\ pc # "idle" => elapsed = HangTime * Cardinality(Waited)

\* Nothing comes to hang and nothing recovers while a run goes on.
SteadyRun == pc # "idle" => UNCHANGED hung

LEMMA RelationshipsFinite ==
  /\ IsFiniteSet(Relationships)
  /\ \A S \in SUBSET Relationships : IsFiniteSet(S) /\ Cardinality(S) \in Nat
<1> DEFINE f == [n \in 1 .. Len(Order) |-> Order[n]]
<1>1. Len(Order) \in Nat  BY OrderAssumption
<1>2. IsFiniteSet(1 .. Len(Order))  BY <1>1, FS_Interval
<1>3. f \in Surjection(1 .. Len(Order), Relationships)
  BY DEF Surjection, Relationships
<1>4. IsFiniteSet(Relationships)  BY <1>2, <1>3, FS_Surjection
<1> QED  BY <1>4, FS_Subset, FS_CardinalityType

LEMMA Monotone ==
  ASSUME NEW a \in Nat, NEW b \in Nat, NEW k \in Nat, a <= b
  PROVE  k * a <= k * b
<1>1. PICK d \in Nat : b = a + d
  <2>1. b - a \in Nat /\ b = a + (b - a)  OBVIOUS
  <2> QED  BY <2>1
<1>2. k * b = k * a + k * d  BY <1>1
<1>3. k * a \in Nat /\ k * d \in Nat  BY <1>1
<1> QED  BY <1>2, <1>3

LEMMA SpentInit == Init => TimeSpent
BY DEF Init, TimeSpent

\* One more application that hangs costs its time once.
LEMMA WaitOnce ==
  ASSUME TypeOK, NEW r \in todo \cap hung
  PROVE  /\ Cardinality(Waited \cup {r}) = Cardinality(Waited) + 1
         /\ Cardinality(Waited) + 1 <= Cardinality(hung)
         /\ Cardinality(Waited) \in Nat /\ Cardinality(hung) \in Nat
<1>1. Waited \in SUBSET Relationships /\ hung \in SUBSET Relationships
      /\ Waited \cup {r} \in SUBSET hung /\ r \notin Waited
  BY DEF TypeOK, Waited
<1>2. IsFiniteSet(Waited) /\ IsFiniteSet(hung)  BY <1>1, RelationshipsFinite
<1>3. Cardinality(Waited \cup {r}) = Cardinality(Waited) + 1  BY <1>1, <1>2, FS_AddElement
<1>4. Cardinality(Waited \cup {r}) <= Cardinality(hung)  BY <1>1, <1>2, FS_Subset
<1> QED  BY <1>1, <1>3, <1>4, RelationshipsFinite

LEMMA SpentStep == TypeOK /\ TimeSpent /\ [Next]_vars /\ [SteadyRun]_vars => TimeSpent'
<1> SUFFICES ASSUME TypeOK, TimeSpent, [Next]_vars, [SteadyRun]_vars PROVE TimeSpent'
  OBVIOUS
<1>1. CASE Begin
  <2>1. Waited' = {} /\ elapsed' = 0 /\ hung' = hung  BY <1>1 DEF Begin, Waited, deployed
  <2> QED  BY <2>1, FS_EmptySet, BoundAssumption DEF TimeSpent
<1>2. CASE UNCHANGED <<config, todo, hung, elapsed>> /\ (pc = "idle" => pc' = "idle")
  BY <1>2 DEF TimeSpent, Waited
<1>3. CASE Attempt
  <2>1. PICK r \in todo \ hung, ok \in BOOLEAN : Record(r, ok)  BY <1>3 DEF Attempt
  <2>2. Waited' = Waited /\ hung' = hung  BY <2>1 DEF Record, Waited, deployed
  <2> QED  BY <1>3, <2>2 DEF Attempt, TimeSpent
<1>4. CASE AttemptHung
  <2>1. PICK r \in todo \cap hung : Record(r, FALSE)  BY <1>4 DEF AttemptHung
  <2>2. Waited' = Waited \cup {r} /\ hung' = hung
    <3>1. r \in config.selected  BY DEF TypeOK
    <3> QED  BY <2>1, <3>1 DEF Record, Waited, deployed
  <2>3. Cardinality(Waited') = Cardinality(Waited) + 1 /\ Cardinality(Waited) \in Nat
    BY <2>2, WaitOnce
  <2>4. elapsed' = HangTime * Cardinality(Waited) + HangTime
    BY <1>4 DEF AttemptHung, TimeSpent
  <2>5. elapsed' = HangTime * Cardinality(Waited')
    BY <2>3, <2>4, BoundAssumption
  <2> QED  BY <2>2, <2>5 DEF TimeSpent
<1>5. CASE Change
  <2>1. Cardinality(hung') <= MaxHung  BY <1>5 DEF Change, TimeSpent
  <2>2. CASE pc # "idle"
    <3>1. UNCHANGED hung  BY <2>2 DEF SteadyRun, vars, deployed
    <3> QED  BY <1>2, <1>5, <3>1 DEF Change, local
  <2>3. CASE pc = "idle"  BY <1>5, <2>1, <2>3 DEF Change, TimeSpent
  <2> QED  BY <2>2, <2>3
<1>6. CASE PublishStatus \/ PublishMetrics \/ TimeOut \/ Finish \/ Kill \/ UNCHANGED vars
  BY <1>2, <1>6 DEF PublishStatus, PublishMetrics, TimeOut, Finish, Kill, vars, local, deployed
<1> QED  BY <1>1, <1>3, <1>4, <1>5, <1>6 DEF Next, Work

\* docs/media-operations.md:193: "Reconciliation isolates relationship
\* failures".  As long as what hangs at a time fits the limit of the unit
\* (integrations.nix:390), no run is ended by it, and every relationship is
\* attempted.
THEOREM HangsThatFitAreIsolated ==
  ASSUME HangTime * MaxHung <= TimeoutStartSec
  PROVE  Spec /\ [][SteadyRun]_vars => [][~TimeOut]_vars
<1>1. TypeOK /\ TimeSpent /\ [Next]_vars => [~TimeOut]_vars
  <2> SUFFICES ASSUME TypeOK, TimeSpent, TimeOut PROVE FALSE  OBVIOUS
  <2>1. PICK r \in todo \cap hung : IsNext(r)  BY DEF TimeOut
  <2>2. /\ Cardinality(Waited) + 1 <= Cardinality(hung)
        /\ Cardinality(Waited) \in Nat /\ Cardinality(hung) \in Nat
    BY WaitOnce
  <2>3. Cardinality(Waited) + 1 <= MaxHung /\ Cardinality(Waited) + 1 \in Nat /\ MaxHung \in Nat
    BY <2>2, BoundAssumption DEF TimeSpent
  <2>4. HangTime * (Cardinality(Waited) + 1) <= HangTime * MaxHung
    BY <2>3, Monotone, BoundAssumption
  <2>5. elapsed + HangTime = HangTime * (Cardinality(Waited) + 1)
    BY <2>2, BoundAssumption DEF TimeOut, TimeSpent
  <2>6. elapsed + HangTime > TimeoutStartSec /\ elapsed + HangTime \in Nat
    BY BoundAssumption DEF TimeOut, TypeOK
  <2>7. HangTime * MaxHung \in Nat /\ TimeoutStartSec \in Nat  BY BoundAssumption
  <2> QED  BY <2>4, <2>5, <2>6, <2>7
<1>2. Init => TypeOK /\ TimeSpent  BY TypeInit, SpentInit
<1>3. TypeOK /\ TimeSpent /\ [Next]_vars /\ [SteadyRun]_vars => (TypeOK /\ TimeSpent)'
  BY TypeStep, SpentStep
<1> QED  BY <1>1, <1>2, <1>3, PTL DEF Spec

\* And when what hangs does not fit the limit, no run gets to its end: it is
\* ended before the relationships that come last, whatever they would answer.
THEOREM HangsBeyondTheLimitEndRuns ==
  Spec /\ [][SteadyRun]_vars =>
    [](pc = "finish" => HangTime * Cardinality(config.selected \cap hung) <= TimeoutStartSec)
<1> DEFINE All == TypeOK /\ TimeSpent /\ SuccessCleared /\ NoStaleSuccess /\ ReportSound
<1>1. All => (pc = "finish" => HangTime * Cardinality(config.selected \cap hung) <= TimeoutStartSec)
  <2> SUFFICES ASSUME TypeOK, TimeSpent, ReportSound, pc = "finish"
               PROVE  HangTime * Cardinality(config.selected \cap hung) <= TimeoutStartSec
    OBVIOUS
  <2>1. todo = {}  BY DEF ReportSound, Concluded
  <2>2. Waited = config.selected \cap hung  BY <2>1 DEF Waited
  <2>3. elapsed = HangTime * Cardinality(config.selected \cap hung)  BY <2>2 DEF TimeSpent
  <2> QED  BY <2>3, BoundAssumption DEF TypeOK
<1>2. Init => All  BY TypeInit, SpentInit, SuccessInit, ReportInit
<1>3. All /\ [Next]_vars /\ [SteadyRun]_vars => All'
  BY TypeStep, SpentStep, SuccessStep, ReportStep
<1> QED  BY <1>1, <1>2, <1>3, PTL DEF Spec
=============================================================================
