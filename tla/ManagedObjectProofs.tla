------------------------- MODULE ManagedObjectProofs -------------------------
(***************************************************************************)
(* Proofs about ManagedObject, for any ids, values and kinds of objects    *)
(* and without the bound on edits, failures, delays and deployments.       *)
(***************************************************************************)
EXTENDS ManagedObject, TLAPS

-----------------------------------------------------------------------------
(* The run's own state *)

\* A run that has listed the objects.
Listed == pc \in {"probe", "compare", "test", "intent", "send", "record"}

\* What a run has found belongs together: only a found object's credential is
\* sent back masked, and only an object with a journal entry is ever found.
RunSound ==
  /\ pc \in {"login", "list"} => ~keep
  /\ pc # "idle" /\ keep => cur # None
  /\ Listed /\ pc # "record" => (cur = None <=> seen = None)
  /\ Listed /\ cur # None => journal # None
  /\ pc = "intent" => cur = None
  /\ pc = "send" => journal # None /\ (cur = None => journal.id = None)
  /\ pc = "record" => cur # None
  /\ \A q \in late : q.res.secret = None => q.id # None

\* Ids are given out once: whatever is there has one, and so has whatever runs
\* have created.
IdsSound == Present \cup made \subseteq used

Inv == TypeOK /\ RunSound /\ IdsSound

LEMMA InvInit == Init => Inv
<1> SUFFICES ASSUME Init PROVE Inv  OBVIOUS
<1>1. Present = {}  BY DEF Init, Present
<1>2. declared \in Declaration /\ accepted \in Secrets  BY DEF Init, Declaration
<1> QED  BY <1>1, <1>2 DEF Init, Inv, TypeOK, RunSound, IdsSound, Listed, Steps

-----------------------------------------------------------------------------
(* What the application does with a request *)

\* A resource with a credential, or a masked one for an object that is there,
\* makes an object.
LEMMA StoredTyped ==
  ASSUME TypeOK, NEW res \in Resource, NEW i \in Ids,
         res.secret = None => objects[i] # None
  PROVE  /\ Stored(res, i) \in Object
         /\ Stored(res, i).named /\ Stored(res, i).rest = res.rest
         /\ Stored(res, i).settings = res.settings
         /\ Stored(res, i).secret = Effective(res.secret, i)
<1>1. objects[i] \in Object \cup {None}  BY DEF TypeOK
<1>2. Effective(res.secret, i) \in Secrets
  <2>1. CASE res.secret = None
    BY <1>1, <2>1, IdAssumption DEF Effective, Object
  <2>2. CASE res.secret # None
    BY <2>2 DEF Effective, Resource
  <2> QED  BY <2>1, <2>2
<1> QED  BY <1>2 DEF Stored, Object, Resource

\* A request that is executed writes one object, a new one of the runs' or the
\* one it is meant for, and gives it our name.
LEMMA ExecuteWrites ==
  ASSUME Inv, NEW res \in Resource, NEW i \in Ids \cup {None},
         res.secret = None => i # None, Execute(i, res)
  PROVE  \E k \in Ids, o \in Object :
           /\ objects' = [objects EXCEPT ![k] = o]
           /\ o.named /\ o.rest = res.rest
           /\ o.settings = res.settings /\ o.secret = Effective(res.secret, k)
           /\ i # None => k = i /\ objects[k] # None /\ UNCHANGED <<used, made>>
           /\ i = None => /\ k \notin used /\ res.secret # None
                          /\ used' = used \cup {k} /\ made' = made \cup {k}
<1>1. CASE i = None
  <2>1. PICK k \in Ids :
          /\ k \in Ids \ used
          /\ objects' = [objects EXCEPT ![k] = Stored(res, k)]
          /\ used' = used \cup {k} /\ made' = made \cup {k}
    BY <1>1 DEF Execute, Create, NextId
  <2>2. /\ Stored(res, k) \in Object /\ Stored(res, k).named /\ Stored(res, k).rest = res.rest
        /\ Stored(res, k).settings = res.settings /\ Stored(res, k).secret = Effective(res.secret, k)
    BY <1>1, StoredTyped DEF Inv
  <2> QED  BY <1>1, <2>1, <2>2
<1>2. CASE i # None
  <2>1. /\ i \in Ids /\ objects[i] # None
        /\ objects' = [objects EXCEPT ![i] = Stored(res, i)]
        /\ UNCHANGED <<used, made>>
    BY <1>2 DEF Execute, Update
  <2>2. /\ Stored(res, i) \in Object /\ Stored(res, i).named /\ Stored(res, i).rest = res.rest
        /\ Stored(res, i).settings = res.settings /\ Stored(res, i).secret = Effective(res.secret, i)
    BY <2>1, StoredTyped DEF Inv
  <2> QED  BY <1>2, <2>1, <2>2
<1> QED  BY <1>1, <1>2

\* What a run sends: a masked credential only to an object it has found.
LEMMA DesiredTyped ==
  ASSUME Inv, pc = "send", NEW res \in Desired
  PROVE  /\ res \in Resource
         /\ res.secret = None => cur # None
         /\ cur # None => res.rest = seen.rest
         /\ res.settings = want.settings
         /\ res.secret = IF keep THEN None ELSE want.secret
<1>1. want \in Declaration /\ seen \in Object \cup {None}  BY DEF Inv, TypeOK
<1>2. seen # None => seen.rest \in Rest  BY <1>1 DEF Object
<1>3. want.settings \in Settings /\ want.secret \in Secrets  BY <1>1 DEF Declaration
<1>4. res.settings = want.settings /\ res.secret = SentSecret
      /\ res.rest \in (IF seen = None THEN Rest ELSE {seen.rest})
      /\ res = [settings |-> res.settings, secret |-> res.secret, rest |-> res.rest]
  BY DEF Desired
<1>5. res \in Resource  BY <1>2, <1>3, <1>4 DEF Resource, SentSecret
<1>6. res.secret = None => cur # None
  BY <1>3, <1>4, SecretAssumption DEF SentSecret, Inv, RunSound
<1>7. cur # None => seen # None  BY DEF Inv, RunSound, Listed
<1> QED  BY <1>4, <1>5, <1>6, <1>7 DEF SentSecret

\* A request of a run that is executed at once.
LEMMA SentWrites ==
  ASSUME Inv, pc = "send", \E res \in Desired : Execute(cur, res)
  PROVE  \E k \in Ids, o \in Object :
           /\ objects' = [objects EXCEPT ![k] = o] /\ o.named
           /\ o.settings = want.settings
           /\ o.secret = IF keep THEN objects[k].secret ELSE want.secret
           /\ cur # None => /\ k = cur /\ objects[k] # None /\ o.rest = seen.rest
                            /\ UNCHANGED <<used, made>>
           /\ cur = None => /\ k \notin used
                            /\ used' = used \cup {k} /\ made' = made \cup {k}
<1>1. PICK res \in Desired : Execute(cur, res)  OBVIOUS
<1>2. PICK i \in Ids \cup {None} : i = cur  BY DEF Inv, TypeOK
<1>3. Execute(i, res)  BY <1>1, <1>2 DEF Execute, Create, Update
<1>4. res \in Resource /\ (res.secret = None => i # None)  BY <1>2, DesiredTyped
<1>5. /\ res \in Resource /\ res.secret = None => cur # None
      /\ cur # None => res.rest = seen.rest
      /\ res.settings = want.settings /\ res.secret = IF keep THEN None ELSE want.secret
  BY DesiredTyped
<1>6. PICK k \in Ids, o \in Object :
        /\ objects' = [objects EXCEPT ![k] = o]
        /\ o.named /\ o.rest = res.rest
        /\ o.settings = res.settings /\ o.secret = Effective(res.secret, k)
        /\ i # None => k = i /\ objects[k] # None /\ UNCHANGED <<used, made>>
        /\ i = None => /\ k \notin used /\ res.secret # None
                        /\ used' = used \cup {k} /\ made' = made \cup {k}
  BY <1>3, <1>4, ExecuteWrites
<1>7. want.secret \in Secrets  BY DEF Inv, TypeOK, Declaration
<1>8. o.secret = IF keep THEN objects[k].secret ELSE want.secret
  <2>1. CASE keep
    <3>1. objects[k] # None  BY <2>1, <1>2, <1>5, <1>6
    <3> QED  BY <2>1, <1>5, <1>6, <3>1, IdAssumption DEF Effective
  <2>2. CASE ~keep
    BY <2>2, <1>5, <1>6, <1>7, SecretAssumption DEF Effective
  <2> QED  BY <2>1, <2>2
<1> QED  BY <1>2, <1>5, <1>6, <1>8

-----------------------------------------------------------------------------
(* Every step keeps the state typed, and what the run has found together *)

\* An end of the run, whatever the reason.
LEMMA StopInv ==
  ASSUME Inv, Stop, UNCHANGED <<application, made>>,
         drifted' \in BOOLEAN, delayed' \in BOOLEAN, events' \in Nat
  PROVE  Inv'
BY DEF Stop, Inv, TypeOK, RunSound, IdsSound, Present, Listed, Steps, application, run

\* A step of the run that only changes where it stands.
LEMMA GoInv ==
  ASSUME Inv, NEW step \in Steps \ {"idle"}, Go(step), UNCHANGED <<application, journal, cur, seen, keep>>,
         step \in {"login", "list"} => ~keep,
         keep => cur # None,
         step \in {"probe", "compare", "test", "intent", "send"} => (cur = None <=> seen = None),
         step \notin {"login", "list"} /\ cur # None => journal # None,
         step = "intent" => cur = None,
         step = "send" => journal # None /\ (cur = None => journal.id = None),
         step = "record" => cur # None
  PROVE  Inv'
BY DEF Go, Inv, TypeOK, RunSound, IdsSound, Present, Listed, Steps, application, history, past

LEMMA ProgressInv == ASSUME Inv, Begin \/ Progress PROVE Inv'
<1>1. CASE Begin
  <2>1. TypeOK'  BY <1>1 DEF Begin, Inv, TypeOK, Steps, application, past
  <2>2. RunSound'  BY <1>1 DEF Begin, Inv, RunSound, Listed, application
  <2>3. IdsSound'  BY <1>1 DEF Begin, Inv, IdsSound, Present, application
  <2> QED  BY <2>1, <2>2, <2>3 DEF Inv
<1>2. CASE Login
  <2>1. CASE Refuse  BY <2>1, StopInv DEF Refuse, Inv, TypeOK
  <2>2. CASE Go("list") /\ UNCHANGED <<application, journal, cur, seen, keep>>
    BY <1>2, <2>2, GoInv DEF Login, Inv, RunSound, Steps
  <2> QED  BY <1>2, <2>1, <2>2 DEF Login
<1>3. CASE List
  <2>1. CASE Refuse  BY <2>1, StopInv DEF Refuse, Inv, TypeOK
  <2>2. CASE ~Refuse
    <3>1. /\ Acceptable /\ pc = "list" /\ pc' = "probe"
          /\ cur' \in (IF Matches = {} THEN {None} ELSE Matches)
          /\ seen' = IF cur' = None THEN None ELSE objects[cur']
          /\ UNCHANGED <<application, journal, keep, declared, want, outcome, made, history, events>>
      BY <1>3, <2>2 DEF List, Go
    <3>2. Matches \subseteq Ids /\ \A i \in Matches : objects[i] # None /\ objects[i] \in Object
      BY DEF Matches, Present, Inv, TypeOK
    <3>3. cur' \in Ids \cup {None} /\ (cur' = None <=> seen' = None) /\ seen' \in Object \cup {None}
      BY <3>1, <3>2, IdAssumption
    <3>4. cur' # None => journal # None  BY <3>1 DEF Acceptable
    <3>5. TypeOK'
      BY <3>1, <3>3 DEF Inv, TypeOK, Steps, application, history, past
    <3>6. RunSound'
      BY <3>1, <3>3, <3>4 DEF Inv, RunSound, Listed, application
    <3>7. IdsSound'
      BY <3>1 DEF Inv, IdsSound, Present, application
    <3> QED  BY <3>5, <3>6, <3>7 DEF Inv
  <2> QED  BY <2>1, <2>2
<1>4. CASE Probe
  <2>1. /\ pc = "probe" /\ pc' = "compare" /\ keep' \in BOOLEAN /\ (keep' => cur # None)
        /\ UNCHANGED <<application, journal, cur, seen, declared, want, outcome, made, history, events>>
    BY <1>4 DEF Probe, Go
  <2>2. TypeOK'  BY <2>1 DEF Inv, TypeOK, Steps, application, history, past
  <2>3. RunSound'  BY <2>1 DEF Inv, RunSound, Listed, application
  <2>4. IdsSound'  BY <2>1 DEF Inv, IdsSound, Present, application
  <2> QED  BY <2>2, <2>3, <2>4 DEF Inv
<1>5. CASE Compare
  <2>1. CASE Same \/ want.dry
    <3>1. /\ pc' = "idle" /\ outcome' = "success"
          /\ UNCHANGED <<application, cur, seen, keep, declared, want, made, history, events>>
      BY <1>5, <2>1 DEF Compare
    <3>2. journal' \in Record \cup {None}
      <4>1. CASE Same /\ journal.pending /\ ~want.dry
        <5>1. cur # None /\ journal # None
          BY <1>5, <4>1 DEF Compare, Same, Inv, RunSound, Listed
        <5>2. cur \in Ids /\ journal.digest \in Secrets  BY <5>1 DEF Inv, TypeOK, Record
        <5>3. journal' = [id |-> cur, pending |-> FALSE, digest |-> journal.digest]
          BY <1>5, <2>1, <4>1 DEF Compare, finish
        <5> QED  BY <5>2, <5>3 DEF Record
      <4>2. CASE ~(Same /\ journal.pending /\ ~want.dry)
        BY <1>5, <2>1, <4>2 DEF Compare, Inv, TypeOK
      <4> QED  BY <4>1, <4>2
    <3>3. TypeOK'  BY <3>1, <3>2 DEF Inv, TypeOK, Steps, application, history, past
    <3>4. RunSound'  BY <3>1 DEF Inv, RunSound, Listed, application
    <3>5. IdsSound'  BY <3>1 DEF Inv, IdsSound, Present, application
    <3> QED  BY <3>3, <3>4, <3>5 DEF Inv
  <2>2. CASE ~(Same \/ want.dry)
    BY <1>5, <2>2, GoInv DEF Compare, Inv, RunSound, Listed, Steps
  <2> QED  BY <2>1, <2>2
<1>6. CASE Test
  <2>1. CASE Refuse  BY <2>1, StopInv DEF Refuse, Inv, TypeOK
  <2>2. CASE ~Refuse
    <3>1. /\ pc = "test" /\ pc' = IF cur = None THEN "intent" ELSE "send"
          /\ UNCHANGED <<application, journal, cur, seen, keep, declared, want, outcome, made, history, events>>
      BY <1>6, <2>2 DEF Test, Go
    <3>2. TypeOK'  BY <3>1 DEF Inv, TypeOK, Steps, application, history, past
    <3>3. RunSound'  BY <3>1 DEF Inv, RunSound, Listed, application
    <3>4. IdsSound'  BY <3>1 DEF Inv, IdsSound, Present, application
    <3> QED  BY <3>2, <3>3, <3>4 DEF Inv
  <2> QED  BY <2>1, <2>2
<1>7. CASE Intent
  <2>1. /\ pc = "intent" /\ pc' = "send"
        /\ journal' = [id |-> None, pending |-> TRUE, digest |-> want.secret]
        /\ UNCHANGED <<application, cur, seen, keep, declared, want, outcome, made, history, events>>
    BY <1>7 DEF Intent, intent, Go
  <2>2. journal' \in Record /\ journal' # None /\ journal'.id = None
    <3>1. want.secret \in Secrets  BY DEF Inv, TypeOK, Declaration
    <3>2. journal' \in Record  BY <2>1, <3>1 DEF Record
    <3>3. journal' # None  BY <3>2, RecordAssumption
    <3> QED  BY <2>1, <3>2, <3>3
  <2>3. TypeOK'  BY <2>1, <2>2 DEF Inv, TypeOK, Steps, application, history, past
  <2>4. RunSound'  BY <2>1, <2>2 DEF Inv, RunSound, Listed, application
  <2>5. IdsSound'  BY <2>1 DEF Inv, IdsSound, Present, application
  <2> QED  BY <2>3, <2>4, <2>5 DEF Inv
<1>8. CASE Send
  <2>1. /\ pc = "send" /\ pc' = "record"
        /\ cur' = IF cur = None THEN CHOOSE i \in made' \ made : TRUE ELSE cur
        /\ UNCHANGED <<adapter, late, accepted, declared, journal, want, seen, keep, outcome, history, events>>
        /\ \E res \in Desired : Execute(cur, res)
    BY <1>8 DEF Send
  <2>2. PICK k \in Ids, o \in Object :
          /\ objects' = [objects EXCEPT ![k] = o] /\ o.named
          /\ cur # None => /\ k = cur /\ objects[k] # None /\ o.rest = seen.rest
                           /\ UNCHANGED <<used, made>>
          /\ cur = None => /\ k \notin used
                           /\ used' = used \cup {k} /\ made' = made \cup {k}
    BY <2>1, SentWrites
  <2>3. made \subseteq used /\ Present \subseteq used /\ used \subseteq Ids  BY DEF Inv, IdsSound, TypeOK
  <2>4. cur' = k
    <3>1. CASE cur = None
      <4>1. made' \ made = {k}  BY <2>2, <2>3, <3>1
      <4> QED  BY <2>1, <3>1, <4>1
    <3> QED  BY <2>1, <2>2, <3>1
  <2>5. TypeOK'
    BY <2>1, <2>2, <2>4 DEF Inv, TypeOK, Steps, history, past
  <2>6. RunSound'
    BY <2>1, <2>2, <2>4, IdAssumption DEF Inv, RunSound, Listed
  <2>7. IdsSound'
    BY <2>2, <2>3 DEF Inv, IdsSound, Present, TypeOK
  <2> QED  BY <2>5, <2>6, <2>7 DEF Inv
<1>9. CASE SendMissing
  BY <1>9, StopInv DEF SendMissing, Refuse, Inv, TypeOK
<1>10. CASE Finish
  <2>1. /\ pc = "record" /\ pc' = "idle" /\ outcome' = "success"
        /\ journal' = [id |-> cur, pending |-> FALSE, digest |-> want.secret]
        /\ drifted' \in BOOLEAN
        /\ UNCHANGED <<application, declared, run, made, disturbed, past, events>>
    BY <1>10 DEF Finish, finish
  <2>2. journal' \in Record
    BY <2>1 DEF Inv, TypeOK, Declaration, Record
  <2>3. TypeOK'  BY <2>1, <2>2 DEF Inv, TypeOK, Steps, application, run, past
  <2>4. RunSound'  BY <2>1 DEF Inv, RunSound, Listed, application, run
  <2>5. IdsSound'  BY <2>1 DEF Inv, IdsSound, Present, application
  <2> QED  BY <2>3, <2>4, <2>5 DEF Inv
<1> QED
  BY <1>1, <1>2, <1>3, <1>4, <1>5, <1>6, <1>7, <1>8, <1>9, <1>10 DEF Progress

\* What others do leaves the run's state as it is, and adds no request.
LEMMA OthersSound ==
  ASSUME Inv, UNCHANGED <<pc, run, journal>>, late' \subseteq late
  PROVE  RunSound'
BY DEF Inv, RunSound, Listed, run

LEMMA EnvironmentInv == ASSUME Inv, Environment PROVE Inv'
<1>1. CASE Fail
  <2>1. UNCHANGED <<application, made>> /\ drifted' \in BOOLEAN /\ delayed' \in BOOLEAN
        /\ events' \in Nat /\ Stop
    BY <1>1 DEF Fail, Drift, Event, Inv, TypeOK
  <2> QED  BY <2>1, StopInv
<1>2. CASE SendUnanswered
  <2>1. /\ pc = "send" /\ pc' = "idle" /\ outcome' = "failed"
        /\ UNCHANGED <<adapter, late, accepted, delayed, declared, journal, run, disturbed, renamed, erased>>
        /\ drifted' \in BOOLEAN /\ events' \in Nat
        /\ \E res \in Desired : Execute(cur, res)
    BY <1>2 DEF SendUnanswered, Stop, Drift, Event, Inv, TypeOK
  <2>2. PICK k \in Ids, o \in Object :
          /\ objects' = [objects EXCEPT ![k] = o] /\ o.named
          /\ cur # None => /\ k = cur /\ objects[k] # None /\ o.rest = seen.rest
                           /\ UNCHANGED <<used, made>>
          /\ cur = None => /\ k \notin used
                           /\ used' = used \cup {k} /\ made' = made \cup {k}
    BY <2>1, SentWrites
  <2>3. TypeOK'  BY <2>1, <2>2 DEF Inv, TypeOK, Steps, run
  <2>4. RunSound'  BY <2>1 DEF Inv, RunSound, Listed, run
  <2>5. IdsSound'  BY <2>2 DEF Inv, IdsSound, Present, TypeOK
  <2> QED  BY <2>3, <2>4, <2>5 DEF Inv
<1>3. CASE SendDelayed
  <2>1. /\ pc = "send" /\ pc' = "idle" /\ outcome' = "failed"
        /\ UNCHANGED <<adapter, objects, used, accepted, made, drifted, declared, journal, run, disturbed, renamed, erased>>
        /\ delayed' = TRUE /\ events' \in Nat
    BY <1>3 DEF SendDelayed, Stop, Event, Inv, TypeOK
  <2>2. PICK res \in Desired : late' = late \cup {[id |-> cur, res |-> res]}
    BY <1>3 DEF SendDelayed
  <2>3. res \in Resource /\ (res.secret = None => cur # None)  BY <2>1, DesiredTyped
  <2>4. late' \subseteq [id : Ids \cup {None}, res : Resource]
    BY <2>2, <2>3 DEF Inv, TypeOK
  <2>5. TypeOK'  BY <2>1, <2>4 DEF Inv, TypeOK, Steps, run
  <2>6. RunSound'  BY <2>1, <2>2, <2>3 DEF Inv, RunSound, Listed, run
  <2>7. IdsSound'  BY <2>1 DEF Inv, IdsSound, Present
  <2> QED  BY <2>5, <2>6, <2>7 DEF Inv
<1>4. CASE ExecuteLate
  <2>1. PICK q \in late : late' = late \ {q} /\ Execute(q.id, q.res)
    BY <1>4 DEF ExecuteLate
  <2>2. /\ q.id \in Ids \cup {None} /\ q.res \in Resource
        /\ q.res.secret = None => q.id # None
    BY DEF Inv, TypeOK, RunSound
  <2>3. PICK k \in Ids, o \in Object :
          /\ objects' = [objects EXCEPT ![k] = o]
          /\ o.named /\ o.rest = q.res.rest
          /\ q.id # None => k = q.id /\ objects[k] # None /\ UNCHANGED <<used, made>>
          /\ q.id = None => /\ k \notin used /\ q.res.secret # None
                            /\ used' = used \cup {k} /\ made' = made \cup {k}
    BY <2>1, <2>2, ExecuteWrites
  <2>4. /\ UNCHANGED <<adapter, accepted, declared, journal, past, events, pc, run, outcome>>
        /\ disturbed' = TRUE /\ drifted' \in BOOLEAN
    BY <1>4 DEF ExecuteLate, Disturb, Drift, Inv, TypeOK
  <2>5. TypeOK'  BY <2>1, <2>3, <2>4 DEF Inv, TypeOK, run, past
  <2>6. RunSound'  BY <2>1, <2>4, OthersSound
  <2>7. IdsSound'  BY <2>3 DEF Inv, IdsSound, Present, TypeOK
  <2> QED  BY <2>5, <2>6, <2>7 DEF Inv
<1>5. CASE DropLate
  <2>1. TypeOK'  BY <1>5 DEF DropLate, Disturb, Inv, TypeOK, run, past
  <2>2. RunSound'  BY <1>5, OthersSound DEF DropLate, Disturb
  <2>3. IdsSound'  BY <1>5 DEF DropLate, Inv, IdsSound, Present
  <2> QED  BY <2>1, <2>2, <2>3 DEF Inv
<1>6. CASE UserCreate
  <2>1. PICK i \in Ids, o \in Object :
          i \notin used /\ objects' = [objects EXCEPT ![i] = o] /\ used' = used \cup {i}
    BY <1>6 DEF UserCreate, NextId
  <2>2. /\ UNCHANGED <<adapter, late, accepted, declared, journal, made, erased, delayed, drifted, renamed, pc, run, outcome>>
        /\ disturbed' = TRUE /\ events' \in Nat
    BY <1>6 DEF UserCreate, UserEdit, Disturb, Event, Inv, TypeOK
  <2>3. TypeOK'  BY <2>1, <2>2 DEF Inv, TypeOK, run
  <2>4. RunSound'  BY <2>2, OthersSound
  <2>5. IdsSound'  BY <2>1, <2>2 DEF Inv, IdsSound, Present, TypeOK
  <2> QED  BY <2>3, <2>4, <2>5 DEF Inv
<1>7. CASE UserChange
  <2>1. PICK i \in Present, o \in Object :
          /\ objects' = [objects EXCEPT ![i] = o]
          /\ drifted' \in BOOLEAN /\ renamed' = (renamed \/ o.named # objects[i].named)
    BY <1>7 DEF UserChange, Drift, Inv, TypeOK
  <2>2. /\ UNCHANGED <<adapter, late, accepted, declared, journal, made, erased, delayed, used, pc, run, outcome>>
        /\ disturbed' = TRUE /\ events' \in Nat
    BY <1>7 DEF UserChange, UserEdit, Disturb, Event, Inv, TypeOK
  <2>3. TypeOK'  BY <2>1, <2>2 DEF Inv, TypeOK, run, Present
  <2>4. RunSound'  BY <2>2, OthersSound
  <2>5. IdsSound'  BY <2>1, <2>2 DEF Inv, IdsSound, Present, TypeOK
  <2> QED  BY <2>3, <2>4, <2>5 DEF Inv
<1>8. CASE UserDelete
  <2>1. PICK i \in Present : objects' = [objects EXCEPT ![i] = None]
    BY <1>8 DEF UserDelete
  <2>2. /\ UNCHANGED <<adapter, late, accepted, declared, journal, made, erased, delayed, used, drifted, renamed, pc, run, outcome>>
        /\ disturbed' = TRUE /\ events' \in Nat
    BY <1>8 DEF UserDelete, UserEdit, Disturb, Event, Inv, TypeOK
  <2>3. TypeOK'  BY <2>1, <2>2 DEF Inv, TypeOK, run
  <2>4. RunSound'  BY <2>2, OthersSound
  <2>5. IdsSound'  BY <2>1, <2>2 DEF Inv, IdsSound, Present, TypeOK
  <2> QED  BY <2>3, <2>4, <2>5 DEF Inv
<1>9. CASE Erase
  <2>1. /\ objects' = [i \in Ids |-> None] /\ used' = {} /\ made' = {} /\ late' = {}
        /\ UNCHANGED <<adapter, accepted, declared, journal, renamed, delayed, pc, run, outcome>>
        /\ erased' = TRUE /\ drifted' \in BOOLEAN /\ disturbed' = TRUE /\ events' \in Nat
    BY <1>9 DEF Erase, Disturb, Drift, Event, Inv, TypeOK
  <2>2. TypeOK'  BY <2>1 DEF Inv, TypeOK, run
  <2>3. RunSound'  BY <2>1, OthersSound
  <2>4. IdsSound'  BY <2>1 DEF IdsSound, Present
  <2> QED  BY <2>2, <2>3, <2>4 DEF Inv
<1>10. CASE LoseJournal
  <2>1. /\ journal' = None /\ made' = {} /\ late' = {} /\ pc = "idle"
        /\ objects' = [i \in Ids |-> IF objects[i] = None THEN None
                                     ELSE [objects[i] EXCEPT !.named = FALSE]]
        /\ UNCHANGED <<adapter, used, accepted, declared, drifted, past, pc, run, outcome>>
        /\ disturbed' = TRUE /\ events' \in Nat
    BY <1>10 DEF LoseJournal, Disturb, Event, Inv, TypeOK
  <2>2. \A o \in Object : [o EXCEPT !.named = FALSE] \in Object  BY DEF Object
  <2>3. objects' \in [Ids -> Object \cup {None}]  BY <2>1, <2>2 DEF Inv, TypeOK
  <2>4. TypeOK'  BY <2>1, <2>3 DEF Inv, TypeOK, run, past
  <2>5. RunSound'  BY <2>1 DEF Inv, RunSound, Listed, run
  <2>6. IdsSound'  BY <2>1 DEF Inv, IdsSound, Present, TypeOK
  <2> QED  BY <2>4, <2>5, <2>6 DEF Inv
<1>11. CASE Deploy
  <2>1. /\ UNCHANGED <<application, journal, pc, run, outcome, made, history>>
        /\ declared' \in Declaration /\ events' \in Nat
    BY <1>11 DEF Deploy, Event, Inv, TypeOK
  <2>2. TypeOK'  BY <2>1 DEF Inv, TypeOK, application, run, history, past
  <2>3. RunSound'  BY <2>1, OthersSound DEF application
  <2>4. IdsSound'  BY <2>1 DEF Inv, IdsSound, Present, application
  <2> QED  BY <2>2, <2>3, <2>4 DEF Inv
<1>12. CASE TargetRestart
  <2>1. declared.secret \in Secrets  BY DEF Inv, TypeOK, Declaration
  <2>2. TypeOK'  BY <1>12, <2>1 DEF TargetRestart, Disturb, Inv, TypeOK, run, past
  <2>3. RunSound'  BY <1>12, OthersSound DEF TargetRestart, Disturb
  <2>4. IdsSound'  BY <1>12 DEF TargetRestart, Inv, IdsSound, Present
  <2> QED  BY <2>2, <2>3, <2>4 DEF Inv
<1> QED
  BY <1>1, <1>2, <1>3, <1>4, <1>5, <1>6, <1>7, <1>8, <1>9, <1>10, <1>11, <1>12 DEF Environment

LEMMA InvStep == Inv /\ [Next]_vars => Inv'
<1> SUFFICES ASSUME Inv, [Next]_vars PROVE Inv'  OBVIOUS
<1>1. CASE Next  BY <1>1, ProgressInv, EnvironmentInv DEF Next
<1>2. CASE UNCHANGED vars
  BY <1>2 DEF vars, application, run, history, past, Inv, TypeOK, RunSound, IdsSound, Present, Listed
<1> QED  BY <1>1, <1>2

LEMMA InvAlways == Spec => []Inv
<1> QED  BY InvInit, InvStep, PTL DEF Spec

\* Whatever is edited, lost, delayed, killed or restored, the objects, the
\* journal and the run's state keep their types: no step writes an object
\* whose credential is the mask, or finds one without an id.
THEOREM ObjectTyped == Spec => []TypeOK
<1>1. Inv => TypeOK  BY DEF Inv
<1> QED  BY <1>1, InvAlways, PTL

-----------------------------------------------------------------------------
(* Whose objects are written *)

\* Until the application is erased, every name of ours and every id that the
\* run, the journal or a late request holds is of an object that runs created.
Owned ==
  \/ erased
  \/ /\ \A i \in Present : objects[i].named => i \in made
     /\ journal # None /\ journal.id # None => journal.id \in made
     /\ pc # "idle" /\ cur # None => cur \in made
     /\ \A q \in late : q.id # None => q.id \in made

LEMMA OwnedInit == Init => Owned
BY DEF Init, Owned, Present

\* A request that is executed names an object that is, or becomes, the runs'.
LEMMA ExecuteOwned ==
  ASSUME Inv, Owned, ~erased, NEW k \in Ids, NEW o \in Object,
         objects' = [objects EXCEPT ![k] = o],
         \/ k \in made /\ UNCHANGED made
         \/ made' = made \cup {k}
  PROVE  \A i \in Present' : objects'[i].named => i \in made'
BY DEF Owned, Present, Inv, TypeOK

LEMMA OwnedStep == Inv /\ Owned /\ [Next]_vars => Owned'
<1> SUFFICES ASSUME Inv, Owned, [Next]_vars PROVE Owned'  OBVIOUS
<1>1. CASE Begin
  BY <1>1 DEF Begin, Owned, Present, application, past
<1>2. CASE Login \/ Probe \/ Test \/ SendMissing \/ Fail \/ Deploy
  <2>1. UNCHANGED <<objects, made, late, journal, erased, cur>> /\ (pc = "idle" => pc' = "idle")
    BY <1>2 DEF Login, Probe, Test, SendMissing, Fail, Deploy, Refuse, Stop, Go,
                application, run, history, past
  <2> QED  BY <2>1 DEF Owned, Present
<1>3. CASE List
  <2>1. UNCHANGED <<objects, made, late, journal, erased>>
    BY <1>3 DEF List, Refuse, Stop, Go, application, history, past
  <2>2. pc' # "idle" /\ cur' # None => cur' \in Matches
    BY <1>3 DEF List, Refuse, Stop, run
  <2>3. Matches \subseteq Ids  BY DEF Matches, Present
  <2> QED  BY <2>1, <2>2, <2>3, IdAssumption DEF Owned, Matches, Present
<1>4. CASE Compare
  <2>1. UNCHANGED <<objects, made, late, cur, erased>> /\ pc = "compare"
    BY <1>4 DEF Compare, Go, application, history, past
  <2>2. \/ UNCHANGED journal
        \/ Same /\ journal' = [id |-> cur, pending |-> FALSE, digest |-> journal.digest]
    BY <1>4 DEF Compare, finish
  <2> QED  BY <2>1, <2>2 DEF Owned, Present
<1>5. CASE Intent
  <2>1. /\ UNCHANGED <<objects, made, late, cur, erased>> /\ pc = "intent"
        /\ journal' = [id |-> None, pending |-> TRUE, digest |-> want.secret]
    BY <1>5 DEF Intent, intent, Go, application, history, past
  <2> QED  BY <2>1 DEF Owned, Present
<1>6. CASE Send \/ SendUnanswered
  <2>1. /\ pc = "send" /\ UNCHANGED <<late, journal, erased>>
        /\ \E res \in Desired : Execute(cur, res)
    BY <1>6 DEF Send, SendUnanswered, Stop, history, past
  <2>2. PICK k \in Ids, o \in Object :
          /\ objects' = [objects EXCEPT ![k] = o] /\ o.named
          /\ cur # None => /\ k = cur /\ objects[k] # None /\ o.rest = seen.rest
                           /\ UNCHANGED <<used, made>>
          /\ cur = None => /\ k \notin used
                           /\ used' = used \cup {k} /\ made' = made \cup {k}
    BY <2>1, SentWrites
  <2>3. pc' # "idle" => cur' = IF cur = None THEN CHOOSE i \in made' \ made : TRUE ELSE cur
    BY <1>6 DEF Send, SendUnanswered, Stop
  <2>4. pc' # "idle" => cur' = k
    <3>1. CASE cur = None
      <4>1. made' \ made = {k}  BY <2>2, <3>1 DEF Inv, IdsSound
      <4> QED  BY <2>3, <3>1, <4>1
    <3> QED  BY <2>2, <2>3, <3>1
  <2>5. ~erased => k \in made' /\ ((k \in made /\ UNCHANGED made) \/ made' = made \cup {k})
    BY <2>1, <2>2 DEF Owned
  <2>6. ~erased => \A i \in Present' : objects'[i].named => i \in made'
    BY <2>2, <2>5, ExecuteOwned
  <2> QED  BY <2>1, <2>4, <2>5, <2>6 DEF Owned
<1>7. CASE SendDelayed
  <2>1. /\ UNCHANGED <<objects, made, journal, erased>> /\ pc = "send" /\ pc' = "idle"
        /\ \E res \in Desired : late' = late \cup {[id |-> cur, res |-> res]}
    BY <1>7 DEF SendDelayed, Stop
  <2> QED  BY <2>1 DEF Owned, Present
<1>8. CASE Finish
  <2>1. /\ UNCHANGED <<objects, made, late, erased>> /\ pc = "record" /\ pc' = "idle"
        /\ journal' = [id |-> cur, pending |-> FALSE, digest |-> want.secret]
    BY <1>8 DEF Finish, finish, application, past
  <2> QED  BY <2>1 DEF Owned, Present
<1>9. CASE ExecuteLate
  <2>1. PICK q \in late : late' = late \ {q} /\ Execute(q.id, q.res)
    BY <1>9 DEF ExecuteLate
  <2>2. /\ q.id \in Ids \cup {None} /\ q.res \in Resource
        /\ q.res.secret = None => q.id # None
    BY DEF Inv, TypeOK, RunSound
  <2>3. PICK k \in Ids, o \in Object :
          /\ objects' = [objects EXCEPT ![k] = o]
          /\ o.named /\ o.rest = q.res.rest
          /\ q.id # None => k = q.id /\ objects[k] # None /\ UNCHANGED <<used, made>>
          /\ q.id = None => /\ k \notin used /\ q.res.secret # None
                            /\ used' = used \cup {k} /\ made' = made \cup {k}
    BY <2>1, <2>2, ExecuteWrites
  <2>4. UNCHANGED <<journal, erased, pc, cur>>
    BY <1>9 DEF ExecuteLate, Disturb, run, past
  <2>5. ~erased => (k \in made /\ UNCHANGED made) \/ made' = made \cup {k}
    BY <2>3 DEF Owned
  <2>6. ~erased => \A i \in Present' : objects'[i].named => i \in made'
    BY <2>3, <2>5, ExecuteOwned
  <2> QED  BY <2>1, <2>4, <2>5, <2>6 DEF Owned
<1>10. CASE DropLate \/ TargetRestart
  <2>1. UNCHANGED <<objects, made, journal, erased, pc, cur>> /\ late' \subseteq late
    BY <1>10 DEF DropLate, TargetRestart, Disturb, run, past
  <2> QED  BY <2>1 DEF Owned, Present
<1>11. CASE UserCreate \/ UserChange \/ UserDelete
  <2>1. UNCHANGED <<made, late, journal, erased, pc, cur>>
    BY <1>11 DEF UserCreate, UserChange, UserDelete, UserEdit, Disturb, run
  <2>2. \/ \E i \in Ids, o \in Object : ~o.named /\ objects' = [objects EXCEPT ![i] = o]
        \/ \E i \in Present, o \in Object :
             /\ o.named => objects[i].named \/ i \in made
             /\ objects' = [objects EXCEPT ![i] = o]
        \/ \E i \in Present : objects' = [objects EXCEPT ![i] = None]
    BY <1>11 DEF UserCreate, UserChange, UserDelete
  <2> QED  BY <2>1, <2>2 DEF Owned, Present, Inv, TypeOK
<1>12. CASE Erase
  BY <1>12 DEF Erase, Owned
<1>13. CASE LoseJournal
  <2>1. /\ journal' = None /\ late' = {} /\ pc' = "idle" /\ UNCHANGED erased
        /\ objects' = [i \in Ids |-> IF objects[i] = None THEN None
                                     ELSE [objects[i] EXCEPT !.named = FALSE]]
    BY <1>13 DEF LoseJournal, Disturb, past
  <2>2. \A o \in Object : ~[o EXCEPT !.named = FALSE].named  BY DEF Object
  <2>3. \A i \in Present' : ~objects'[i].named
    BY <2>1, <2>2 DEF Present, Inv, TypeOK
  <2> QED  BY <2>1, <2>3 DEF Owned
<1>14. CASE UNCHANGED vars
  BY <1>14 DEF vars, application, run, history, past, Owned, Present
<1> QED
  BY <1>1, <1>2, <1>3, <1>4, <1>5, <1>6, <1>7, <1>8, <1>9, <1>10, <1>11, <1>12, <1>13, <1>14
     DEF Next, Progress, Environment

\* Runs write no object but those that runs have created, until the
\* application is erased.
THEOREM OnlyOwnWritten == Spec => []OnlyOwnObjectsWritten
<1>1. Owned => OnlyOwnObjectsWritten  BY DEF Owned, OnlyOwnObjectsWritten
<1>2. Spec => []Owned  BY InvAlways, OwnedInit, OwnedStep, PTL DEF Spec
<1> QED  BY <1>1, <1>2, PTL

-----------------------------------------------------------------------------
(* Interrupted creates *)

\* The only object under our name is the one that the run has found, or has
\* created, and the entry is of no other.
Sole ==
  /\ late = {}
  /\ Acceptable
  /\ Listed => \A i \in Present : objects[i].named => i = cur
  /\ Listed /\ cur # None => journal.id \in {None, cur}

Recoverable == ~renamed /\ ~delayed => Sole

LEMMA RecoverableInit == Init => Recoverable
BY DEF Init, Recoverable, Sole, Acceptable, Matches, Present, Listed

\* The history is never forgotten.
LEMMA PastKept == ASSUME Inv, [Next]_vars PROVE (renamed => renamed') /\ (delayed => delayed')
BY DEF Inv, TypeOK, Next, Begin, Progress, Login, List, Probe, Compare, Test, Intent, Send,
       SendMissing, Finish, Environment, Fail, SendUnanswered, SendDelayed, ExecuteLate, DropLate,
       UserCreate, UserChange, UserDelete, Erase, LoseJournal, Deploy, TargetRestart, Refuse, Stop,
       Go, UserEdit, Disturb, history, past, vars

\* owned() accepts what is there when nothing but c bears our name, and the
\* entry is of c or of none.
LEMMA SoleAccepted ==
  ASSUME NEW c, journal' # None, journal'.id \in {None, c}, None \notin Ids,
         \A i \in Present' : objects'[i].named => i = c
  PROVE  Acceptable'
BY DEF Acceptable, Matches, Present

\* A step that leaves the objects and the entry alone.
LEMMA SoleKept ==
  ASSUME Sole, UNCHANGED <<objects, journal, late>>,
         Listed' => Listed /\ UNCHANGED cur
  PROVE  Sole'
BY DEF Sole, Acceptable, Matches, Present, Listed

LEMMA RecoverableStep == Inv /\ Recoverable /\ [Next]_vars => Recoverable'
<1> SUFFICES ASSUME Inv, Sole, [Next]_vars, ~renamed', ~delayed' PROVE Sole'
  BY PastKept DEF Recoverable
<1>0. None \notin Ids  BY IdAssumption
<1>1. CASE Begin \/ Login \/ SendMissing \/ Fail \/ Deploy \/ TargetRestart
  <2>1. UNCHANGED <<objects, journal, late>> /\ (Listed' => Listed /\ UNCHANGED cur)
    BY <1>1 DEF Begin, Login, SendMissing, Fail, Deploy, TargetRestart, Refuse, Stop, Go, Disturb,
                Listed, application, run
  <2> QED  BY <2>1, SoleKept
<1>2. CASE Probe \/ Test
  <2>1. UNCHANGED <<objects, journal, late>> /\ (Listed' => Listed /\ UNCHANGED cur)
    BY <1>2 DEF Probe, Test, Refuse, Stop, Go, Listed, application, run
  <2> QED  BY <2>1, SoleKept
<1>3. CASE List
  <2>1. CASE Refuse
    BY <2>1, SoleKept DEF Refuse, Stop, Listed, application
  <2>2. CASE ~Refuse
    <3>1. /\ UNCHANGED <<objects, journal, late>>
          /\ cur' \in (IF Matches = {} THEN {None} ELSE Matches)
      BY <1>3, <2>2 DEF List, Go, application
    <3>2. \A i \in Present : objects[i].named => i \in Matches  BY DEF Matches
    <3>3. \A i \in Present : objects[i].named => i = cur'
      BY <3>1, <3>2 DEF Sole, Acceptable
    <3>4. cur' # None => journal.id \in {None, cur'}
      BY <3>1 DEF Sole, Acceptable
    <3>5. Acceptable'  BY <3>1 DEF Sole, Acceptable, Matches, Present
    <3> QED  BY <3>1, <3>3, <3>4, <3>5 DEF Sole, Present
  <2> QED  BY <2>1, <2>2
<1>4. CASE Compare
  <2>1. UNCHANGED <<objects, late, cur>> /\ Listed
    BY <1>4 DEF Compare, Go, application, Listed
  <2>2. CASE UNCHANGED journal
    BY <2>1, <2>2, SoleKept
  <2>3. CASE Same /\ journal' = [id |-> cur, pending |-> FALSE, digest |-> journal.digest]
    <3>1. journal' # None
      <4>1. cur \in Ids /\ journal.digest \in Secrets
        BY <2>1, <2>3 DEF Same, Inv, TypeOK, RunSound, Listed, Record
      <4>2. journal' \in Record  BY <4>1, <2>3 DEF Record
      <4> QED  BY <4>2, RecordAssumption
    <3>2. Acceptable'  BY <1>0, <2>1, <2>3, <3>1, SoleAccepted DEF Sole, Present
    <3> QED  BY <2>1, <2>3, <3>2 DEF Sole, Present
  <2> QED  BY <1>4, <2>2, <2>3 DEF Compare, finish
<1>5. CASE Intent
  <2>1. /\ UNCHANGED <<objects, late, cur>> /\ pc = "intent"
        /\ journal' = [id |-> None, pending |-> TRUE, digest |-> want.secret]
    BY <1>5 DEF Intent, intent, Go, application
  <2>2. cur = None /\ Listed  BY <2>1 DEF Inv, RunSound, Listed
  <2>3. \A i \in Present : ~objects[i].named  BY <1>0, <2>2 DEF Sole, Present
  <2>4. Acceptable'  BY <2>1, <2>3 DEF Acceptable, Matches, Present
  <2> QED  BY <2>1, <2>2, <2>3, <2>4 DEF Sole, Present
<1>6. CASE Send \/ SendUnanswered
  <2>1. /\ pc = "send" /\ UNCHANGED <<late, journal>>
        /\ \E res \in Desired : Execute(cur, res)
    BY <1>6 DEF Send, SendUnanswered, Stop
  <2>2. PICK k \in Ids, o \in Object :
          /\ objects' = [objects EXCEPT ![k] = o] /\ o.named
          /\ cur # None => /\ k = cur /\ objects[k] # None /\ o.rest = seen.rest
                           /\ UNCHANGED <<used, made>>
          /\ cur = None => /\ k \notin used
                           /\ used' = used \cup {k} /\ made' = made \cup {k}
    BY <2>1, SentWrites
  <2>3. pc' # "idle" => cur' = IF cur = None THEN CHOOSE i \in made' \ made : TRUE ELSE cur
    BY <1>6 DEF Send, SendUnanswered, Stop
  <2>4. pc' # "idle" => cur' = k
    <3>1. CASE cur = None
      <4>1. made' \ made = {k}  BY <2>2, <3>1 DEF Inv, IdsSound
      <4> QED  BY <2>3, <3>1, <4>1
    <3> QED  BY <2>2, <2>3, <3>1
  <2>5. \A i \in Present' : objects'[i].named => i = k
    BY <1>0, <2>1, <2>2 DEF Sole, Listed, Present, Inv, TypeOK
  <2>6. journal' # None /\ journal'.id \in {None, k}
    BY <2>1, <2>2 DEF Sole, Listed, Inv, RunSound
  <2>7. Acceptable'  BY <1>0, <2>5, <2>6, SoleAccepted
  <2>8. pc' = "idle" => ~Listed'  BY DEF Listed
  <2> QED  BY <2>1, <2>4, <2>5, <2>6, <2>7, <2>8 DEF Sole
<1>7. CASE SendDelayed
  BY <1>7 DEF SendDelayed
<1>8. CASE Finish
  <2>1. /\ UNCHANGED <<objects, late, cur>> /\ pc = "record" /\ pc' = "idle"
        /\ journal' = [id |-> cur, pending |-> FALSE, digest |-> want.secret]
    BY <1>8 DEF Finish, finish, application, run
  <2>2. journal' # None
    <3>1. cur \in Ids /\ want.secret \in Secrets
      BY <2>1 DEF Inv, TypeOK, RunSound, Declaration
    <3>2. journal' \in Record  BY <2>1, <3>1 DEF Record
    <3> QED  BY <3>2, RecordAssumption
  <2>3. Acceptable'  BY <1>0, <2>1, <2>2, SoleAccepted DEF Sole, Listed, Present
  <2> QED  BY <2>1, <2>3 DEF Sole, Listed
<1>9. CASE ExecuteLate \/ DropLate
  BY <1>9 DEF ExecuteLate, DropLate, Sole
<1>10. CASE UserCreate
  <2>1. PICK k \in Ids, o \in Object :
          k \notin used /\ ~o.named /\ objects' = [objects EXCEPT ![k] = o]
    BY <1>10 DEF UserCreate, NextId
  <2>2. UNCHANGED <<late, journal, pc, cur>>
    BY <1>10 DEF UserCreate, UserEdit, Disturb, run
  <2>3. Matches' \subseteq Matches \cup {k} /\ (k \in Matches' => journal # None /\ journal.id = k)
    BY <2>1, <2>2 DEF Matches, Present, Inv, TypeOK
  <2>4. Matches \subseteq used  BY DEF Matches, Inv, IdsSound
  <2>5. Acceptable'
    BY <1>0, <2>1, <2>2, <2>3, <2>4 DEF Sole, Acceptable
  <2>6. \A i \in Present' : objects'[i].named => i \in Present /\ objects[i].named
    BY <2>1 DEF Present, Inv, TypeOK
  <2> QED  BY <2>2, <2>5, <2>6 DEF Sole, Listed
<1>11. CASE UserChange
  <2>1. PICK k \in Present, o \in Object :
          /\ objects' = [objects EXCEPT ![k] = o]
          /\ renamed' = (renamed \/ o.named # objects[k].named)
    BY <1>11 DEF UserChange
  <2>2. UNCHANGED <<late, journal, pc, cur>>
    BY <1>11 DEF UserChange, UserEdit, Disturb, run
  <2>3. objects[k] \in Object /\ o.named = objects[k].named  BY <2>1 DEF Present, Inv, TypeOK
  <2>4. Present' = Present /\ \A i \in Present : objects'[i].named = objects[i].named
    BY <2>1, <2>3, AbsentAssumption DEF Present, Inv, TypeOK
  <2>5. Matches' = Matches  BY <2>2, <2>4 DEF Matches
  <2> QED  BY <2>2, <2>4, <2>5 DEF Sole, Acceptable, Listed
<1>12. CASE UserDelete
  <2>1. PICK k \in Present : objects' = [objects EXCEPT ![k] = None]
    BY <1>12 DEF UserDelete
  <2>2. UNCHANGED <<late, journal, pc, cur>>
    BY <1>12 DEF UserDelete, UserEdit, Disturb, run
  <2>3. Present' \subseteq Present /\ \A i \in Present' : objects'[i] = objects[i]
    BY <2>1 DEF Present, Inv, TypeOK
  <2>4. Matches' \subseteq Matches  BY <2>2, <2>3 DEF Matches
  <2> QED  BY <2>2, <2>3, <2>4 DEF Sole, Acceptable, Listed
<1>13. CASE Erase
  <2>1. objects' = [i \in Ids |-> None] /\ late' = {} /\ UNCHANGED <<journal, pc, cur>>
    BY <1>13 DEF Erase, Disturb, run
  <2>2. Present' = {} /\ Matches' = {}  BY <2>1 DEF Present, Matches
  <2> QED  BY <2>1, <2>2 DEF Sole, Acceptable, Listed
<1>14. CASE LoseJournal
  <2>1. /\ journal' = None /\ late' = {} /\ pc' = "idle"
        /\ objects' = [i \in Ids |-> IF objects[i] = None THEN None
                                     ELSE [objects[i] EXCEPT !.named = FALSE]]
    BY <1>14 DEF LoseJournal, Disturb
  <2>2. \A o \in Object : ~[o EXCEPT !.named = FALSE].named  BY DEF Object
  <2>3. \A i \in Present' : ~objects'[i].named
    BY <2>1, <2>2 DEF Present, Inv, TypeOK
  <2>4. Matches' = {}  BY <2>1, <2>3 DEF Matches
  <2> QED  BY <2>1, <2>4 DEF Sole, Acceptable, Listed
<1>15. CASE UNCHANGED vars
  BY <1>15, SoleKept DEF vars, application, run, Listed
<1> QED
  BY <1>1, <1>2, <1>3, <1>4, <1>5, <1>6, <1>7, <1>8, <1>9, <1>10, <1>11, <1>12, <1>13, <1>14, <1>15
     DEF Next, Progress, Environment

\* Kills, lost requests and replies, lost journals and erased applications never
\* bring about a state that owned() refuses.
THEOREM CreateRecovers == Spec => []InterruptedCreateRecovers
<1>1. Recoverable => InterruptedCreateRecovers
  BY DEF Recoverable, Sole, InterruptedCreateRecovers
<1>2. Spec => []Recoverable  BY InvAlways, RecoverableInit, RecoverableStep, PTL DEF Spec
<1> QED  BY <1>1, <1>2, PTL

-----------------------------------------------------------------------------
(* Fields that nixstead does not own *)

\* Until the run writes it, the object is as the run has listed it, unless
\* something else has acted.
AsListed ==
  pc \in {"probe", "compare", "test", "intent", "send"} /\ cur # None /\ ~disturbed
    => objects[cur] = seen

LEMMA AsListedInit == Init => AsListed
BY DEF Init, AsListed

LEMMA AsListedStep == Inv /\ AsListed /\ [Next]_vars => AsListed'
<1> SUFFICES ASSUME Inv, AsListed, [Next]_vars PROVE AsListed'  OBVIOUS
<1>1. CASE List
  BY <1>1 DEF List, Refuse, Stop, Go, AsListed, application
<1>2. CASE Send \/ SendUnanswered
  BY <1>2 DEF Send, SendUnanswered, Stop, AsListed
<1>3. CASE Probe \/ Compare \/ Test \/ Intent
  BY <1>3 DEF Probe, Compare, Test, Intent, Refuse, Stop, Go, AsListed, application, run, history
<1>4. CASE Begin \/ Login \/ SendMissing \/ SendDelayed \/ Finish \/ Fail
  BY <1>4 DEF Begin, Login, SendMissing, SendDelayed, Finish, Fail, Refuse, Stop, Go, AsListed
<1>5. CASE Deploy \/ UNCHANGED vars
  BY <1>5 DEF Deploy, vars, AsListed, application, run, history
<1>6. CASE Environment /\ ~(SendUnanswered \/ SendDelayed \/ Fail \/ Deploy)
  <2>1. Disturb
    BY <1>6 DEF Environment, ExecuteLate, DropLate, UserCreate, UserChange, UserDelete, UserEdit,
                Erase, LoseJournal, TargetRestart
  <2> QED  BY <2>1 DEF Disturb, AsListed
<1> QED  BY <1>1, <1>2, <1>3, <1>4, <1>5, <1>6 DEF Next, Progress, Environment

\* A run never changes the fields of an object that nixstead does not own,
\* unless something else has acted since it began.
THEOREM UnownedKept == Spec => UnownedFieldsKept
<1> DEFINE Kept ==
      \A i \in Present :
        (objects'[i] # None => objects'[i].rest = objects[i].rest) \/ disturbed'
<1>1. Inv /\ AsListed /\ [Next]_vars => [Kept]_vars
  <2> SUFFICES ASSUME Inv, AsListed, Next PROVE Kept  OBVIOUS
  <2>1. CASE UNCHANGED objects
    BY <2>1 DEF Present
  <2>2. CASE Send \/ SendUnanswered
    <3>1. pc = "send" /\ (\E res \in Desired : Execute(cur, res)) /\ UNCHANGED disturbed
      BY <2>2 DEF Send, SendUnanswered, Stop, history
    <3>2. PICK k \in Ids, o \in Object :
            /\ objects' = [objects EXCEPT ![k] = o] /\ o.named
            /\ cur # None => /\ k = cur /\ objects[k] # None /\ o.rest = seen.rest
                             /\ UNCHANGED <<used, made>>
            /\ cur = None => /\ k \notin used
                             /\ used' = used \cup {k} /\ made' = made \cup {k}
      BY <3>1, SentWrites
    <3>3. objects \in [Ids -> Object \cup {None}]  BY DEF Inv, TypeOK
    <3>4. k \in Present => cur = k  BY <3>2 DEF Inv, IdsSound
    <3>5. k \in Present /\ ~disturbed => o.rest = objects[k].rest
      BY <3>1, <3>2, <3>4, IdAssumption DEF AsListed
    <3> QED  BY <3>1, <3>2, <3>3, <3>5 DEF Present
  <2>3. CASE Environment /\ ~(SendUnanswered \/ SendDelayed \/ Fail \/ Deploy)
    <3>1. Disturb
      BY <2>3 DEF Environment, ExecuteLate, DropLate, UserCreate, UserChange, UserDelete, UserEdit,
                  Erase, LoseJournal, TargetRestart
    <3> QED  BY <3>1 DEF Disturb
  <2>4. Begin \/ Login \/ List \/ Probe \/ Compare \/ Test \/ Intent \/ SendMissing \/ Finish
        \/ SendDelayed \/ Fail \/ Deploy => UNCHANGED objects
    BY DEF Begin, Login, List, Probe, Compare, Test, Intent, SendMissing, Finish, SendDelayed, Fail,
           Deploy, Refuse, Go, application
  <2> QED  BY <2>1, <2>2, <2>3, <2>4 DEF Next, Progress, Environment
<1>2. Spec => []AsListed  BY InvAlways, AsListedInit, AsListedStep, PTL DEF Spec
<1> QED  BY <1>1, <1>2, InvAlways, PTL DEF Spec, UnownedFieldsKept

-----------------------------------------------------------------------------
(* Runs that report success *)

\* The credential that the digest in the entry should tell: the run's own, once
\* the run has written it.
Told == IF pc = "record" THEN want.secret ELSE journal.digest

\* The objects that the run, or owned(), may take for ours.
Known == {i \in Present : i \in Matches \/ (Listed /\ i = cur)}

\* For a token, which is never tried: unless it may have drifted, the digest
\* tells what is stored.
DigestTold ==
  ~Probes /\ ~drifted =>
    /\ journal # None => /\ \A i \in Known : objects[i].secret = Told
                         /\ journal.id \in used \cup {None}
    /\ Listed /\ cur # None => cur \in used

\* No object but the one found bears our name, nor has the entry another id.
FoundSole ==
  Listed /\ (~disturbed \/ (~Probes /\ ~drifted)) =>
    /\ \A i \in Present : objects[i].named => i = cur
    /\ cur # None => journal.id \in {None, cur}

\* What the run relies on when it sends the credential back masked.
MaskSound ==
  /\ pc \notin {"idle", "login"} /\ Probes /\ ~disturbed => accepted = want.secret
  /\ pc \in {"compare", "test", "send"} /\ keep =>
       /\ Masks /\ journal.digest = want.secret
       /\ Probes /\ ~disturbed => objects[cur].secret = want.secret
  /\ pc = "send" /\ cur = None => journal.digest = want.secret
  /\ pc = "record" /\ seen = None => journal.digest = want.secret

\* What the run has written is there until something else acts.
Written ==
  pc = "record" /\ ~disturbed =>
    /\ objects[cur] # None
    /\ objects[cur].named /\ objects[cur].settings = want.settings
    /\ (keep /\ ~Probes) \/ objects[cur].secret = want.secret

\* An entry without an id is pending.
PendingTold == journal # None /\ journal.id = None => journal.pending

SuccessSound ==
  /\ AsListed /\ DigestTold /\ FoundSole /\ MaskSound /\ Written /\ PendingTold
  /\ SuccessMeansFollows

LEMMA SuccessInit == Init => SuccessSound
BY DEF Init, SuccessSound, AsListed, DigestTold, FoundSole, MaskSound, Written, PendingTold,
       SuccessMeansFollows, Known, Matches, Present, Listed

\* What anything but the run does.
Others ==
  \/ ExecuteLate \/ DropLate \/ UserCreate \/ UserChange \/ UserDelete
  \/ Erase \/ LoseJournal \/ TargetRestart

LEMMA OthersAct ==
  ASSUME Others
  PROVE  /\ disturbed' /\ UNCHANGED <<adapter, declared, pc, want, cur, seen, keep, outcome>>
         /\ UNCHANGED journal \/ (pc = "idle" /\ journal' = None)
BY DEF Others, ExecuteLate, DropLate, UserCreate, UserChange, UserDelete, UserEdit, Erase, LoseJournal,
       TargetRestart, Disturb, run

\* What ends a run without success.
Ended == Refuse \/ Fail \/ SendMissing \/ SendUnanswered \/ SendDelayed

LEMMA EndedStops ==
  ASSUME Ended
  PROVE  pc' = "idle" /\ outcome' = "failed" /\ UNCHANGED <<adapter, journal, want, seen, cur, disturbed>>
BY DEF Ended, Refuse, Fail, SendMissing, SendUnanswered, SendDelayed, Stop, run, application

\* Every step is one of the run's that goes on, an end, or somebody else's.
LEMMA StepKinds ==
  ASSUME [Next]_vars
  PROVE  \/ Ended \/ Others \/ Deploy \/ UNCHANGED vars \/ Begin
         \/ (~Refuse /\ (Login \/ List \/ Test))
         \/ Probe \/ Compare \/ Intent \/ Send \/ Finish
BY DEF Next, Progress, Environment, Ended, Others

LEMMA PendingToldStep == Inv /\ SuccessSound /\ [Next]_vars => PendingTold'
<1> SUFFICES ASSUME Inv, SuccessSound, [Next]_vars PROVE PendingTold'  OBVIOUS
<1>1. CASE UNCHANGED journal  BY <1>1 DEF SuccessSound, PendingTold
<1>2. CASE Compare
  <2>1. CASE Same /\ journal' = [id |-> cur, pending |-> FALSE, digest |-> journal.digest]
    <3>1. pc = "compare"  BY <1>2 DEF Compare
    <3>2. cur # None  BY <2>1, <3>1 DEF Same, Inv, RunSound, Listed
    <3> QED  BY <2>1, <3>2 DEF PendingTold
  <2> QED  BY <1>1, <1>2, <2>1 DEF Compare, finish
<1>3. CASE Intent
  BY <1>3 DEF Intent, intent, PendingTold
<1>4. CASE Finish
  <2>1. cur # None /\ journal'.id = cur  BY <1>4 DEF Finish, finish, Inv, RunSound
  <2> QED  BY <2>1 DEF PendingTold
<1>5. CASE Ended \/ Others
  BY <1>5, <1>1, EndedStops, OthersAct DEF PendingTold
<1>6. Deploy \/ UNCHANGED vars \/ Begin \/ (~Refuse /\ (Login \/ List \/ Test)) \/ Probe \/ Send
      => UNCHANGED journal
  BY DEF Deploy, vars, Begin, Login, List, Test, Probe, Send
<1> QED  BY <1>1, <1>2, <1>3, <1>4, <1>5, <1>6, StepKinds

LEMMA MaskSoundStep == Inv /\ SuccessSound /\ [Next]_vars => MaskSound'
<1> SUFFICES ASSUME Inv, SuccessSound, [Next]_vars PROVE MaskSound'  OBVIOUS
<1>0. MaskSound  BY DEF SuccessSound
<1>1. CASE Ended \/ Begin
  BY <1>1, EndedStops DEF Begin, MaskSound
<1>2. CASE Others
  BY <1>0, <1>2, OthersAct DEF MaskSound, Masks, Probes
<1>3. CASE Deploy \/ UNCHANGED vars
  BY <1>0, <1>3 DEF Deploy, vars, application, run, history, MaskSound, Masks, Probes
<1>4. CASE ~Refuse /\ Login
  BY <1>4 DEF Login, Go, application, history, MaskSound, Probes
<1>5. CASE ~Refuse /\ List
  BY <1>0, <1>5 DEF List, Go, application, history, MaskSound, Probes
<1>6. CASE Probe
  BY <1>0, <1>6 DEF Probe, Go, application, history, MaskSound, Masks, Probes
<1>7. CASE Compare
  BY <1>0, <1>7 DEF Compare, Go, application, history, MaskSound, Masks, Probes
<1>8. CASE ~Refuse /\ Test
  BY <1>0, <1>8 DEF Test, Go, application, history, MaskSound, Masks, Probes
<1>9. CASE Intent
  <2>1. cur = None /\ ~keep  BY <1>9 DEF Intent, Inv, RunSound
  <2> QED  BY <1>0, <1>9, <2>1 DEF Intent, intent, Go, application, history, MaskSound, Masks, Probes
<1>10. CASE Send
  <2>1. pc = "send" /\ (cur = None <=> seen = None)  BY <1>10 DEF Send, Inv, RunSound, Listed
  <2> QED  BY <1>0, <1>10, <2>1 DEF Send, history, MaskSound, Masks, Probes
<1>11. CASE Finish
  BY <1>11 DEF Finish, MaskSound
<1> QED
  BY <1>1, <1>2, <1>3, <1>4, <1>5, <1>6, <1>7, <1>8, <1>9, <1>10, <1>11, StepKinds

LEMMA WrittenStep == Inv /\ SuccessSound /\ [Next]_vars => Written'
<1> SUFFICES ASSUME Inv, SuccessSound, [Next]_vars PROVE Written'  OBVIOUS
<1>1. CASE Ended \/ Others
  BY <1>1, EndedStops, OthersAct DEF Written
<1>2. CASE Deploy \/ UNCHANGED vars
  BY <1>2 DEF Deploy, vars, application, run, history, SuccessSound, Written, Probes
<1>3. CASE Begin \/ (~Refuse /\ (Login \/ List \/ Test)) \/ Probe \/ Compare \/ Intent \/ Finish
  BY <1>3 DEF Begin, Login, List, Test, Probe, Compare, Intent, Finish, Go, Written
<1>4. CASE Send
  <2>1. pc = "send" /\ UNCHANGED <<adapter, want, keep, disturbed>>
    BY <1>4 DEF Send, history
  <2>2. PICK k \in Ids, o \in Object :
          /\ objects' = [objects EXCEPT ![k] = o] /\ o.named
          /\ o.settings = want.settings
          /\ o.secret = IF keep THEN objects[k].secret ELSE want.secret
          /\ cur # None => /\ k = cur /\ objects[k] # None /\ o.rest = seen.rest
                           /\ UNCHANGED <<used, made>>
          /\ cur = None => /\ k \notin used
                           /\ used' = used \cup {k} /\ made' = made \cup {k}
    BY <1>4, <2>1, SentWrites DEF Send
  <2>3. cur' = k
    <3>1. CASE cur = None
      <4>1. made' \ made = {k}  BY <2>2, <3>1 DEF Inv, IdsSound
      <4> QED  BY <1>4, <3>1, <4>1 DEF Send
    <3> QED  BY <1>4, <2>2, <3>1 DEF Send
  <2>4. objects'[k] = o /\ o # None
    BY <2>2, AbsentAssumption DEF Inv, TypeOK
  <2>5. keep /\ Probes /\ ~disturbed => o.secret = want.secret
    <3>1. keep => cur = k  BY <2>1, <2>2 DEF Inv, RunSound
    <3> QED  BY <2>1, <2>2, <3>1 DEF SuccessSound, MaskSound
  <2> QED  BY <2>1, <2>2, <2>3, <2>4, <2>5 DEF Written, Probes
<1> QED  BY <1>1, <1>2, <1>3, <1>4, StepKinds

\* A request of the run that is executed, as far as names and credentials go.
LEMMA SentNames ==
  ASSUME Inv, SuccessSound, Send \/ SendUnanswered
  PROVE  \E k \in Ids, o \in Object :
           /\ objects' = [objects EXCEPT ![k] = o] /\ objects'[k] = o
           /\ o.secret = IF keep THEN objects[k].secret ELSE want.secret
           /\ k \in used'
           /\ pc' # "idle" => cur' = k
           /\ cur # None => k = cur /\ k \in Present /\ UNCHANGED used
           /\ cur = None => ~keep /\ used' = used \cup {k} /\ journal.id = None
           /\ journal # None
<1>1. pc = "send"  BY DEF Send, SendUnanswered
<1>2. PICK k \in Ids, o \in Object :
        /\ objects' = [objects EXCEPT ![k] = o] /\ o.named
        /\ o.settings = want.settings
        /\ o.secret = IF keep THEN objects[k].secret ELSE want.secret
        /\ cur # None => /\ k = cur /\ objects[k] # None /\ o.rest = seen.rest
                         /\ UNCHANGED <<used, made>>
        /\ cur = None => /\ k \notin used
                         /\ used' = used \cup {k} /\ made' = made \cup {k}
  BY <1>1, SentWrites DEF Send, SendUnanswered
<1>3. pc' # "idle" => cur' = k
  <2>1. CASE pc' # "idle" /\ cur = None
    <3>1. made' \ made = {k}  BY <1>2, <2>1 DEF Inv, IdsSound
    <3> QED  BY <2>1, <3>1 DEF Send, SendUnanswered, Stop
  <2>2. CASE pc' # "idle" /\ cur # None
    BY <1>2, <2>2 DEF Send, SendUnanswered, Stop
  <2> QED  BY <2>1, <2>2
<1>4. objects'[k] = o  BY <1>2 DEF Inv, TypeOK
<1>5. k \in used'  BY <1>2 DEF Inv, IdsSound, Present
<1>6. cur = None => ~keep /\ journal.id = None  BY <1>1 DEF Inv, RunSound
<1>7. journal # None  BY <1>1 DEF Inv, RunSound
<1> QED  BY <1>2, <1>3, <1>4, <1>5, <1>6, <1>7 DEF Present

\* Where a token may not have drifted, nobody has named an object of ours.
LEMMA NamesKept ==
  ASSUME Inv, Others, ~Probes, ~drifted', pc # "idle"
  PROVE  \A i \in Present' : objects'[i].named => i \in Present /\ objects[i].named
<1>1. CASE ExecuteLate \/ Erase
  BY <1>1 DEF ExecuteLate, Erase, Drift
<1>2. CASE DropLate \/ TargetRestart
  BY <1>2 DEF DropLate, TargetRestart, Present
<1>3. CASE LoseJournal
  BY <1>3 DEF LoseJournal
<1>4. CASE UserCreate
  BY <1>4 DEF UserCreate, Present, Inv, TypeOK
<1>5. CASE UserDelete
  BY <1>5 DEF UserDelete, Present, Inv, TypeOK
<1>6. CASE UserChange
  <2>1. PICK i \in Present, o \in Object :
          /\ objects' = [objects EXCEPT ![i] = o]
          /\ Drift(o.secret # objects[i].secret \/ (o.named /\ ~objects[i].named))
    BY <1>6 DEF UserChange
  <2>2. o.named => objects[i].named  BY <2>1 DEF Drift, Present, Inv, TypeOK
  <2> QED  BY <2>1, <2>2 DEF Present, Inv, TypeOK
<1> QED  BY <1>1, <1>2, <1>3, <1>4, <1>5, <1>6 DEF Others

\* Only Finish takes back that a token may have drifted.
LEMMA DriftedKept ==
  ASSUME Inv, [Next]_vars, ~Finish
  PROVE  drifted => drifted'
BY DEF Next, Begin, Progress, Login, List, Probe, Compare, Test, Intent, Send, SendMissing,
       Environment, Fail, SendUnanswered, SendDelayed, ExecuteLate, DropLate, UserCreate, UserChange,
       UserDelete, Erase, LoseJournal, Deploy, TargetRestart, Refuse, Stop, Go, Drift, Disturb, history, vars

LEMMA FoundSoleStep == Inv /\ SuccessSound /\ [Next]_vars => FoundSole'
<1> SUFFICES ASSUME Inv, SuccessSound, [Next]_vars,
                    Listed', ~disturbed' \/ (~Probes' /\ ~drifted')
             PROVE  /\ \A i \in Present' : objects'[i].named => i = cur'
                    /\ cur' # None => journal'.id \in {None, cur'}
  BY DEF FoundSole
<1>0. FoundSole  BY DEF SuccessSound
<1>1. CASE Ended \/ Finish \/ Begin \/ (~Refuse /\ Login)
  BY <1>1, EndedStops DEF Finish, Begin, Login, Go, Listed
<1>2. CASE Others
  <2>1. pc # "idle" /\ UNCHANGED <<adapter, pc, cur, journal>> /\ disturbed'
    BY <1>2, OthersAct DEF Listed
  <2>2. ~Probes /\ ~drifted /\ ~drifted'
    <3>1. ~Finish  BY <2>1 DEF Finish
    <3> QED  BY <2>1, <3>1, DriftedKept DEF Probes
  <2>3. \A i \in Present' : objects'[i].named => i \in Present /\ objects[i].named
    BY <1>2, <2>1, <2>2, NamesKept
  <2> QED  BY <1>0, <2>1, <2>2, <2>3 DEF FoundSole, Listed
<1>3. CASE Deploy \/ UNCHANGED vars
  BY <1>0, <1>3 DEF Deploy, vars, application, run, history, FoundSole, Listed, Probes, Present
<1>4. CASE ~Refuse /\ List
  <2>1. /\ Acceptable /\ UNCHANGED <<objects, journal>>
        /\ cur' \in (IF Matches = {} THEN {None} ELSE Matches)
    BY <1>4 DEF List, Go, application
  <2>2. \A i \in Present : objects[i].named => i \in Matches  BY DEF Matches
  <2> QED  BY <2>1, <2>2 DEF Acceptable, Present
<1>5. CASE Probe \/ Compare \/ (~Refuse /\ Test)
  BY <1>0, <1>5 DEF Probe, Compare, Test, Go, application, history, FoundSole, Listed, Probes, Present
<1>6. CASE Intent
  BY <1>0, <1>6 DEF Intent, intent, Go, application, history, FoundSole, Listed, Probes, Present
<1>7. CASE Send
  <2>1. pc = "send" /\ UNCHANGED <<adapter, journal, disturbed, drifted>> /\ pc' = "record"
    BY <1>7 DEF Send, history
  <2>2. PICK k \in Ids, o \in Object :
          /\ objects' = [objects EXCEPT ![k] = o] /\ objects'[k] = o
          /\ o.secret = IF keep THEN objects[k].secret ELSE want.secret
          /\ k \in used'
          /\ pc' # "idle" => cur' = k
          /\ cur # None => k = cur /\ k \in Present /\ UNCHANGED used
          /\ cur = None => ~keep /\ used' = used \cup {k} /\ journal.id = None
          /\ journal # None
    BY <1>7, SentNames
  <2>3. /\ \A i \in Present : objects[i].named => i = cur
        /\ cur # None => journal.id \in {None, cur}
    BY <1>0, <2>1 DEF FoundSole, Listed, Probes
  <2>4. \A i \in Present' : i # k => i \in Present /\ objects'[i] = objects[i]
    BY <2>2 DEF Present, Inv, TypeOK
  <2>5. \A i \in Present : i # None  BY IdAssumption DEF Present
  <2> QED  BY <2>1, <2>2, <2>3, <2>4, <2>5
<1> QED  BY <1>1, <1>2, <1>3, <1>4, <1>5, <1>6, <1>7, StepKinds

\* What DigestTold says of a token that may not have drifted.
TokenTold ==
  /\ journal # None => /\ \A i \in Known : objects[i].secret = Told
                       /\ journal.id \in used \cup {None}
  /\ Listed /\ cur # None => cur \in used

\* A step that leaves the objects, the entry and what it tells alone.
LEMMA TokenKept ==
  ASSUME TokenTold, UNCHANGED <<objects, journal, used, Told>>,
         Listed' => Listed /\ UNCHANGED cur
  PROVE  TokenTold'
<1>1. Known' \subseteq Known  BY DEF Known, Matches, Present
<1> QED  BY <1>1 DEF TokenTold

LEMMA TokenOthers ==
  ASSUME Inv, TokenTold, ~Probes, Others, ~drifted'
  PROVE  TokenTold'
<1>1. UNCHANGED <<pc, want, cur>> /\ (UNCHANGED journal \/ (pc = "idle" /\ journal' = None))
  BY OthersAct
<1>2. CASE LoseJournal
  BY <1>1, <1>2 DEF LoseJournal, TokenTold, Listed
<1>3. CASE ExecuteLate \/ Erase
  BY <1>3 DEF ExecuteLate, Erase, Drift
<1>4. CASE DropLate \/ TargetRestart
  <2>1. UNCHANGED <<objects, journal, used>>  BY <1>4 DEF DropLate, TargetRestart
  <2> QED  BY <1>1, <2>1, TokenKept DEF Told, Listed
<1>5. CASE UserCreate \/ UserChange \/ UserDelete
  <2>1. UNCHANGED journal /\ used \subseteq used'
    BY <1>5 DEF UserCreate, UserChange, UserDelete, UserEdit
  <2>2. \A i \in Known' : journal # None => i \in Known /\ objects'[i].secret = objects[i].secret
    <3>1. CASE UserCreate
      <4>1. PICK k \in Ids, o \in Object :
              k \notin used /\ ~o.named /\ objects' = [objects EXCEPT ![k] = o]
        BY <3>1 DEF UserCreate, NextId
      <4>2. \A i \in Present' : i # k => i \in Present /\ objects'[i] = objects[i]
        BY <4>1 DEF Present, Inv, TypeOK
      <4>3. objects'[k] = o  BY <4>1 DEF Inv, TypeOK
      <4>4. journal # None => k \notin Known'
        BY <1>1, <2>1, <4>1, <4>3, IdAssumption DEF Known, Matches, TokenTold, Listed
      <4> QED  BY <1>1, <2>1, <4>2, <4>4 DEF Known, Matches, Listed
    <3>2. CASE UserChange
      <4>1. PICK k \in Present, o \in Object :
              /\ objects' = [objects EXCEPT ![k] = o]
              /\ Drift(o.secret # objects[k].secret \/ (o.named /\ ~objects[k].named))
        BY <3>2 DEF UserChange
      <4>2. o.secret = objects[k].secret /\ (o.named => objects[k].named)
        BY <4>1 DEF Drift, Present, Inv, TypeOK
      <4>3. \A i \in Present' : /\ i \in Present /\ objects'[i].secret = objects[i].secret
                                /\ objects'[i].named => objects[i].named
        BY <4>1, <4>2 DEF Present, Inv, TypeOK
      <4> QED  BY <1>1, <2>1, <4>3 DEF Known, Matches, Listed
    <3>3. CASE UserDelete
      <4>1. \A i \in Present' : i \in Present /\ objects'[i] = objects[i]
        BY <3>3 DEF UserDelete, Present, Inv, TypeOK
      <4> QED  BY <1>1, <2>1, <4>1 DEF Known, Matches, Listed
    <3> QED  BY <1>5, <3>1, <3>2, <3>3
  <2>3. journal # None => UNCHANGED Told  BY <1>1, <2>1 DEF Told
  <2> QED  BY <1>1, <2>1, <2>2, <2>3 DEF TokenTold, Listed
<1> QED  BY <1>2, <1>3, <1>4, <1>5 DEF Others

LEMMA TokenSent ==
  ASSUME Inv, SuccessSound, TokenTold, ~Probes, ~drifted, ~drifted', Send \/ SendUnanswered
  PROVE  TokenTold'
<1>1. pc = "send" /\ UNCHANGED <<journal, want>>
  BY DEF Send, SendUnanswered, Stop, run
<1>2. PICK k \in Ids, o \in Object :
        /\ objects' = [objects EXCEPT ![k] = o] /\ objects'[k] = o
        /\ o.secret = IF keep THEN objects[k].secret ELSE want.secret
        /\ k \in used'
        /\ pc' # "idle" => cur' = k
        /\ cur # None => k = cur /\ k \in Present /\ UNCHANGED used
        /\ cur = None => ~keep /\ used' = used \cup {k} /\ journal.id = None
        /\ journal # None
  BY SentNames
<1>3. /\ \A i \in Present : objects[i].named => i = cur
      /\ cur # None => journal.id \in {None, cur}
  BY <1>1 DEF SuccessSound, FoundSole, Listed
<1>4. \A i \in Present' : i # k => i \in Present /\ objects'[i] = objects[i]
  BY <1>2 DEF Present, Inv, TypeOK
<1>5. pc' = "idle" => ~Listed'  BY DEF Listed
<1>6. Known' \subseteq {k}
  BY <1>1, <1>2, <1>3, <1>4, <1>5, IdAssumption DEF Known, Matches, Present
<1>7. o.secret = want.secret
  <2>1. CASE keep
    <3>1. cur \in Known /\ k = cur  BY <1>1, <1>2, <2>1 DEF Known, Listed
    <3>2. journal.digest = want.secret  BY <1>1, <2>1 DEF SuccessSound, MaskSound
    <3> QED  BY <1>1, <1>2, <2>1, <3>1, <3>2 DEF TokenTold, Told
  <2> QED  BY <1>2, <2>1
<1>8. Told' = want.secret
  <2>1. CASE Send
    BY <1>1, <2>1 DEF Send, Told
  <2>2. CASE SendUnanswered
    <3>1. seen = None /\ pc' = "idle"  BY <2>2 DEF SendUnanswered, Drift, Stop
    <3>2. cur = None  BY <1>1, <3>1 DEF Inv, RunSound, Listed
    <3>3. journal.digest = want.secret  BY <1>1, <3>2 DEF SuccessSound, MaskSound
    <3> QED  BY <1>1, <3>1, <3>3 DEF Told
  <2> QED  BY <2>1, <2>2
<1>9. journal.id \in used' \cup {None}
  BY <1>2 DEF TokenTold
<1> QED  BY <1>1, <1>2, <1>5, <1>6, <1>7, <1>8, <1>9 DEF TokenTold

LEMMA DigestToldStep == Inv /\ SuccessSound /\ [Next]_vars => DigestTold'
<1> SUFFICES ASSUME Inv, SuccessSound, [Next]_vars, ~Probes', ~drifted' PROVE TokenTold'
  BY DEF DigestTold, TokenTold
<1>1. CASE Finish
  <2>1. /\ pc = "record" /\ pc' = "idle" /\ UNCHANGED <<objects, used, adapter, want>>
        /\ journal' = [id |-> cur, pending |-> FALSE, digest |-> want.secret]
        /\ ~drifted \/ (~keep /\ ~disturbed)
    BY <1>1 DEF Finish, finish, application, run
  <2>2. cur \in Ids /\ cur # None  BY <2>1 DEF Inv, TypeOK, RunSound
  <2>3. cur \in used
    <3>1. CASE ~drifted
      BY <2>1, <2>2, <3>1 DEF SuccessSound, DigestTold, Listed, Probes
    <3>2. CASE ~disturbed
      BY <2>1, <2>2, <3>2 DEF SuccessSound, Written, Inv, IdsSound, Present
    <3> QED  BY <2>1, <3>1, <3>2
  <2>4. \A i \in Present : objects[i].named => i = cur
    BY <2>1 DEF SuccessSound, FoundSole, Listed, Probes
  <2>5. Known' \subseteq {cur} \cap Present
    BY <2>1, <2>4 DEF Known, Matches, Present, Listed
  <2>6. cur \in Present => objects[cur].secret = want.secret
    <3>1. CASE ~drifted
      <4>1. cur \in Present => cur \in Known  BY <2>1 DEF Known, Listed
      <4>2. journal # None  BY <2>1, <2>2 DEF Inv, RunSound, Listed
      <4> QED  BY <2>1, <3>1, <4>1, <4>2 DEF SuccessSound, DigestTold, Probes, Told
    <3>2. CASE ~keep /\ ~disturbed
      BY <2>1, <3>2 DEF SuccessSound, Written
    <3> QED  BY <2>1, <3>1, <3>2
  <2>7. Told' = want.secret  BY <2>1 DEF Told
  <2> QED  BY <2>1, <2>3, <2>5, <2>6, <2>7 DEF TokenTold, Listed
<1>2. CASE ~Finish
  <2>1. ~drifted  BY <1>2, DriftedKept
  <2>2. ~Probes
    BY DEF Probes, Next, Begin, Progress, Login, List, Probe, Compare, Test, Intent, Send, SendMissing,
           Finish, Environment, Fail, SendUnanswered, SendDelayed, ExecuteLate, DropLate, UserCreate,
           UserChange, UserDelete, UserEdit, Erase, LoseJournal, Deploy, TargetRestart, Refuse, Go, vars,
           application
  <2>3. TokenTold  BY <2>1, <2>2 DEF SuccessSound, DigestTold, TokenTold
  <2>4. CASE Send \/ SendUnanswered
    BY <2>1, <2>2, <2>3, <2>4, TokenSent
  <2>5. CASE Others
    BY <2>2, <2>3, <2>5, TokenOthers
  <2>6. CASE Fail
    <3>1. /\ UNCHANGED <<objects, journal, used>> /\ pc' = "idle"
          /\ ~(pc = "record" /\ seen # None)
      BY <2>2, <2>6 DEF Fail, Stop, Drift, application
    <3>2. UNCHANGED Told  BY <3>1 DEF Told, SuccessSound, MaskSound
    <3> QED  BY <2>3, <3>1, <3>2, TokenKept DEF Listed
  <2>7. CASE Begin \/ Login \/ Probe \/ Test \/ SendMissing \/ SendDelayed
    <3>1. UNCHANGED <<objects, journal, used>> /\ pc # "record" /\ pc' # "record"
          /\ (Listed' => Listed /\ UNCHANGED cur)
      BY <2>7 DEF Begin, Login, Probe, Test, SendMissing, SendDelayed, Refuse, Stop, Go, Listed,
                  application, run
    <3> QED  BY <2>3, <3>1, TokenKept DEF Told
  <2>8. CASE List
    <3>1. UNCHANGED <<objects, journal, used>> /\ pc = "list" /\ pc' \in {"idle", "probe"}
      BY <2>8 DEF List, Refuse, Stop, Go, application
    <3>2. Listed' /\ cur' # None => cur' \in Matches
      BY <2>8 DEF List, Refuse, Stop, Listed
    <3>3. Known' \subseteq Known
      BY <3>1, <3>2, IdAssumption DEF Known, Matches, Present
    <3>4. Matches \subseteq used  BY DEF Matches, Inv, IdsSound
    <3> QED  BY <2>3, <3>1, <3>2, <3>3, <3>4 DEF TokenTold, Told
  <2>9. CASE Compare
    <3>1. pc = "compare" /\ UNCHANGED <<objects, used, cur>> /\ pc' \in {"idle", "test"} /\ Listed
      BY <2>9 DEF Compare, Go, application, Listed
    <3>2. CASE UNCHANGED journal
      BY <2>3, <3>1, <3>2, TokenKept DEF Told
    <3>3. CASE Same /\ journal' = [id |-> cur, pending |-> FALSE, digest |-> journal.digest]
      <4>1. cur # None /\ journal # None
        BY <3>1, <3>3 DEF Same, Inv, RunSound
      <4>2. Known' \subseteq Known
        BY <3>1, <3>3 DEF Known, Matches, Present
      <4>3. Told' = Told  BY <3>1, <3>3 DEF Told
      <4> QED  BY <2>3, <3>1, <3>3, <4>1, <4>2, <4>3 DEF TokenTold
    <3> QED  BY <2>9, <3>2, <3>3 DEF Compare, finish
  <2>10. CASE Intent
    <3>1. /\ pc = "intent" /\ pc' = "send" /\ UNCHANGED <<objects, used, cur>>
          /\ journal' = [id |-> None, pending |-> TRUE, digest |-> want.secret]
      BY <2>10 DEF Intent, intent, Go, application
    <3>2. cur = None  BY <3>1 DEF Inv, RunSound
    <3>3. \A i \in Present : ~objects[i].named
      BY <2>1, <2>2, <3>1, <3>2, IdAssumption DEF SuccessSound, FoundSole, Listed, Present
    <3>4. Known' = {}
      BY <3>1, <3>2, <3>3, IdAssumption DEF Known, Matches, Present
    <3> QED  BY <3>1, <3>2, <3>4 DEF TokenTold
  <2>11. CASE Deploy \/ UNCHANGED vars
    <3>1. UNCHANGED <<objects, journal, used, pc, want, cur>>
      BY <2>11 DEF Deploy, vars, application, run
    <3> QED  BY <2>3, <3>1, TokenKept DEF Told, Listed
  <2> QED
    BY <1>2, <2>4, <2>5, <2>6, <2>7, <2>8, <2>9, <2>10, <2>11 DEF Next, Progress, Environment, Others
<1> QED  BY <1>1, <1>2

LEMMA SuccessStep == Inv /\ SuccessSound /\ [Next]_vars => SuccessMeansFollows'
<1> SUFFICES ASSUME Inv, SuccessSound, [Next]_vars,
                    outcome' = "success", pc' = "idle", ~disturbed', ~want'.dry
             PROVE  \E i \in Present' : Follows(i, want)' 
  BY DEF SuccessMeansFollows
<1>1. ~Ended /\ ~Others  BY EndedStops, OthersAct
<1>2. CASE Deploy \/ UNCHANGED vars
  <2>1. UNCHANGED <<adapter, objects, journal, pc, want, outcome, disturbed, drifted>>
    BY <1>2 DEF Deploy, vars, application, run, history
  <2>2. PICK i \in Present : Follows(i, want)  BY <2>1 DEF SuccessSound, SuccessMeansFollows
  <2>3. i \in Present'  BY <2>1 DEF Present
  <2>4. Follows(i, want)'  BY <2>1, <2>2 DEF Follows, Masks
  <2> QED  BY <2>3, <2>4
<1>3. CASE Compare
  <2>1. /\ pc = "compare" /\ Same /\ UNCHANGED <<adapter, objects, want, cur, keep, disturbed, drifted>>
        /\ \/ journal.pending /\ journal' = [id |-> cur, pending |-> FALSE, digest |-> journal.digest]
           \/ ~journal.pending /\ UNCHANGED journal
    BY <1>3 DEF Compare, Go, finish, application, history
  <2>2. cur # None /\ journal # None  BY <2>1 DEF Same, Inv, RunSound, Listed
  <2>3. PICK i \in Ids : i = cur  BY <2>2 DEF Inv, TypeOK
  <2>4. objects[i] = seen /\ i \in Present
    BY <2>1, <2>2, <2>3 DEF SuccessSound, AsListed, Same, Present
  <2>5. objects[i].named /\ objects[i].settings = want.settings  BY <2>1, <2>4 DEF Same
  <2>6. objects[i].secret = want.secret \/ drifted
    <3>1. CASE keep /\ Probes
      BY <2>1, <2>3, <3>1 DEF SuccessSound, MaskSound
    <3>2. CASE keep /\ ~Probes
      <4>1. i \in Known  BY <2>1, <2>3, <2>4 DEF Known, Listed
      <4>2. journal.digest = want.secret  BY <2>1, <3>2 DEF SuccessSound, MaskSound
      <4> QED  BY <2>1, <2>2, <3>2, <4>1, <4>2 DEF SuccessSound, DigestTold, Told
    <3>3. CASE ~keep
      BY <2>1, <2>4, <3>3 DEF Same
    <3> QED  BY <3>1, <3>2, <3>3
  <2>7. journal.digest = want.secret \/ ~Masks
    BY <2>1 DEF Same, SuccessSound, MaskSound
  <2>8. ~journal.pending => journal.id = i
    BY <2>1, <2>2, <2>3 DEF SuccessSound, PendingTold, FoundSole, Listed
  <2>9. /\ journal' # None /\ journal'.id = i /\ ~journal'.pending
        /\ journal'.digest = journal.digest
    <3>1. CASE journal' = [id |-> cur, pending |-> FALSE, digest |-> journal.digest]
      <4>1. journal.digest \in Secrets  BY <2>2 DEF Inv, TypeOK, Record
      <4>2. journal' \in Record  BY <2>3, <3>1, <4>1 DEF Record
      <4>3. journal' # None  BY <4>2, RecordAssumption
      <4> QED  BY <2>3, <3>1, <4>3
    <3> QED  BY <2>1, <2>2, <2>8, <3>1
  <2>10. i \in Present'  BY <2>1, <2>4 DEF Present
  <2>11. Follows(i, want)'
    BY <2>1, <2>5, <2>6, <2>7, <2>9 DEF Follows, Masks
  <2> QED  BY <2>10, <2>11
<1>4. CASE Finish
  <2>1. /\ pc = "record" /\ UNCHANGED <<adapter, objects, want, cur, keep, disturbed>>
        /\ journal' = [id |-> cur, pending |-> FALSE, digest |-> want.secret]
        /\ drifted' = (drifted /\ (keep \/ disturbed))
    BY <1>4 DEF Finish, finish, application, run
  <2>2. PICK i \in Ids : i = cur  BY <2>1 DEF Inv, TypeOK, RunSound
  <2>3. /\ i \in Present /\ objects[i].named /\ objects[i].settings = want.settings
        /\ (keep /\ ~Probes) \/ objects[i].secret = want.secret
    BY <2>1, <2>2 DEF SuccessSound, Written, Present
  <2>4. objects[i].secret = want.secret \/ drifted'
    <3>1. CASE keep /\ ~Probes /\ ~drifted
      <4>1. i \in Known  BY <2>1, <2>2, <2>3 DEF Known, Listed
      <4>2. journal # None  BY <2>1, <2>2, IdAssumption DEF Inv, RunSound, Listed
      <4> QED  BY <2>1, <3>1, <4>1, <4>2 DEF SuccessSound, DigestTold, Told
    <3> QED  BY <2>1, <2>3, <3>1 DEF Inv, TypeOK
  <2>5. journal' # None
    <3>1. want.secret \in Secrets  BY DEF Inv, TypeOK, Declaration
    <3>2. journal' \in Record  BY <2>1, <2>2, <3>1 DEF Record
    <3> QED  BY <3>2, RecordAssumption
  <2>6. i \in Present'  BY <2>1, <2>3 DEF Present
  <2>7. Follows(i, want)'  BY <2>1, <2>2, <2>3, <2>4, <2>5 DEF Follows, Masks
  <2> QED  BY <2>6, <2>7
<1>5. Begin \/ Login \/ List \/ Test \/ Probe \/ Intent \/ Send => Ended \/ pc' # "idle"
  BY DEF Begin, Login, List, Test, Probe, Intent, Send, Go, Ended
<1> QED  BY <1>1, <1>2, <1>3, <1>4, <1>5, StepKinds

LEMMA SuccessAlways == Spec => []SuccessSound
<1>1. Inv /\ SuccessSound /\ [Next]_vars => SuccessSound'
  <2> SUFFICES ASSUME Inv, SuccessSound, [Next]_vars PROVE SuccessSound'  OBVIOUS
  <2>1. AsListed'  BY AsListedStep DEF SuccessSound
  <2> QED
    BY <2>1, PendingToldStep, MaskSoundStep, WrittenStep, FoundSoleStep, DigestToldStep, SuccessStep
       DEF SuccessSound
<1> QED  BY <1>1, InvAlways, SuccessInit, PTL DEF Spec

\* A run that reports success leaves the object as declared and completely
\* journalled, whatever was lost, killed, delayed or edited before it began.
THEOREM SuccessFollows == Spec => []SuccessMeansFollows
<1>1. SuccessSound => SuccessMeansFollows  BY DEF SuccessSound
<1> QED  BY <1>1, SuccessAlways, PTL

\* Only a token, the one credential that is never tried, drifts unseen.
NoDrift == Probes => ~drifted

LEMMA NoDriftStep == Inv /\ NoDrift /\ [Next]_vars => NoDrift'
<1> SUFFICES ASSUME Inv, NoDrift, [Next]_vars, Probes' PROVE ~drifted'
  BY DEF NoDrift
<1>1. adapter' = adapter
  BY DEF Next, Begin, Progress, Login, List, Probe, Compare, Test, Intent, Send, SendMissing,
         Finish, Environment, Fail, SendUnanswered, SendDelayed, ExecuteLate, DropLate, UserCreate,
         UserChange, UserDelete, UserEdit, Erase, LoseJournal, Deploy, TargetRestart, Refuse,
         application, vars
<1>2. Probes /\ ~drifted  BY <1>1 DEF NoDrift, Probes
<1>3. UNCHANGED drifted \/ Finish \/ \E b \in BOOLEAN : Drift(b)
  BY DEF Next, Begin, Progress, Login, List, Probe, Compare, Test, Intent, Send, SendMissing,
         Finish, Environment, Fail, SendUnanswered, SendDelayed, ExecuteLate, DropLate, UserCreate,
         UserChange, UserDelete, UserEdit, Erase, LoseJournal, Deploy, TargetRestart, Refuse, Go,
         Drift, history, vars
<1> QED  BY <1>2, <1>3 DEF Drift, Finish

LEMMA NoDriftAlways == Spec => []NoDrift
<1>1. Init => NoDrift  BY DEF Init, NoDrift
<1> QED  BY <1>1, InvAlways, NoDriftStep, PTL DEF Spec

\* The application stores the credential that the run was to bring there.
SecretFollows ==
  outcome = "success" /\ pc = "idle" /\ ~disturbed /\ ~want.dry
    => \E i \in Present : objects[i].named /\ objects[i].secret = want.secret

\* The limitation docs/services/ntfy-integrations.md:27 describes, "an unannounced
\* UI token edit cannot be detected", is the only one of its kind: after a
\* success that nothing has disturbed every application whose credential the run
\* tries stores the declared one, and so does one with a token unless something
\* other than a completed run has set that token (ensure in ntfy_adapter.py).
THEOREM SecretFollowsWhereTried == Spec => [](Probes \/ ~drifted => SecretFollows)
<1>1. NoDrift /\ SuccessMeansFollows => (Probes \/ ~drifted => SecretFollows)
  BY DEF NoDrift, SuccessMeansFollows, Follows, SecretFollows
<1> QED  BY <1>1, NoDriftAlways, SuccessFollows, PTL

-----------------------------------------------------------------------------
(* What is written, and when *)

\* A run that goes on to write has found a difference, and is no dry run.  A
\* credential that is not sent back masked differs from what the entry or the
\* application tells of it.
WriteSound ==
  /\ pc \in {"test", "intent", "send", "record"} => ~want.dry
  /\ pc \in {"test", "send"} => ~Same
  /\ pc \in {"compare", "test", "send"} /\ cur # None /\ Masks /\ ~keep /\ ~disturbed =>
       journal.digest # want.secret \/ (Probes /\ objects[cur].secret # want.secret)

LEMMA WriteInit == Init => WriteSound
BY DEF Init, WriteSound

LEMMA WriteStep == Inv /\ SuccessSound /\ WriteSound /\ [Next]_vars => WriteSound'
<1> SUFFICES ASSUME Inv, SuccessSound, WriteSound, [Next]_vars PROVE WriteSound'  OBVIOUS
<1>1. CASE Ended \/ Begin \/ Finish
  BY <1>1, EndedStops DEF Begin, Finish, WriteSound
<1>2. CASE Others
  BY <1>2, OthersAct DEF WriteSound, Same, Masks
<1>3. CASE Deploy \/ UNCHANGED vars
  BY <1>3 DEF Deploy, vars, application, run, history, WriteSound, Same, Masks, Probes
<1>4. CASE ~Refuse /\ (Login \/ List)
  BY <1>4 DEF Login, List, Go, WriteSound
<1>5. CASE Probe
  <2>1. /\ pc = "probe" /\ pc' = "compare"
        /\ UNCHANGED <<adapter, objects, accepted, journal, want, cur, disturbed>>
        /\ keep' = (/\ cur # None /\ Masks /\ journal.digest = want.secret
                    /\ Probes => objects[cur] # None /\ objects[cur].secret = accepted)
    BY <1>5 DEF Probe, Go, application, history
  <2>2. Probes /\ ~disturbed => accepted = want.secret  BY <2>1 DEF SuccessSound, MaskSound
  <2>3. cur # None /\ ~disturbed => objects[cur] = seen /\ seen # None
    BY <2>1 DEF SuccessSound, AsListed, Inv, RunSound, Listed
  <2> QED  BY <2>1, <2>2, <2>3 DEF WriteSound, Masks, Probes
<1>6. CASE Compare
  <2>1. CASE Same \/ want.dry
    BY <1>6, <2>1 DEF Compare, WriteSound
  <2>2. CASE ~Same /\ ~want.dry
    BY <1>6, <2>2 DEF Compare, Go, application, history, WriteSound, Same, Masks, Probes
  <2> QED  BY <2>1, <2>2
<1>7. CASE ~Refuse /\ Test
  BY <1>7 DEF Test, Go, application, history, WriteSound, Same, Masks, Probes
<1>8. CASE Intent
  <2>1. cur = None /\ seen = None  BY <1>8 DEF Intent, Inv, RunSound, Listed
  <2> QED  BY <1>8, <2>1 DEF Intent, Go, application, history, WriteSound, Same
<1>9. CASE Send
  BY <1>9 DEF Send, WriteSound
<1> QED  BY <1>1, <1>2, <1>3, <1>4, <1>5, <1>6, <1>7, <1>8, <1>9, StepKinds

LEMMA WriteAlways == Spec => []WriteSound
BY WriteInit, WriteStep, InvAlways, SuccessAlways, PTL DEF Spec

\* The requests that write.
Writes == Send \/ SendUnanswered \/ SendDelayed

\* Nothing is sent to an application whose object follows the declaration.
WriteNeeded == Writes /\ ~disturbed => ~\E i \in Present : Follows(i, want)

\* Reconciling is idempotent: a run sends a write only where no object follows
\* its declaration.  With SuccessFollows, a run after one that succeeded
\* writes nothing, until the declaration or the application has changed.
\* (download_client in reconcile.py and ensure in the adapters compare before
\* they write.)
THEOREM RunsWriteOnlyDifferences == Spec => [][WriteNeeded]_vars
<1>1. Inv /\ SuccessSound /\ WriteSound /\ NoDrift /\ [Next]_vars => [WriteNeeded]_vars
  <2> SUFFICES ASSUME Inv, SuccessSound, WriteSound, NoDrift, Writes, ~disturbed,
                      NEW i \in Present, Follows(i, want)
               PROVE  FALSE
    BY DEF WriteNeeded
  <2>1. pc = "send"  BY DEF Writes, Send, SendUnanswered, SendDelayed
  <2>2. i \in Ids /\ i = cur /\ cur # None
    BY <2>1, IdAssumption DEF SuccessSound, FoundSole, Listed, Follows, Present
  <2>3. objects[i] = seen /\ seen # None
    BY <2>1, <2>2 DEF SuccessSound, AsListed, Present
  <2>4. /\ objects[i].named /\ objects[i].settings = want.settings
        /\ Probes => objects[i].secret = want.secret
        /\ Masks => journal.digest = want.secret
    BY DEF Follows, NoDrift
  <2>5. ~keep /\ (Masks \/ seen.secret # want.secret)
    BY <2>1, <2>3, <2>4 DEF WriteSound, Same
  <2>6. CASE Masks
    BY <2>1, <2>2, <2>4, <2>5, <2>6 DEF WriteSound
  <2>7. CASE ~Masks
    <3>1. Probes  BY <2>7 DEF Masks, Probes
    <3> QED  BY <2>3, <2>4, <2>5, <2>7, <3>1
  <2> QED  BY <2>6, <2>7
<1> QED  BY <1>1, InvAlways, SuccessAlways, WriteAlways, NoDriftAlways, PTL DEF Spec

\* A dry run leaves the application and the journal as they are, however it
\* ends.  (Every adapter returns at config["dryRun"] before its first request
\* that writes, and Reconciler.save writes no journal.)
DryRunKept ==
  want.dry /\ (Progress \/ Fail \/ SendUnanswered \/ SendDelayed)
    => UNCHANGED <<objects, used, late, journal>>

THEOREM DryRunsWriteNothing == Spec => [][DryRunKept]_vars
<1>1. WriteSound /\ [Next]_vars => [DryRunKept]_vars
  <2> SUFFICES ASSUME WriteSound, want.dry,
                      Progress \/ Fail \/ SendUnanswered \/ SendDelayed
               PROVE  UNCHANGED <<objects, used, late, journal>>
    BY DEF DryRunKept
  <2>1. ~(Test \/ Intent \/ Send \/ SendUnanswered \/ SendDelayed \/ SendMissing \/ Finish)
    BY DEF WriteSound, Test, Intent, Send, SendUnanswered, SendDelayed, SendMissing, Finish
  <2>2. Login \/ List \/ Probe \/ Fail => UNCHANGED <<objects, used, late, journal>>
    BY DEF Login, List, Probe, Fail, Refuse, Stop, application
  <2>3. Compare => UNCHANGED <<objects, used, late, journal>>
    BY DEF Compare, Go, application
  <2> QED  BY <2>1, <2>2, <2>3 DEF Progress
<1> QED  BY <1>1, WriteAlways, PTL DEF Spec
=============================================================================
