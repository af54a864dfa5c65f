---------------------------- MODULE ManagedObject ----------------------------
(***************************************************************************)
(* One object that the ARR reconciler keeps in an application: a download  *)
(* client, a notification or an application registration (reconcile.py and *)
(* its adapters, which share one pattern).                                 *)
(*                                                                         *)
(* The object is known by a name that carries a random owner token and, as *)
(* soon as the application has answered, by its id.  A run takes the       *)
(* declaration and the credential, lists the application's objects, and    *)
(* creates or updates the one it owns; the ownership journal records the   *)
(* intent before a create and the id after it.  Users edit the application *)
(* at any time, requests and replies are lost or arrive after the client   *)
(* has given up, runs are killed, and applications are restored empty.     *)
(* Runs are serialised by a lock, so one run at a time is enough.          *)
(***************************************************************************)
EXTENDS Naturals

CONSTANTS
  Ids,       \* ids an application gives out, in their order
  Settings,  \* values of the other fields nixstead owns
  Secrets,   \* values of the credential field
  Rest,      \* values of the fields nixstead does not own
  None,
  Adapters,  \* the kinds of object: subset of {"client", "token", "plain"}
  MaxEvents  \* bound on edits, failures, delays and deployments

ASSUME IdAssumption == Ids \subseteq Nat /\ None \notin Ids
ASSUME SecretAssumption == None \notin Secrets
ASSUME AdapterAssumption == Adapters \subseteq {"client", "token", "plain"}
ASSUME BoundAssumption == MaxEvents \in Nat

\* named: does the object bear the name with the owner token?
Object == [named : BOOLEAN, settings : Settings, secret : Secrets, rest : Rest]
ASSUME AbsentAssumption == None \notin Object

\* The declaration as a run is given it, with the credential.
Declaration == [settings : Settings, secret : Secrets, dry : BOOLEAN]

\* One entry of the ownership journal.  The digest stands for the credential.
Record == [id : Ids \cup {None}, pending : BOOLEAN, digest : Secrets]
ASSUME RecordAssumption == None \notin Record

\* What is sent: a secret of None is the mask, which keeps the stored one.
Resource ==
  [settings : Settings, secret : Secrets \cup {None}, rest : Rest]

VARIABLES
  adapter,   \* the kind of the object, which never changes
  objects,   \* the application's objects, None where there is none
  used,      \* ids given out
  late,      \* requests the application has yet to execute
  accepted,  \* the credential the target of the relationship accepts
  declared,  \* the deployed declaration
  journal,   \* the object's entry in ownership.json, or None
  pc,        \* the run's step
  want,      \* the declaration the run works on
  cur,       \* the id of the object the run found or created
  seen,      \* that object as it was listed
  keep,      \* is the masked credential sent back?
  outcome,   \* how the last run ended
  made,      \* history: ids of objects created by runs
  disturbed, \* history: has anything but the run acted since it began?
  drifted,   \* history: may the stored token differ from the digest?
  renamed,   \* history: has a user ever changed a name?
  erased,    \* history: has the application ever been erased?
  delayed,   \* history: has a request ever been delayed?
  events     \* how many edits, failures, delays and deployments there were

application == <<adapter, objects, used, late, accepted>>
run == <<want, cur, seen, keep>>
past == <<renamed, erased, delayed>>
history == <<disturbed, drifted, past>>
vars == <<application, declared, journal, pc, run, outcome, made, history, events>>

Steps == {"idle", "login", "list", "probe", "compare", "test", "intent", "send", "record"}

\* Does the application return the credential as "********"?
Masks == adapter # "plain"

\* Is a credential that seems unchanged tested?  ntfy_adapter does not.
Probes == adapter # "token"

Present == {i \in Ids : objects[i] # None}

TypeOK ==
  /\ adapter \in Adapters
  /\ objects \in [Ids -> Object \cup {None}]
  /\ used \subseteq Ids
  /\ late \subseteq [id : Ids \cup {None}, res : Resource]
  /\ accepted \in Secrets
  /\ declared \in Declaration
  /\ journal \in Record \cup {None}
  /\ pc \in Steps
  /\ want \in Declaration
  /\ cur \in Ids \cup {None}
  /\ seen \in Object \cup {None}
  /\ keep \in BOOLEAN
  /\ outcome \in {"none", "success", "failed"}
  /\ made \subseteq Ids
  /\ disturbed \in BOOLEAN /\ drifted \in BOOLEAN
  /\ renamed \in BOOLEAN /\ erased \in BOOLEAN
  /\ delayed \in BOOLEAN /\ events \in Nat

\* An application without objects, and nothing in the journal.
Init ==
  /\ adapter \in Adapters
  /\ objects = [i \in Ids |-> None]
  /\ used = {}
  /\ late = {}
  /\ declared \in Declaration
  /\ accepted = declared.secret
  /\ journal = None
  /\ pc = "idle" /\ want = declared /\ cur = None /\ seen = None /\ keep = FALSE
  /\ outcome = "none"
  /\ made = {}
  /\ disturbed = FALSE /\ drifted = FALSE /\ renamed = FALSE /\ erased = FALSE
  /\ delayed = FALSE /\ events = 0

-----------------------------------------------------------------------------
(* Ownership *)

\* Faulty: an interrupted create is recovered by any object.
Matches_AnyPending ==
  {i \in Present : objects[i].named \/ (journal # None /\ journal.id \in {None, i})}

\* The objects under our name, or under the id in the journal.
Matches ==
  {i \in Present : objects[i].named \/ (journal # None /\ journal.id = i)}

\* Reconciler.owned() hands out the match, or that there is none; it refuses
\* several matches, a match without an entry and a match of another id.
Acceptable ==
  /\ \A i, j \in Matches : i = j
  /\ Matches # {} => journal # None
  /\ \A i \in Matches : journal # None => journal.id \in {None, i}

\* Faulty: the digest is recorded only after the create.
intent_NoDigest == journal' = [id |-> None, pending |-> TRUE]

intent == journal' = [id |-> None, pending |-> TRUE, digest |-> want.secret]

\* Faulty: an update leaves the digest of the create.
finish_KeepsDigest(id, digest) ==
  journal' = [id |-> id, pending |-> FALSE, digest |-> journal.digest]

finish(id, digest) == journal' = [id |-> id, pending |-> FALSE, digest |-> digest]

\* The credential field that is sent.
SentSecret == IF keep THEN None ELSE want.secret

\* Faulty: an update, too, starts from the schema.
Desired_FromSchema ==
  [settings : {want.settings}, secret : {SentSecret}, rest : Rest]

\* The resources that may be sent: unowned fields are those of the listed
\* object, or the defaults of the application's schema.
Desired ==
  [settings : {want.settings}, secret : {SentSecret},
   rest : IF seen = None THEN Rest ELSE {seen.rest}]

\* The credential that a sent one amounts to, for the object i.
Effective(secret, i) ==
  IF secret = None /\ i # None /\ objects[i] # None THEN objects[i].secret ELSE secret

\* What the application makes of a resource.
Stored(res, i) ==
  [named |-> TRUE, settings |-> res.settings, secret |-> Effective(res.secret, i), rest |-> res.rest]

\* resource == current: nothing to write.
Same ==
  /\ seen # None
  /\ seen.named /\ seen.settings = want.settings
  /\ keep \/ (~Masks /\ seen.secret = want.secret)

-----------------------------------------------------------------------------
(* The run *)

Event == events < MaxEvents /\ events' = events + 1

\* Faulty: a declaration that has been applied is not looked at again.
Begin_SkipsUnchanged ==
  /\ pc = "idle"
  /\ IF outcome = "success" /\ want = declared
       THEN UNCHANGED vars
       ELSE /\ pc' = "login"
            /\ want' = declared
            /\ cur' = None /\ seen' = None /\ keep' = FALSE
            /\ disturbed' = FALSE
            /\ UNCHANGED <<application, declared, journal, outcome, made, drifted, past, events>>

\* The unit's start, by its timer, at boot or after a change.
Begin ==
  /\ pc = "idle"
  /\ pc' = "login"
  /\ want' = declared
  /\ cur' = None /\ seen' = None /\ keep' = FALSE
  /\ disturbed' = FALSE
  /\ UNCHANGED <<application, declared, journal, outcome, made, drifted, past, events>>

\* What changes the stored credential, whose digest is only ever tested for
\* the kinds that probe.
Drift(b) == drifted' = (drifted \/ (~Probes /\ b))

\* An error or a kill at any step: the process ends and the lock with it.
\* What a completed update has stored, the journal may not yet describe.
Stop ==
  /\ pc' = "idle" /\ outcome' = "failed"
  /\ UNCHANGED <<declared, journal, run, disturbed, renamed, erased>>

Fail ==
  /\ pc # "idle"
  /\ Event
  /\ Drift(pc = "record" /\ seen # None)
  /\ Stop
  /\ UNCHANGED <<application, made, delayed>>

\* A refusal or an application's error that the state explains.
Refuse ==
  /\ Stop
  /\ UNCHANGED <<application, made, drifted, delayed, events>>

Go(step) == pc' = step /\ UNCHANGED <<declared, want, outcome, made, history, events>>

\* Whoever delivers credentials to the run logs in with them; a token that is
\* only stored, as for ntfy, is not tried.
Login ==
  /\ pc = "login"
  /\ IF Probes => accepted = want.secret
       THEN Go("list") /\ UNCHANGED <<application, journal, cur, seen, keep>>
       ELSE Refuse

List ==
  /\ pc = "list"
  /\ IF Acceptable
       THEN /\ cur' \in (IF Matches = {} THEN {None} ELSE Matches)
            /\ seen' = IF cur' = None THEN None ELSE objects[cur']
            /\ Go("probe")
            /\ UNCHANGED <<application, journal, keep>>
       ELSE Refuse

\* The stored credential cannot be read back.  If the digest says that it is
\* the wanted one it is tried, and sent back masked unless it fails.
Probe ==
  /\ pc = "probe"
  /\ keep' =
       (/\ cur # None /\ Masks
        /\ journal.digest = want.secret
        /\ Probes => objects[cur] # None /\ objects[cur].secret = accepted)
  /\ Go("compare")
  /\ UNCHANGED <<application, journal, cur, seen>>

\* Nothing to change ends the run, and so does a dry run.  A pending entry of
\* an object that is as it should be is completed.
Compare ==
  /\ pc = "compare"
  /\ IF Same \/ want.dry
       THEN /\ pc' = "idle" /\ outcome' = "success"
            /\ IF Same /\ journal.pending /\ ~want.dry
                 THEN finish(cur, journal.digest)
                 ELSE UNCHANGED journal
            /\ UNCHANGED <<declared, want, made, history, events>>
       ELSE Go("test") /\ UNCHANGED journal
  /\ UNCHANGED <<application, cur, seen, keep>>

\* The application tries the resource before it is written.
Test ==
  /\ pc = "test"
  /\ IF Effective(SentSecret, cur) = accepted
       THEN /\ Go(IF cur = None THEN "intent" ELSE "send")
            /\ UNCHANGED <<application, journal, cur, seen, keep>>
       ELSE Refuse

\* Faulty: the journal is saved only at the end.
Intent_Unsaved ==
  /\ pc = "intent"
  /\ Go("send")
  /\ UNCHANGED <<application, journal, cur, seen, keep>>

Intent ==
  /\ pc = "intent"
  /\ intent
  /\ Go("send")
  /\ UNCHANGED <<application, cur, seen, keep>>

\* The application executes a POST, giving out a new id, or a PUT.
NextId(i) == i \in Ids \ used /\ \A j \in Ids \ used : i <= j

Create(res) ==
  \E i \in Ids :
    /\ NextId(i)
    /\ objects' = [objects EXCEPT ![i] = Stored(res, i)]
    /\ used' = used \cup {i} /\ made' = made \cup {i}

Update(i, res) ==
  /\ objects[i] # None
  /\ objects' = [objects EXCEPT ![i] = Stored(res, i)]
  /\ UNCHANGED <<used, made>>

Execute(i, res) == IF i = None THEN Create(res) ELSE Update(i, res)

Send ==
  /\ pc = "send"
  /\ \E res \in Desired : Execute(cur, res)
  /\ cur' = IF cur = None THEN CHOOSE i \in made' \ made : TRUE ELSE cur
  /\ pc' = "record"
  /\ UNCHANGED <<adapter, late, accepted, declared, journal, want, seen, keep, outcome, history, events>>

\* PUT to an object that is gone: HTTP 404.
SendMissing ==
  /\ pc = "send" /\ cur # None
  /\ objects[cur] = None
  /\ Refuse

\* The request is executed, but its reply is lost.
SendUnanswered ==
  /\ pc = "send"
  /\ Event
  /\ \E res \in Desired : Execute(cur, res)
  /\ Drift(seen # None)
  /\ Stop
  /\ UNCHANGED <<adapter, late, accepted, delayed>>

\* The client times out; the application will execute the request later.
SendDelayed ==
  /\ pc = "send"
  /\ Event /\ delayed' = TRUE
  /\ \E res \in Desired : late' = late \cup {[id |-> cur, res |-> res]}
  /\ Stop
  /\ UNCHANGED <<adapter, objects, used, accepted, made, drifted>>

\* A credential that has just been sent is known to be the stored one.
Finish ==
  /\ pc = "record"
  /\ finish(cur, want.secret)
  /\ pc' = "idle" /\ outcome' = "success"
  /\ drifted' = (drifted /\ (keep \/ disturbed))
  /\ UNCHANGED <<application, declared, run, made, disturbed, past, events>>

-----------------------------------------------------------------------------
(* Everything else *)

\* Something other than the run has acted on what the run is about.
Disturb ==
  /\ disturbed' = TRUE
  /\ UNCHANGED <<pc, run, outcome>>

ExecuteLate ==
  /\ \E q \in late :
       /\ late' = late \ {q}
       /\ Execute(q.id, q.res)
  /\ Drift(TRUE)
  /\ Disturb
  /\ UNCHANGED <<adapter, accepted, declared, journal, past, events>>

\* A delayed update whose object is gone is rejected; any may be dropped.
DropLate ==
  /\ \E q \in late : late' = late \ {q}
  /\ Disturb
  /\ UNCHANGED <<adapter, objects, used, accepted, declared, journal, made, drifted, past, events>>

UserEdit ==
  /\ Event
  /\ Disturb
  /\ UNCHANGED <<adapter, late, accepted, declared, journal, made, erased, delayed>>

\* Users do not know the owner token: what they create has another name.
UserCreate ==
  /\ UserEdit
  /\ \E i \in Ids, o \in Object :
       /\ NextId(i) /\ ~o.named
       /\ objects' = [objects EXCEPT ![i] = o]
       /\ used' = used \cup {i}
  /\ UNCHANGED <<drifted, renamed>>

\* They may rename an object, and name one of ours as it was.
UserChange ==
  /\ UserEdit
  /\ \E i \in Present, o \in Object :
       /\ o # objects[i]
       /\ o.named => objects[i].named \/ i \in made
       /\ objects' = [objects EXCEPT ![i] = o]
       /\ Drift(o.secret # objects[i].secret \/ (o.named /\ ~objects[i].named))
       /\ renamed' = (renamed \/ o.named # objects[i].named)
  /\ UNCHANGED used

UserDelete ==
  /\ UserEdit
  /\ \E i \in Present : objects' = [objects EXCEPT ![i] = None]
  /\ UNCHANGED <<used, drifted, renamed>>

\* The application is restored empty, and counts its ids from the start.
Erase ==
  /\ Event
  /\ objects' = [i \in Ids |-> None]
  /\ used' = {} /\ made' = {} /\ late' = {}
  /\ erased' = TRUE /\ Drift(TRUE)
  /\ Disturb
  /\ UNCHANGED <<adapter, accepted, declared, journal, renamed, delayed>>

\* The journal is lost, and with it the owner token: our name is another one.
LoseJournal ==
  /\ pc = "idle"
  /\ Event
  /\ journal' = None
  /\ objects' = [i \in Ids |-> IF objects[i] = None THEN None
                               ELSE [objects[i] EXCEPT !.named = FALSE]]
  /\ made' = {} /\ late' = {}
  /\ Disturb
  /\ UNCHANGED <<adapter, used, accepted, declared, drifted, past>>

\* A rebuild changes the declaration, a rotation the credential.
Deploy ==
  /\ Event
  /\ \E d \in Declaration : d # declared /\ declared' = d
  /\ UNCHANGED <<application, journal, pc, run, outcome, made, history>>

\* The target restarts with the credential that has been deployed.
TargetRestart ==
  /\ accepted # declared.secret
  /\ accepted' = declared.secret
  /\ Disturb
  /\ UNCHANGED <<adapter, objects, used, late, declared, journal, made, drifted, past, events>>

-----------------------------------------------------------------------------
Progress ==
  \/ Login \/ List \/ Probe \/ Compare \/ Test
  \/ Intent \/ Send \/ SendMissing \/ Finish

Environment ==
  \/ Fail \/ SendUnanswered \/ SendDelayed \/ ExecuteLate \/ DropLate
  \/ UserCreate \/ UserChange \/ UserDelete
  \/ Erase \/ LoseJournal \/ Deploy \/ TargetRestart

Next == Begin \/ Progress \/ Environment

Spec == Init /\ [][Next]_vars

\* The timer starts the unit again and again, a run's requests have timeouts,
\* and the delivery restarts the target on a changed credential.
FairSpec == Spec /\ WF_vars(Begin) /\ WF_vars(Progress) /\ WF_vars(TargetRestart)

-----------------------------------------------------------------------------
(* Properties *)

\* Does the object i, with its journal entry, follow the declaration d?  Where
\* an unchanged credential is not tried, drift of the credential goes unseen.
Follows(i, d) ==
  /\ objects[i].named
  /\ objects[i].settings = d.settings
  /\ objects[i].secret = d.secret \/ drifted
  /\ journal # None
  /\ journal.id = i /\ ~journal.pending
  /\ Masks => journal.digest = d.secret

\* Runs write no object but those that runs have created: whatever is lost,
\* delayed or renamed, an object of the user's is never taken over.  (When an
\* application has been erased, an id in the journal may come to be another
\* object's.)
OnlyOwnObjectsWritten ==
  \A i \in Present : objects[i].named => i \in made \/ erased

\* Kills, lost requests and replies, lost journals and erased applications
\* never bring about a state that owned() will refuse, such as a second object.
\* Only renaming by a user can, and a create that the application executes
\* after the client has given it up.
InterruptedCreateRecovers == ~renamed /\ ~delayed => Acceptable

\* A run that reports success leaves the object as declared, completely
\* journalled, if nothing else acted since it began.
SuccessMeansFollows ==
  outcome = "success" /\ pc = "idle" /\ ~disturbed /\ ~want.dry
    => \E i \in Present : Follows(i, want)

\* A run never changes the fields of an object that nixstead does not own,
\* unless something changed them under it since it began.
UnownedFieldsKept ==
  [][\A i \in Present :
       (objects'[i] # None => objects'[i].rest = objects[i].rest) \/ disturbed']_vars

\* When users, deployments and faults have come to rest, the object comes to
\* follow the declaration, unless owned() refuses what users have renamed or
\* delays have doubled, or a token has drifted.
Converges ==
  <>[]((\E i \in Present : Follows(i, declared)) \/ declared.dry \/ ~Acceptable \/ drifted)
=============================================================================
