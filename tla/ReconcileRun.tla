---------------------------- MODULE ReconcileRun ----------------------------
(***************************************************************************)
(* One run of the ARR reconciler over all relationships (main() of         *)
(* reconcile.py) and what it publishes: the status file and the metrics.   *)
(*                                                                         *)
(* The relationships are attempted one after the other, always in the same *)
(* order.  An error of one ends only that one.  An application that does   *)
(* not answer costs its relationship the retries of API.ready(), and       *)
(* systemd kills a run that has lasted for TimeoutStartSec.                *)
(***************************************************************************)
EXTENDS Naturals, Sequences, FiniteSets

CONSTANTS
  Order,            \* the relationships as relationship_configs() yields them
  HangTime,         \* seconds ready() spends on an application that hangs
  TimeoutStartSec,  \* seconds a run may last
  None,
  MaxHung,    \* bound on the relationships that hang at a time
  MaxTime,    \* the clock stops here
  MaxEvents   \* bound on kills, deployments and changes of what hangs

ASSUME BoundAssumption == {HangTime, TimeoutStartSec, MaxHung, MaxTime, MaxEvents} \subseteq Nat

Relationships == {Order[n] : n \in 1 .. Len(Order)}
ASSUME OrderAssumption == Order \in Seq(Relationships)

Time == 0 .. MaxTime
Entry == [ok : BOOLEAN, last : Time \cup {None}]
ASSUME EntryAssumption == None \notin Entry
Status == [success : BOOLEAN, last : Time \cup {None}, rel : [Relationships -> Entry \cup {None}]]

VARIABLES
  selected, dry,  \* the deployed configuration
  hung,           \* relationships whose application does not answer
  status,         \* status.json
  metrics,        \* the file for the node exporter
  config,         \* the configuration the run works on
  mem, previous,  \* the run's status, and the entries it found
  todo,           \* relationships the run has yet to attempt
  elapsed,        \* seconds since the run began
  pc, ended,      \* its step; has it got to the final status?
  now,            \* the clock: one tick a run
  truth,          \* history: when each relationship last succeeded
  asked,          \* history: has the latest run sent requests?
  events          \* how many of these there were

deployed == <<selected, dry, hung>>
files == <<status, metrics>>
local == <<config, mem, previous, todo, elapsed, ended>>
vars == <<deployed, files, local, pc, now, truth, asked, events>>

TypeOK ==
  /\ selected \subseteq Relationships /\ dry \in BOOLEAN /\ hung \subseteq Relationships
  /\ status \in Status
  /\ metrics \in [success : BOOLEAN, last : Time \cup {None}, dry : BOOLEAN]
  /\ config \in [selected : SUBSET Relationships, dry : BOOLEAN]
  /\ mem \in Status /\ previous \in [Relationships -> Entry \cup {None}]
  /\ todo \subseteq config.selected
  /\ elapsed \in 0 .. TimeoutStartSec
  /\ pc \in {"idle", "status", "metrics", "attempt", "finish"} /\ ended \in BOOLEAN
  /\ now \in Time /\ truth \in [Relationships -> Time \cup {None}]
  /\ asked \in BOOLEAN /\ events \in Nat

Nothing == [r \in Relationships |-> None]
Unknown == [success |-> FALSE, last |-> None, rel |-> Nothing]

\* The first run of a host: neither file exists.
Init ==
  /\ selected \in SUBSET Relationships \ {{}} /\ dry \in BOOLEAN
  /\ hung \in {h \in SUBSET Relationships : Cardinality(h) <= MaxHung}
  /\ status = Unknown
  /\ metrics = [success |-> FALSE, last |-> None, dry |-> dry]
  /\ config = [selected |-> selected, dry |-> dry]
  /\ mem = Unknown /\ previous = Nothing /\ todo = {} /\ elapsed = 0
  /\ pc = "idle" /\ ended = FALSE
  /\ now = 0 /\ truth = Nothing /\ asked = FALSE
  /\ events = 0

-----------------------------------------------------------------------------
\* Faulty: the success, or the results, of the last run stand.
Begin_KeepsSuccess ==
  /\ pc = "idle" /\ pc' = "status"
  /\ config' = [selected |-> selected, dry |-> dry]
  /\ previous' = status.rel
  /\ mem' = [status EXCEPT !.rel = Nothing]
  /\ todo' = selected
  /\ elapsed' = 0 /\ ended' = FALSE /\ asked' = FALSE
  /\ now' = IF now < MaxTime THEN now + 1 ELSE now
  /\ UNCHANGED <<deployed, files, truth, events>>

Begin_KeepsResults ==
  /\ pc = "idle" /\ pc' = "status"
  /\ config' = [selected |-> selected, dry |-> dry]
  /\ previous' = status.rel
  /\ mem' = [status EXCEPT !.success = FALSE]
  /\ todo' = selected
  /\ elapsed' = 0 /\ ended' = FALSE /\ asked' = FALSE
  /\ now' = IF now < MaxTime THEN now + 1 ELSE now
  /\ UNCHANGED <<deployed, files, truth, events>>

\* The results of the last run are kept aside, and cleared in the status.
Begin ==
  /\ pc = "idle" /\ pc' = "status"
  /\ config' = [selected |-> selected, dry |-> dry]
  /\ previous' = status.rel
  /\ mem' = [status EXCEPT !.success = FALSE, !.rel = Nothing]
  /\ todo' = selected
  /\ elapsed' = 0 /\ ended' = FALSE /\ asked' = FALSE
  /\ now' = IF now < MaxTime THEN now + 1 ELSE now
  /\ UNCHANGED <<deployed, files, truth, events>>

\* publish_status() replaces one file after the other.
PublishStatus ==
  /\ pc = "status" /\ pc' = "metrics"
  /\ status' = mem
  /\ UNCHANGED <<deployed, metrics, local, now, truth, asked, events>>

PublishMetrics ==
  /\ pc = "metrics"
  /\ metrics' = [success |-> mem.success, last |-> mem.last, dry |-> config.dry]
  /\ pc' = IF ended THEN "idle" ELSE IF todo = {} THEN "finish" ELSE "attempt"
  /\ UNCHANGED <<deployed, status, local, now, truth, asked, events>>

\* r comes first among the relationships that are left.
IsNext(r) ==
  /\ r \in todo
  /\ \E n \in 1 .. Len(Order) : Order[n] = r /\ \A m \in 1 .. n - 1 : Order[m] \notin todo

\* A relationship that has not succeeded keeps the last success it had.
Kept(r) == IF previous[r] = None THEN None ELSE previous[r].last

Record(r, ok) ==
  /\ mem' = [mem EXCEPT !.rel[r] =
       [ok |-> ok, last |-> IF ok /\ ~config.dry THEN now ELSE Kept(r)]]
  /\ todo' = todo \ {r}
  /\ truth' = IF ok /\ ~config.dry THEN [truth EXCEPT ![r] = now] ELSE truth
  /\ asked' = TRUE
  /\ pc' = "status"
  /\ UNCHANGED <<deployed, files, config, previous, ended, now, events>>

\* run_configuration() returns, or raises an error that main() catches.
Attempt ==
  /\ pc = "attempt"
  /\ \E r \in todo \ hung, ok \in BOOLEAN : IsNext(r) /\ Record(r, ok)
  /\ UNCHANGED elapsed

\* Faulty: nothing limits a run; an application that does not
\* answer ends it.
AttemptHung_NoLimit ==
  /\ pc = "attempt"
  /\ elapsed' = elapsed + HangTime
  /\ \E r \in todo \cap hung : IsNext(r) /\ Record(r, FALSE)

AttemptHung_Ends ==
  /\ pc = "attempt" /\ \E r \in todo \cap hung : IsNext(r)
  /\ pc' = "idle" /\ asked' = TRUE
  /\ UNCHANGED <<deployed, files, local, now, truth, events>>

AttemptHung ==
  /\ pc = "attempt"
  /\ elapsed + HangTime <= TimeoutStartSec
  /\ elapsed' = elapsed + HangTime
  /\ \E r \in todo \cap hung : IsNext(r) /\ Record(r, FALSE)

\* systemd ends the run while it waits.
TimeOut ==
  /\ pc = "attempt" /\ \E r \in todo \cap hung : IsNext(r)
  /\ elapsed + HangTime > TimeoutStartSec
  /\ pc' = "idle" /\ asked' = TRUE
  /\ UNCHANGED <<deployed, files, local, now, truth, events>>

\* Faulty: one relationship that succeeded makes a success.
Finish_AnyOk ==
  /\ pc = "finish" /\ pc' = "status"
  /\ ended' = TRUE
  /\ LET ok == \E r \in config.selected : mem.rel[r].ok
     IN  mem' = [mem EXCEPT !.success = ok, !.last = IF ok /\ ~config.dry THEN now ELSE @]
  /\ UNCHANGED <<deployed, files, config, previous, todo, elapsed, now, truth, asked, events>>

Finish ==
  /\ pc = "finish" /\ pc' = "status"
  /\ ended' = TRUE
  /\ LET ok == \A r \in config.selected : mem.rel[r].ok
     IN  mem' = [mem EXCEPT !.success = ok, !.last = IF ok /\ ~config.dry THEN now ELSE @]
  /\ UNCHANGED <<deployed, files, config, previous, todo, elapsed, now, truth, asked, events>>

\* A kill, and the state directory's disk filling up, at any step.
Kill ==
  /\ pc # "idle" /\ pc' = "idle"
  /\ events < MaxEvents /\ events' = events + 1
  /\ \/ UNCHANGED truth
     \/ /\ pc = "attempt" /\ ~config.dry
        /\ \E r \in todo \ hung : IsNext(r) /\ truth' = [truth EXCEPT ![r] = now]
  /\ asked' = (asked \/ pc = "attempt")
  /\ UNCHANGED <<deployed, files, local, now>>

\* A rebuild selects other relationships; applications hang and recover.
Change ==
  /\ events < MaxEvents /\ events' = events + 1
  /\ \/ /\ selected' \in SUBSET Relationships \ {{}} /\ dry' \in BOOLEAN
        /\ UNCHANGED hung
     \/ /\ hung' \in {h \in SUBSET Relationships : Cardinality(h) <= MaxHung}
        /\ UNCHANGED <<selected, dry>>
  /\ UNCHANGED <<files, local, pc, now, truth, asked>>

Work ==
  \/ PublishStatus \/ PublishMetrics \/ Attempt \/ AttemptHung \/ TimeOut \/ Finish

Next == Begin \/ Work \/ Kill \/ Change

Spec == Init /\ [][Next]_vars

\* The timer starts run after run, and every step of a run has a time limit.
FairSpec == Spec /\ WF_vars(Begin) /\ WF_vars(Work)

-----------------------------------------------------------------------------
(* Properties *)

\* Once a run has sent a request, neither file advertises the success of an
\* earlier run: not while it goes on, and not if it is killed.
NoStaleSuccess ==
  asked /\ ~ended => ~status.success /\ ~metrics.success

\* The final report has an entry for every selected relationship and for no
\* other, whatever failed; it says success exactly if all of them succeeded.
ReportIsComplete ==
  ended /\ pc = "idle" /\ status = mem =>
    /\ {r \in Relationships : status.rel[r] # None} = config.selected
    /\ status.success = (\A r \in config.selected : status.rel[r].ok)
    /\ status.success /\ ~config.dry => status.last = now /\ \A r \in config.selected : truth[r] = now

\* The last success shown for a relationship is its last success: no kill, dry
\* run or failure leaves an older one standing.
LastSuccessIsTrue ==
  \A r \in Relationships :
    status.rel[r] # None /\ status.rel[r].last # None => status.rel[r].last = truth[r]

\* A selected relationship whose application answers is attempted and
\* reported again and again, whatever the others do.
FailuresAreIsolated ==
  \A r \in Relationships :
    <>[](r \in selected \ hung) => []<>(status.rel[r] # None)
=============================================================================
